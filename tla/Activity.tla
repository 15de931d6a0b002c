----------------------------- MODULE Activity -----------------------------
(***************************************************************************)
(* The activity tracker: src/activity.rs (ActivityTracker), as Scanner::   *)
(* scan of src/process.rs feeds it, and the finding Restarting that        *)
(* apply_live_findings takes from it.                                      *)
(*                                                                         *)
(* Processes start and exit while nobody looks; a scan sees those that     *)
(* run.  Scans come at any pace: every second, late, or after the window   *)
(* was minimized for long.  A key names one process for ever.              *)
(*                                                                         *)
(* Abstracted: the path of a process is a constant of it.  The changes     *)
(* found by one scan are noted in the order of a hash set, which is any.   *)
(***************************************************************************)
EXTENDS Naturals, Sequences, FiniteSets, SequencesExt

CONSTANTS
    Processes,   \* the processes that may ever run
    Paths,       \* executable paths (the empty path is one of them)
    PathOf,      \* PathOf[p]: the path that scans find for p
    Window,      \* seconds that count for Restarting (120)
    Keep,        \* seconds that are remembered (600)
    Threshold,   \* starts that make Restarting (3)
    StartLimit,  \* starts remembered of a path (8)
    EventLimit,  \* events remembered (128)
    MaxTime      \* bound: the clock stops here

ASSUME ActivityAssumption ==
    /\ PathOf \in [Processes -> Paths]
    /\ IsFiniteSet(Processes)
    /\ {Window, Keep, Threshold, StartLimit, EventLimit, MaxTime} \subseteq Nat
    /\ Window <= Keep
    /\ 0 < Threshold /\ Threshold <= StartLimit

VARIABLES
    now,          \* seconds since ProcDrift started
    running,      \* the processes that run
    born,         \* born[p]: history, when p started; MaxTime + 1 if it has not
    initialized,  \* ActivityTracker.initialized
    live,         \* ActivityTracker.live, as the set of its keys
    events,       \* ActivityTracker.events, oldest first
    starts,       \* ActivityTracker.starts: per path, oldest first
    restarting,   \* the paths whose rows the last scan found Restarting
    scanned,      \* history: when the last scan was; MaxTime + 1 before the first
    first,        \* history: the processes of the first scan
    seen          \* history: all events ever noted

tracking == <<now, running, born, initialized, live, events, starts, restarting,
            scanned, first, seen>>

machine == <<now, running, born>>
tracker == <<initialized, live, events, starts, restarting>>
history == <<scanned, first, seen>>

Event == [at : 0 .. MaxTime, key : Processes, kind : {"Started", "Exited"}]

TrackerInit ==
    /\ now = 0
    /\ running \in SUBSET Processes
    /\ born = [p \in Processes |-> IF p \in running THEN 0 ELSE MaxTime + 1]
    /\ initialized = FALSE
    /\ live = {}
    /\ events = <<>>
    /\ starts = [f \in Paths |-> <<>>]
    /\ restarting = {}
    /\ scanned = MaxTime + 1
    /\ first = {} /\ seen = <<>>

-----------------------------------------------------------------------------
(* The machine *)

Tick ==
    /\ now < MaxTime
    /\ now' = now + 1
    /\ UNCHANGED <<running, born>> /\ UNCHANGED tracker /\ UNCHANGED history

Launch(p) ==
    /\ born[p] > MaxTime
    /\ running' = running \cup {p}
    /\ born' = [born EXCEPT ![p] = now]
    /\ UNCHANGED now /\ UNCHANGED tracker /\ UNCHANGED history

Leave(p) ==
    /\ p \in running
    /\ running' = running \ {p}
    /\ UNCHANGED <<now, born>> /\ UNCHANGED tracker /\ UNCHANGED history

-----------------------------------------------------------------------------
(* ActivityTracker *)

Age(at) == now - at

TrimmedAtTheEnd(s) == IF Len(s) > StartLimit THEN SubSeq(s, 1, StartLimit) ELSE s

\* pop_front while there are too many.
Trimmed(s) == IF Len(s) > StartLimit THEN SubSeq(s, Len(s) - StartLimit + 1, Len(s)) ELSE s

\* The starts of the path f once the processes in found were added to it.
StartsAfter(f, found) ==
    Trimmed(starts[f] \o
        [n \in 1 .. Cardinality({p \in found : PathOf[p] = f}) |-> now])

\* pop_front while the oldest is out of date: what is left of s, when times[n]
\* is the time of s[n].
Fresh(s, times) ==
    LET stale == {n \in 0 .. Len(s) : \A m \in 1 .. n : Age(times[m]) > Keep}
    IN  SubSeq(s, Max(stale) + 1, Len(s))

Times(s) == [n \in DOMAIN s |-> s[n].at]

ExpiredByAge(s) == Fresh(s, Times(s))

\* expire: the events keep what is fresh, and of it no more than the limit.
Expired(s) ==
    LET kept == Fresh(s, Times(s))
    IN  IF Len(kept) > EventLimit
          THEN SubSeq(kept, Len(kept) - EventLimit + 1, Len(kept)) ELSE kept

IsRestarting(s) == Cardinality({n \in DOMAIN s : Age(s[n]) <= Window}) >= Threshold

Noted(keys, k) == [n \in DOMAIN keys |-> [at |-> now, key |-> keys[n], kind |-> k]]

FirstCounted == FALSE

\* The first update only remembers what runs.
IsFirst == ~initialized

KeptAll(current) == live \cup current

\* The keys that live keeps: those of this scan.
Kept(current) == current

\* update: the starts, then the exits, in an order that is any.
Update(current) ==
    \E begun \in SetToSeqs(current \ live), ended \in SetToSeqs(live \ current) :
        LET changes == Noted(begun, "Started") \o Noted(ended, "Exited")
            after   == [f \in Paths |->
                          LET all == StartsAfter(f, current \ live) IN Fresh(all, all)]
        IN  /\ events' = Expired(events \o changes)
            /\ starts' = after
            /\ restarting' = {f \in {PathOf[p] : p \in current} : IsRestarting(after[f])}
            /\ seen' = seen \o changes
            /\ live' = Kept(current)
            /\ UNCHANGED <<initialized, first>>

\* A scan that succeeds.
Scan ==
    /\ IF IsFirst
         THEN /\ initialized' = TRUE
              /\ live' = running /\ first' = running
              /\ UNCHANGED <<events, starts, restarting, seen>>
         ELSE Update(running)
    /\ scanned' = now
    /\ UNCHANGED machine

TrackerNext == Tick \/ Scan \/ \E p \in Processes : Launch(p) \/ Leave(p)

Tracking == TrackerInit /\ [][TrackerNext]_tracking

-----------------------------------------------------------------------------
(* Properties *)

\* Every variable keeps its type.
TrackerTypeOK ==
    /\ now \in 0 .. MaxTime
    /\ running \subseteq Processes
    /\ born \in [Processes -> 0 .. MaxTime + 1]
    /\ initialized \in BOOLEAN
    /\ live \subseteq Processes
    /\ events \in Seq(Event) /\ Len(events) <= EventLimit
    /\ starts \in [Paths -> Seq(0 .. MaxTime)]
    /\ restarting \subseteq Paths

StartedSince(f, t) ==
    {n \in DOMAIN seen : /\ seen[n].kind = "Started"
                         /\ PathOf[seen[n].key] = f
                         /\ seen[n].at >= t}

\* Restarting is what an unbounded memory of all starts would say: neither
\* the limit on the starts of a path nor their expiry loses or adds one.
RestartingExact ==
    restarting = {f \in {PathOf[p] : p \in live} :
        Cardinality({n \in StartedSince(f, 0) : scanned - seen[n].at <= Window}) >= Threshold}

\* A process is noted to start once and to exit once, in this order, however
\* the scans fall; the live keys are those that were noted to run and not to
\* have exited.
NotedOnce ==
    /\ \A m, n \in DOMAIN seen :
         (m < n /\ seen[m].key = seen[n].key)
            => seen[m].kind = "Started" /\ seen[n].kind = "Exited"
    /\ LET noted(k) == {seen[n].key : n \in {m \in DOMAIN seen : seen[m].kind = k}}
       IN  live = (first \cup noted("Started")) \ noted("Exited")

\* A start is never made up: what a scan notes as started did start since the
\* scan before, so that a start is dated late by the time between two scans
\* and by no more.
StartedSinceScan ==
    [][\A n \in DOMAIN seen' \ DOMAIN seen :
         seen'[n].kind = "Started" => born[seen'[n].key] >= scanned]_tracking
=============================================================================
