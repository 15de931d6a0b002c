------------------------------ MODULE Scanner ------------------------------
(***************************************************************************)
(* A scan: src/process.rs (Scanner::scan, enumerate_processes,             *)
(* query_identity, classify_evidence) with Classification, as refresh and  *)
(* set_minimized of src/app.rs use them.                                   *)
(*                                                                         *)
(* The list of processes is one snapshot.  The identities are not part of  *)
(* it: each key that is not in the cache is asked for by its PID, one      *)
(* after another, while processes exit and start and PIDs are used again.  *)
(*                                                                         *)
(* Abstracted: names and paths are told apart and no more; the CPU time of *)
(* a process stands for all its counters; the findings left out here are   *)
(* those of Activity and of the measurements.  A query that fails leaves   *)
(* everything as it is.                                                    *)
(***************************************************************************)
EXTENDS Naturals, FiniteSets, Classification

CONSTANTS
    Pids,
    System,        \* a process that runs from the start
    Programs,      \* what a process may run: a name and a path
    Records,       \* Baseline.records: the paths recorded for a name
    AllowedPaths,  \* Baseline.allowed_paths
    Autostart,     \* the paths in the startup index
    MaxClock,      \* bound: creation times are 1..MaxClock
    MaxUsed        \* bound: CPU time is 0..MaxUsed

Names == {g.name : g \in Programs}
PathsOf == {g.path : g \in Programs}

ASSUME ScannerAssumption ==
    /\ System \in Pids
    /\ IsFiniteSet(Pids)
    /\ NoPath \notin PathsOf
    /\ DOMAIN Records \subseteq Names
    /\ \A name \in DOMAIN Records : Records[name] \subseteq PathsOf
    /\ AllowedPaths \subseteq PathsOf /\ Autostart \subseteq PathsOf
    /\ {MaxClock, MaxUsed} \subseteq Nat

\* ProcKey
Keys == [pid : Pids, created : 0 .. MaxClock]

\* Identity: the name comes with the snapshot, the rest is asked for.
Identities == [path : PathsOf \cup {NoPath}, accessible : BOOLEAN]

Findings == {"New", "DifferentPath", "ParentEnded", "LaunchedByKnown",
             "ManyInstances", "StartsAutomatically"}

\* ProcessRow.  The rest is history: mother is what the process that started it
\* ran, spent its CPU time since the last scan.
Rows == [key : Keys, ppid : Pids, path : PathsOf \cup {NoPath}, trust : Trusts,
         findings : SUBSET Findings, cpu : 0 .. MaxUsed,
         mother : Programs, spent : 0 .. MaxUsed]

VARIABLES
    os,         \* os[p]: the process of PID p, or what is left of the last one
    clock,      \* the last creation time
    minimized,
    pc,         \* "idle", or "query": the snapshot is there, identities are asked for
    raw,        \* the snapshot
    identities, \* Scanner.identities, by key
    previous,   \* Scanner.previous: the CPU time of the last scan, by key
    timed,      \* Scanner.last_scan is set
    rows,       \* AppState.rows
    counted     \* history: the CPU time of every process at the last scan

vars == <<os, clock, minimized, pc, raw, identities, previous, timed, rows, counted>>

world == <<os, clock>>

KeyOf(p) == [pid |-> p, created |-> os[p].created]
KeysOf(rs) == {r.key : r \in rs}

None == [k \in {} |-> 0]

\* f with the value v for k.
With(f, k, v) == [j \in DOMAIN f \cup {k} |-> IF j = k THEN v ELSE f[j]]

\* f restricted to keys.
Only(f, keys) == [k \in DOMAIN f \cap keys |-> f[k]]

\* The value of f for k, or the default 0.
Of(f, k) == IF k \in DOMAIN f THEN f[k] ELSE 0

Init ==
    /\ \E g \in Programs, n \in 0 .. MaxUsed :
         os = [p \in Pids |-> [alive |-> p = System, created |-> 0, ppid |-> System,
                               born |-> 0, program |-> g, mother |-> g,
                               open |-> FALSE, used |-> n]]
    /\ clock = 0
    /\ minimized = FALSE
    /\ pc = "idle"
    /\ raw = {} /\ rows = {}
    /\ identities = None /\ previous = None /\ counted = None
    /\ timed = FALSE

-----------------------------------------------------------------------------
(* The operating system *)

Spawn(p, parent, g, opens) ==
    /\ clock < MaxClock
    /\ ~os[p].alive /\ os[parent].alive
    /\ clock' = clock + 1
    /\ os' = [os EXCEPT ![p] =
         [alive |-> TRUE, created |-> clock', ppid |-> parent, born |-> os[parent].created,
          program |-> g, mother |-> os[parent].program, open |-> opens, used |-> 0]]
    /\ UNCHANGED <<minimized, pc, raw, identities, previous, timed, rows, counted>>

Exit(p) ==
    /\ p # System
    /\ os[p].alive
    /\ os' = [os EXCEPT ![p].alive = FALSE]
    /\ UNCHANGED <<clock, minimized, pc, raw, identities, previous, timed, rows, counted>>

Work(p) ==
    /\ os[p].alive /\ os[p].used < MaxUsed
    /\ os' = [os EXCEPT ![p].used = @ + 1]
    /\ UNCHANGED <<clock, minimized, pc, raw, identities, previous, timed, rows, counted>>

-----------------------------------------------------------------------------
(* enumerate_processes *)

\* NtQuerySystemInformation: every process, at one moment.
Snapshot ==
    {[key |-> KeyOf(p), ppid |-> os[p].ppid, program |-> os[p].program, used |-> os[p].used,
      mother |-> os[p].mother] :
        p \in {q \in Pids : os[q].alive}}

\* refresh, unless the window is minimized.
Enumerate ==
    /\ pc = "idle"
    /\ ~minimized
    /\ raw' = Snapshot
    /\ pc' = "query"
    /\ UNCHANGED <<minimized, identities, previous, timed, rows, counted>> /\ UNCHANGED world

CachedByPid(k) == {j \in DOMAIN identities : j.pid = k.pid}

\* The entries of the cache that answer for the key k.
Cached(k) == {j \in DOMAIN identities : j = k}

\* query_identity: what runs with that PID now, if it can be opened; its path
\* may be withheld all the same.
Answers(p) ==
    IF os[p].alive /\ os[p].open
      THEN [path : {os[p].program.path, NoPath}, accessible : {TRUE}]
      ELSE [path : {NoPath}, accessible : {FALSE}]

Query(k) ==
    /\ pc = "query"
    /\ Cached(k) = {}
    /\ \E a \in Answers(k.pid) : identities' = With(identities, k, a)
    /\ UNCHANGED <<minimized, pc, raw, previous, timed, rows, counted>> /\ UNCHANGED world

-----------------------------------------------------------------------------
(* The evidence *)

IdentityOf(k) == identities[CHOOSE j \in Cached(k) : TRUE]

MatchOf(r) == Match(Records, AllowedPaths, r.program.name, IdentityOf(r.key).path)

\* all_pids and baseline_pids, filled anew by each scan.
AllPids == {r.key.pid : r \in raw}

BaselinePids ==
    {r.key.pid : r \in {x \in raw : IdentityOf(x.key).accessible /\ MatchOf(x) = "Path"}}

\* classify_evidence
TrustOf(r) == Trust(IdentityOf(r.key).accessible, MatchOf(r))

Classified(r) ==
    IF ~IdentityOf(r.key).accessible THEN {}
    ELSE AboutSnapshot(TRUE, Records, MatchOf(r))
           \cup (IF r.ppid \notin AllPids THEN {"ParentEnded"} ELSE {})
           \cup (IF r.ppid \in BaselinePids THEN {"LaunchedByKnown"} ELSE {})

\* The part of apply_live_findings that looks at paths.
Live(r) ==
    LET path == IdentityOf(r.key).path
    IN  (IF path # NoPath /\ \E q \in raw \ {r} : IdentityOf(q.key).path = path
           THEN {"ManyInstances"} ELSE {})
          \cup (IF path \in Autostart THEN {"StartsAutomatically"} ELSE {})

\* saturating_sub
Since(used, before) == IF used > before THEN used - before ELSE 0

RowOf(r) ==
    [key |-> r.key, ppid |-> r.ppid, path |-> IdentityOf(r.key).path,
     trust |-> TrustOf(r), findings |-> Classified(r) \cup Live(r),
     cpu |-> IF timed THEN Since(r.used, Of(previous, r.key)) ELSE 0,
     mother |-> r.mother,
     spent |-> Since(r.used, Of(counted, r.key))]

CacheKeptAll(keys) == identities

\* identities.retain
CacheKept(keys) == Only(identities, keys)

Counters == [k \in KeysOf(raw) |-> (CHOOSE r \in raw : r.key = k).used]

\* scan returns the rows.
Classify ==
    /\ pc = "query"
    /\ \A r \in raw : Cached(r.key) # {}
    /\ rows' = {RowOf(r) : r \in raw}
    /\ identities' = CacheKept(KeysOf(raw))
    /\ previous' = Counters
    /\ timed' = TRUE
    /\ counted' = Counters
    /\ raw' = {}
    /\ pc' = "idle"
    /\ UNCHANGED minimized /\ UNCHANGED world

-----------------------------------------------------------------------------
(* set_minimized *)

MinimizeForgetsTime ==
    /\ pc = "idle" /\ ~minimized
    /\ minimized' = TRUE
    /\ previous' = None
    /\ UNCHANGED <<pc, raw, identities, timed, rows, counted>> /\ UNCHANGED world

Minimize ==
    /\ pc = "idle" /\ ~minimized
    /\ minimized' = TRUE
    /\ timed' = FALSE
    /\ previous' = None
    /\ UNCHANGED <<pc, raw, identities, rows, counted>> /\ UNCHANGED world

Restore ==
    /\ minimized
    /\ minimized' = FALSE
    /\ UNCHANGED <<pc, raw, identities, previous, timed, rows, counted>> /\ UNCHANGED world

World ==
    \/ \E p, parent \in Pids, g \in Programs, opens \in BOOLEAN : Spawn(p, parent, g, opens)
    \/ \E p \in Pids : Exit(p) \/ Work(p)

Next ==
    \/ World
    \/ Enumerate \/ Classify \/ Minimize \/ Restore
    \/ \E r \in raw : Query(r.key)

Spec == Init /\ [][Next]_vars

-----------------------------------------------------------------------------
(* Properties *)

\* Every variable keeps its type, and between scans the cache of identities is
\* that of the rows: it does not grow with what has ever run.
TypeOK ==
    /\ os \in [Pids -> [alive : BOOLEAN, created : 0 .. MaxClock, ppid : Pids,
                        born : 0 .. MaxClock, program : Programs, mother : Programs,
                        open : BOOLEAN, used : 0 .. MaxUsed]]
    /\ clock \in 0 .. MaxClock
    /\ minimized \in BOOLEAN /\ timed \in BOOLEAN
    /\ pc \in {"idle", "query"}
    /\ raw \subseteq [key : Keys, ppid : Pids, program : Programs, used : 0 .. MaxUsed,
                      mother : Programs]
    /\ DOMAIN identities \subseteq Keys
    /\ \A k \in DOMAIN identities : identities[k] \in Identities
    /\ \A f \in {previous, counted} : f \in [DOMAIN f -> 0 .. MaxUsed] /\ DOMAIN f \subseteq Keys
    /\ rows \subseteq Rows
    /\ pc = "idle" => DOMAIN identities = KeysOf(rows)

Runs(k) == os[k.pid].alive /\ KeyOf(k.pid) = k

\* A path is asked for by PID and kept by key.  It may be the path of the next
\* process with that PID, but then the row is of a process that is gone: no
\* row of a running process, in this scan or a later one, has another's path.
PathIsOwn ==
    \A r \in rows : Runs(r.key) => r.path \in {NoPath, os[r.key.pid].program.path}

\* The CPU time shown is what the process itself used since the last scan, the
\* whole of it for one that started meanwhile, or nothing: in the first scan and
\* in the first after a restore.  It is never reckoned from the counters of the
\* process that had its PID before.
CpuIsOwn == \A r \in rows : r.cpu \in {0, r.spent}

\* README.md on Known parent: "Launched by a process that matches the snapshot".
KnownParentTrue ==
    \A r \in rows : "LaunchedByKnown" \in r.findings =>
        r.mother.name \in DOMAIN Records /\ r.mother.path \in Records[r.mother.name]
=============================================================================
