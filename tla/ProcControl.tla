---------------------------- MODULE ProcControl ----------------------------
(***************************************************************************)
(* Ending, suspending and resuming processes: src/action.rs and the        *)
(* handlers of src/app.rs that call it (action, end_selected_tree, the     *)
(* Space shortcut), against an operating system whose processes start and  *)
(* exit at any moment and whose PIDs are used again.                       *)
(*                                                                         *)
(* The rows on screen are what the last successful scan found.  A handler  *)
(* takes its targets from the rows, may wait in a message box (refreshes   *)
(* go on), then calls perform_action for each: OpenProcess, the checks     *)
(* made through the handle, and the action through the same handle.        *)
(*                                                                         *)
(* External, as the code uses it: a process is known by its PID and its    *)
(* creation time, and no two processes share both; an open handle keeps    *)
(* naming the same process and keeps its PID from being used again; a      *)
(* successful TerminateProcess ends the process; suspensions are counted.  *)
(* Creation times are taken to be distinct (they are FILETIMEs).           *)
(***************************************************************************)
EXTENDS Naturals, FiniteSets

CONSTANTS
    Pids,         \* process identifiers
    Kernel,       \* the pseudo-processes (0 and 4), refused by number
    Self,         \* ProcDrift itself
    Launcher,     \* a process that runs from the start and started ProcDrift
    Natures,      \* the natures of processes that may start: see Nature
    MaxClock,     \* bound: creation times are 1..MaxClock
    MaxSuspends   \* bound: NtSuspendProcess fails past this count

\* critical: IsProcessCritical succeeds and reports it, for action.rs lets the
\* action pass when that call fails; open: OpenProcess is granted.
Nature == [critical : BOOLEAN, open : BOOLEAN]

ASSUME PidAssumption ==
    /\ Kernel \subseteq Pids
    /\ Self \in Pids \ Kernel
    /\ Launcher \in Kernel
    /\ IsFiniteSet(Pids)

ASSUME BoundAssumption ==
    /\ MaxClock \in Nat
    /\ MaxSuspends \in Nat \ {0}
    /\ Natures \subseteq Nature

\* ProcKey
Keys == [pid : Pids, created : 0 .. MaxClock]

\* A ProcessRow, as far as control goes: paused is paused_by_procdrift,
\* guarded is trust == Protected.  line is history, not shown by Windows: the
\* process and the processes it descends from.
Rows == [key : Keys, ppid : Pids, guarded : BOOLEAN, paused : BOOLEAN,
         line : SUBSET Keys]

Kinds == {"Terminate", "Suspend", "Resume"}

\* Where the user interface thread is: waiting for messages, in a yes/no box,
\* before OpenProcess, with the handle, with the checks passed, before the
\* trailing refresh.  A box that only reports leaves nothing to go on with:
\* it is part of idle.
PCs == {"idle", "confirm", "open", "verify", "strike", "finish"}

VARIABLES
    os,      \* os[p]: the process of PID p, or what is left of the last one
    clock,   \* the last creation time
    rows,    \* AppState.rows
    paused,  \* scanner.paused
    pc,
    tree,    \* the handler is end_selected_tree, not action
    kind,    \* the Action
    chosen,  \* the rows the user confirmed (the captured targets)
    todo,    \* those not yet acted on
    target,  \* those being acted on: one row, or none
    failures \* the rows whose action failed

vars == <<os, clock, rows, paused, pc, tree, kind, chosen, todo, target, failures>>

\* The part the operating system keeps, and the part of the handlers.
world    == <<os, clock>>
handler  == <<pc, tree, kind, chosen, todo, target, failures>>

KeyOf(p) == [pid |-> p, created |-> os[p].created]
KeysOf(rs) == {r.key : r \in rs}

-----------------------------------------------------------------------------
(* The operating system *)

\* Rest is what os[p] holds for a PID that was never used.
Rest == [alive |-> FALSE, created |-> 0, ppid |-> Self, critical |-> FALSE,
         open |-> FALSE, suspends |-> 0, line |-> {}]

\* ProcDrift and the pseudo-processes run from the start to the end.
Resident(p) ==
    [Rest EXCEPT !.alive = TRUE, !.open = p = Self,
                 !.ppid = IF p = Self THEN Launcher ELSE p,
                 !.line = {[pid |-> q, created |-> 0] :
                             q \in IF p = Self THEN {Launcher, p} ELSE {p}}]

Init ==
    /\ os = [p \in Pids |-> IF p \in Kernel \cup {Self} THEN Resident(p) ELSE Rest]
    /\ clock = 0
    /\ rows = {}
    /\ paused = {}
    /\ pc = "idle"
    /\ tree = FALSE
    /\ kind = "Terminate"
    /\ chosen = {} /\ todo = {} /\ target = {} /\ failures = {}

\* A handle is open on the process that target names by PID.
Held(p) == pc \in {"verify", "strike"} /\ \E r \in target : r.key.pid = p

Spawn(p, parent, n) ==
    /\ clock < MaxClock
    /\ ~os[p].alive
    /\ ~Held(p)
    /\ os[parent].alive
    /\ clock' = clock + 1
    /\ os' = [os EXCEPT ![p] =
         [alive |-> TRUE, created |-> clock', ppid |-> parent,
          critical |-> n.critical, open |-> n.open, suspends |-> 0,
          line |-> os[parent].line \cup {[pid |-> p, created |-> clock']}]]
    /\ UNCHANGED <<rows, paused>> /\ UNCHANGED handler

ExitByItself(p) ==
    /\ p \notin Kernel \cup {Self}
    /\ os[p].alive
    /\ os' = [os EXCEPT ![p].alive = FALSE, ![p].suspends = 0]
    /\ UNCHANGED <<clock, rows, paused>> /\ UNCHANGED handler

\* A process that could not be opened can be from now on.
Grant(p) ==
    /\ os[p].alive /\ ~os[p].open
    /\ p \notin Kernel
    /\ os' = [os EXCEPT ![p].open = TRUE]
    /\ UNCHANGED <<clock, rows, paused>> /\ UNCHANGED handler

-----------------------------------------------------------------------------
(* refresh() *)

\* The identity of a key, and with it Protected, is queried once and cached
\* for as long as scans find the key.
Guarded(p) ==
    IF \E r \in rows : r.key = KeyOf(p)
      THEN (CHOOSE r \in rows : r.key = KeyOf(p)).guarded
      ELSE ~os[p].open

Scanned ==
    {[key |-> KeyOf(p), ppid |-> os[p].ppid, guarded |-> Guarded(p),
      paused |-> KeyOf(p) \in paused, line |-> os[p].line] :
        p \in {q \in Pids : os[q].alive}}

\* Scanner::scan replaces the rows and forgets the paused keys that are gone.
ScanInto ==
    /\ rows' = Scanned
    /\ paused' = paused \cap KeysOf(Scanned)

\* The timer, also under the message loop of a box.
Refresh ==
    /\ pc \in {"idle", "confirm"}
    /\ ScanInto
    /\ UNCHANGED world /\ UNCHANGED handler

-----------------------------------------------------------------------------
(* captured_process_tree *)

ChildOfPid(q, m) == q.ppid = m.key.pid

\* q becomes a member because of the member m: a row older than m has only
\* the number of its parent in common with it.
ChildOf(q, m) == q.ppid = m.key.pid /\ q.key.created >= m.key.created

\* One pass adds the children of the members, if their number is not that of
\* a member.
Pass(rs, members) ==
    members \cup {q \in rs : /\ q.key.pid # Self
                             /\ \A m \in members : m.key.pid # q.key.pid
                             /\ \E m \in members : ChildOf(q, m)}

\* Passes are made until one adds nothing, so no more than there are rows.
Captured(rs, root) ==
    LET member[n \in 0 .. Cardinality(rs)] ==
          IF n = 0 THEN {root} ELSE Pass(rs, member[n - 1])
    IN  {r \in rs : r \in member[Cardinality(rs)]}

-----------------------------------------------------------------------------
(* The handlers, up to the first perform_action *)

\* A handler's locals are gone when it returns.
Return ==
    /\ pc' = "idle"
    /\ tree' = FALSE /\ kind' = "Terminate"
    /\ chosen' = {} /\ todo' = {} /\ target' = {} /\ failures' = {}

Choose(rs, isTree, k, next) ==
    /\ pc = "idle"
    /\ chosen' = rs /\ todo' = rs
    /\ tree' = isTree
    /\ kind' = k
    /\ pc' = next
    /\ UNCHANGED <<rows, paused, target, failures>> /\ UNCHANGED world

\* action(kind) on the selected row; only ending asks for a confirmation.
Act(r, k) ==
    /\ r.key.pid # Self
    /\ r.key.pid \notin Kernel
    /\ ~r.guarded
    /\ Choose({r}, FALSE, k, IF k = "Terminate" THEN "confirm" ELSE "open")

\* The Space shortcut: what the last scan said decides.
Toggle(r) == Act(r, IF r.paused THEN "Resume" ELSE "Suspend")

\* end_selected_tree on the selected row.
EndTree(r) ==
    /\ r.key.pid # Self
    /\ Choose(Captured(rows, r), TRUE, "Terminate", "confirm")

Yes ==
    /\ pc = "confirm"
    /\ pc' = "open"
    /\ UNCHANGED <<rows, paused, tree, kind, chosen, todo, target, failures>>
    /\ UNCHANGED world

No ==
    /\ pc = "confirm"
    /\ Return
    /\ UNCHANGED <<rows, paused>> /\ UNCHANGED world

-----------------------------------------------------------------------------
(* perform_action *)

\* What the handlers do when perform_action returns, its handle closed: after
\* a failure action() reports and returns; otherwise the next target is taken,
\* or the rows are refreshed.
Continue(r, fails) ==
    /\ todo' = todo \ {r}
    /\ failures' = fails
    /\ pc' = IF todo' = {} THEN "finish" ELSE "open"
    /\ UNCHANGED <<tree, kind, chosen>>

ProceedSilently(r, failed) ==
    /\ IF failed /\ ~tree THEN Return
       ELSE target' = {} /\ Continue(r, failures)
    /\ UNCHANGED rows

ProceedHolding(r, failed) ==
    /\ IF failed /\ ~tree THEN Return
       ELSE UNCHANGED target /\ Continue(r, failures)
    /\ UNCHANGED rows

Proceed(r, failed) ==
    /\ IF failed /\ ~tree THEN Return
       ELSE target' = {} /\ Continue(r, IF failed THEN failures \cup {r} ELSE failures)
    /\ UNCHANGED rows

\* The targets are taken last captured first: no target before the targets
\* captured because of it.
Turn(r) == r \in todo /\ \A q \in todo \ {r} : ~ChildOf(q, r)

RefusedByPid(r) == r.key.pid \in Kernel \cup {Self}

\* OpenProcess by PID: the process that has it now, if it can be opened.
Open(r) ==
    /\ pc = "open"
    /\ Turn(r)
    /\ ~RefusedByPid(r)
    /\ os[r.key.pid].alive /\ os[r.key.pid].open
    /\ target' = {r}
    /\ pc' = "verify"
    /\ UNCHANGED <<rows, paused, tree, kind, chosen, todo, failures>>
    /\ UNCHANGED world

\* Refused, gone or denied.
OpenFails(r) ==
    /\ pc = "open"
    /\ Turn(r)
    /\ \/ RefusedByPid(r)
       \/ ~(os[r.key.pid].alive /\ os[r.key.pid].open)
    /\ Proceed(r, TRUE)
    /\ UNCHANGED paused /\ UNCHANGED world

\* process_created and IsProcessCritical, through the handle.  An exited
\* process keeps its creation time as long as the handle is open.  One of which
\* the second call fails passes, as one that is not critical.
SameProcess(r) == r.key.created # 0 /\ os[r.key.pid].created = r.key.created

Unchecked(r) == ~os[r.key.pid].critical
UncheckedCritical(r) == SameProcess(r)

Passes(r) == SameProcess(r) /\ ~os[r.key.pid].critical

Verify ==
    /\ pc = "verify"
    /\ \E r \in target : Passes(r)
    /\ pc' = "strike"
    /\ UNCHANGED <<rows, paused, tree, kind, chosen, todo, target, failures>>
    /\ UNCHANGED world

VerifyFails ==
    /\ pc = "verify"
    /\ \E r \in target : ~Passes(r) /\ Proceed(r, TRUE)
    /\ UNCHANGED paused /\ UNCHANGED world

\* The effect of a kind of action that Windows accepts.
Accepts(p, k) ==
    /\ os[p].alive
    /\ k = "Suspend" => os[p].suspends < MaxSuspends

Effect(o, k) ==
    CASE k = "Terminate" -> [o EXCEPT !.alive = FALSE, !.suspends = 0]
      [] k = "Suspend"   -> [o EXCEPT !.suspends = @ + 1]
      [] k = "Resume"    -> [o EXCEPT !.suspends = IF @ = 0 THEN 0 ELSE @ - 1]

PausedNotForgotten(r) ==
    IF kind = "Suspend" \/ kind = "Resume" THEN paused \cup {r.key} ELSE paused \ {r.key}

\* action() notes what it paused; end_selected_tree leaves it to the scan.
PausedAfter(r) ==
    IF tree THEN paused
    ELSE IF kind = "Suspend" THEN paused \cup {r.key} ELSE paused \ {r.key}

Strike ==
    /\ pc = "strike"
    /\ \E r \in target :
        /\ Accepts(r.key.pid, kind)
        /\ os' = [os EXCEPT ![r.key.pid] = Effect(@, kind)]
        /\ paused' = PausedAfter(r)
        /\ Proceed(r, FALSE)
    /\ UNCHANGED clock

\* Windows rejects the action: the process has exited, the count is at its
\* limit, or for a reason of its own.
StrikeFails ==
    /\ pc = "strike"
    /\ \E r \in target : Proceed(r, TRUE)
    /\ UNCHANGED paused /\ UNCHANGED world

\* The trailing refresh, which may fail and leave the rows.
Finish ==
    /\ pc = "finish"
    /\ ScanInto \/ UNCHANGED <<rows, paused>>
    /\ Return
    /\ UNCHANGED world

-----------------------------------------------------------------------------

World ==
    \/ \E p, parent \in Pids, n \in Natures : Spawn(p, parent, n)
    \/ \E p \in Pids : ExitByItself(p) \/ Grant(p)

User ==
    \/ \E r \in rows, k \in Kinds : Act(r, k)
    \/ \E r \in rows : Toggle(r) \/ EndTree(r)
    \/ Yes \/ No

Perform ==
    \/ \E r \in todo : Open(r) \/ OpenFails(r)
    \/ Verify \/ VerifyFails \/ Strike \/ StrikeFails \/ Finish

Next == World \/ Refresh \/ User \/ Perform

Spec == Init /\ [][Next]_vars

-----------------------------------------------------------------------------
(* Properties *)

\* Every variable keeps its type.
TypeOK ==
    /\ os \in [Pids -> [alive : BOOLEAN, created : 0 .. MaxClock, ppid : Pids,
                        critical : BOOLEAN, open : BOOLEAN,
                        suspends : 0 .. MaxSuspends, line : SUBSET Keys]]
    /\ clock \in 0 .. MaxClock
    /\ rows \subseteq Rows
    /\ paused \subseteq Keys
    /\ pc \in PCs
    /\ tree \in BOOLEAN
    /\ kind \in Kinds
    /\ chosen \subseteq Rows
    /\ todo \subseteq chosen
    /\ target \subseteq todo
    /\ failures \subseteq chosen

\* A step in which ProcDrift changes the process of PID p.
Struck(p) == pc = "strike" /\ pc' # "strike" /\ os'[p] # os[p]

\* SECURITY.md: "a recycled PID cannot be hit by mistake".  However long a
\* box stayed open and whatever exited and started meanwhile, an action only
\* reaches a process that is, PID and creation time, one the user confirmed.
StrikesTheChosen ==
    [][\A p \in Pids : Struck(p) => \E r \in chosen : r.key = KeyOf(p)]_vars

\* No action, and no member of a captured tree, reaches ProcDrift itself, a
\* pseudo-process or a process Windows reports as critical, though a tree is
\* captured without looking at Protected.  It says nothing of a process about
\* which IsProcessCritical fails.
SparesTheSystem ==
    [][\A p \in Pids : Struck(p) => p \notin Kernel \cup {Self} /\ ~os[p].critical]_vars

\* The captured tree is the selected process and the rows that descend from
\* it through processes that are rows themselves, by true descent and not by
\* the number in ppid, leaving out what descends through ProcDrift itself.
DescendsFrom(r, root) ==
    LET between == {k \in r.line : k.created >= root.key.created}
    IN  /\ root.key \in r.line
        /\ between \subseteq KeysOf(rows)
        /\ \A k \in between : k.pid # Self
TreeExact ==
    [][(pc = "idle" /\ tree') =>
         \E root \in rows : chosen' = {r \in rows : DescendsFrom(r, root)}]_vars

\* What ProcDrift shows as paused by itself is suspended, unless it is gone.
PausedIsSuspended ==
    \A k \in paused : (os[k.pid].alive /\ KeyOf(k.pid) = k) => os[k.pid].suspends > 0

\* When the last target of a tree was acted on, each is gone or noted as a
\* failure, of which the report then names eight at most.
NothingSilentlyLeft ==
    (pc = "finish" /\ tree) =>
        \A r \in chosen : (os[r.key.pid].alive /\ KeyOf(r.key.pid) = r.key) => r \in failures

\* The Space shortcut is a toggle (README.md): a process that ProcDrift
\* suspended and that is shown as not paused runs.
SuspendedIsPaused ==
    pc = "idle" => \A r \in rows :
        (os[r.key.pid].alive /\ KeyOf(r.key.pid) = r.key /\ os[r.key.pid].suspends > 0)
            => r.key \in paused
=============================================================================
