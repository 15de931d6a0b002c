------------------------- MODULE ProcControlProofs -------------------------
(***************************************************************************)
(* What is proved of ProcControl, for any PIDs, any natures of processes   *)
(* and any bounds.                                                         *)
(*                                                                         *)
(* The inductive invariant, Inv, says what the open handle is for: from    *)
(* the moment the checks were made through it, its process is the one the  *)
(* user confirmed, whatever exits and starts (Pinned). That no key names   *)
(* two processes comes from the dates: nothing that ProcDrift remembers is *)
(* younger than the last creation (Dated).                                 *)
(*                                                                         *)
(* That a captured tree is true descent needs a second one, Descent: the   *)
(* line of a process is its own key and the line of its parent, unless its *)
(* PID was used again (Lines), and the rows of a scan say the same of one  *)
(* another (RowLines). The passes of the capture are a recursive function  *)
(* of their number; what they reach follows from the first of them that    *)
(* adds nothing (CapturedClosed) and the first that has a row              *)
(* (CapturedLeast).                                                        *)
(***************************************************************************)
EXTENDS ProcControl, FiniteSetTheorems, WellFoundedInduction, TLAPS

\* No process, row or remembered key is younger than the last creation.
Dated ==
    /\ \A p \in Pids : os[p].created <= clock
    /\ \A k \in paused : k.created <= clock
    /\ \A r \in rows \cup chosen : r.key.created <= clock

\* The one handle is on a process that is not of the system, and after the
\* checks it is the process of the row and not critical.
Pinned ==
    /\ \A r, q \in target : r = q
    /\ pc \in {"verify", "strike"} => \A r \in target : ~RefusedByPid(r)
    /\ pc = "strike" => \A r \in target : Passes(r)

Running(r) == os[r.key.pid].alive /\ KeyOf(r.key.pid) = r.key

\* A tree is ended and nothing else; a target that was dealt with is gone or
\* noted as a failure; the handler finishes when none is left, and what it
\* captured goes with it.
Accounted ==
    /\ pc = "idle" => chosen = {}
    /\ tree => kind = "Terminate"
    /\ tree => \A r \in chosen \ todo : Running(r) => r \in failures
    /\ pc = "finish" => todo = {}

Inv == TypeOK /\ Dated /\ Pinned /\ PausedIsSuspended /\ Accounted

-----------------------------------------------------------------------------
(* The operators *)

Processes == [alive : BOOLEAN, created : 0 .. MaxClock, ppid : Pids,
              critical : BOOLEAN, open : BOOLEAN,
              suspends : 0 .. MaxSuspends, line : SUBSET Keys]

LEMMA KeyOfType == ASSUME TypeOK, NEW p \in Pids PROVE KeyOf(p) \in Keys
BY DEF TypeOK, KeyOf, Keys

\* A scan gives rows of the processes that run.
LEMMA ScannedType ==
    ASSUME TypeOK
    PROVE  Scanned \subseteq Rows /\ \A r \in Scanned : \E p \in Pids : r.key = KeyOf(p)
<1>1. ASSUME NEW p \in Pids PROVE Guarded(p) \in BOOLEAN
  BY DEF TypeOK, Guarded, Rows
<1>2. ASSUME NEW p \in Pids
      PROVE  [key |-> KeyOf(p), ppid |-> os[p].ppid, guarded |-> Guarded(p),
              paused |-> KeyOf(p) \in paused, line |-> os[p].line] \in Rows
  <2>1. KeyOf(p) \in Keys /\ os[p].ppid \in Pids /\ os[p].line \in SUBSET Keys
    BY KeyOfType DEF TypeOK
  <2>2. (KeyOf(p) \in paused) \in BOOLEAN
    OBVIOUS
  <2>3. QED
    BY <1>1, <2>1, <2>2, Zenon DEF Rows
<1>3. QED
  BY <1>2 DEF Scanned

\* The captured targets are rows.
LEMMA CapturedRows == ASSUME NEW rs, NEW root PROVE Captured(rs, root) \subseteq rs
BY DEF Captured

\* A process in which one field was set.
LEMMA FieldSet ==
    ASSUME NEW o \in Processes
    PROVE  /\ \A v \in BOOLEAN : /\ [o EXCEPT !.alive = v] \in Processes
                                 /\ [o EXCEPT !.alive = v].alive = v
                                 /\ [o EXCEPT !.alive = v].created = o.created
                                 /\ [o EXCEPT !.alive = v].critical = o.critical
                                 /\ [o EXCEPT !.alive = v].suspends = o.suspends
           /\ \A v \in BOOLEAN : /\ [o EXCEPT !.open = v] \in Processes
                                 /\ [o EXCEPT !.open = v].alive = o.alive
                                 /\ [o EXCEPT !.open = v].created = o.created
                                 /\ [o EXCEPT !.open = v].critical = o.critical
                                 /\ [o EXCEPT !.open = v].suspends = o.suspends
           /\ \A v \in 0 .. MaxSuspends :
                                 /\ [o EXCEPT !.suspends = v] \in Processes
                                 /\ [o EXCEPT !.suspends = v].alive = o.alive
                                 /\ [o EXCEPT !.suspends = v].created = o.created
                                 /\ [o EXCEPT !.suspends = v].critical = o.critical
                                 /\ [o EXCEPT !.suspends = v].suspends = v
BY DEF Processes

\* A process that has ended.
LEMMA EndedOK ==
    ASSUME NEW o \in Processes
    PROVE  /\ [o EXCEPT !.alive = FALSE, !.suspends = 0] \in Processes
           /\ [o EXCEPT !.alive = FALSE, !.suspends = 0].created = o.created
           /\ [o EXCEPT !.alive = FALSE, !.suspends = 0].critical = o.critical
           /\ ~[o EXCEPT !.alive = FALSE, !.suspends = 0].alive
<1> DEFINE dead == [o EXCEPT !.alive = FALSE]
<1>1. /\ dead \in Processes /\ dead.created = o.created /\ dead.critical = o.critical
      /\ ~dead.alive
  BY FieldSet
<1>2. 0 \in 0 .. MaxSuspends
  BY BoundAssumption
<1> HIDE DEF dead
<1>3. /\ [dead EXCEPT !.suspends = 0] \in Processes
      /\ [dead EXCEPT !.suspends = 0].created = o.created
      /\ [dead EXCEPT !.suspends = 0].critical = o.critical
      /\ ~[dead EXCEPT !.suspends = 0].alive
  BY <1>1, <1>2, FieldSet
<1>4. QED
  BY <1>3 DEF dead

\* What an action of Windows leaves of a process.
LEMMA EffectOK ==
    ASSUME NEW o \in Processes, NEW k \in Kinds, k = "Suspend" => o.suspends < MaxSuspends
    PROVE  /\ Effect(o, k) \in Processes
           /\ Effect(o, k).created = o.created
           /\ k = "Terminate" => ~Effect(o, k).alive
           /\ k = "Suspend" => Effect(o, k).suspends > 0
<1>1. o.suspends \in 0 .. MaxSuspends /\ MaxSuspends \in Nat \ {0}
  BY BoundAssumption DEF Processes
<1>2. CASE k = "Terminate"
  <2>1. Effect(o, k) = [o EXCEPT !.alive = FALSE, !.suspends = 0]
    BY <1>2 DEF Effect
  <2>2. QED
    BY <1>2, <2>1, EndedOK
<1>3. CASE k = "Suspend"
  <2>1. Effect(o, k) = [o EXCEPT !.suspends = o.suspends + 1]
    BY <1>3 DEF Effect
  <2>2. o.suspends + 1 \in 0 .. MaxSuspends /\ o.suspends + 1 > 0
    BY <1>1, <1>3
  <2> DEFINE count == o.suspends + 1
  <2>3. Effect(o, k) = [o EXCEPT !.suspends = count] /\ count \in 0 .. MaxSuspends /\ count > 0
    BY <2>1, <2>2
  <2> HIDE DEF count
  <2> DEFINE after == [o EXCEPT !.suspends = count]
  <2>4. after \in Processes /\ after.created = o.created /\ after.suspends = count
    BY <2>3, FieldSet
  <2>5. Effect(o, k) = after
    BY <2>3
  <2> HIDE DEF after
  <2>6. QED
    BY <1>3, <2>3, <2>4, <2>5
<1>4. CASE k = "Resume"
  <2>1. Effect(o, k) = [o EXCEPT !.suspends = IF o.suspends = 0 THEN 0 ELSE o.suspends - 1]
    BY <1>4 DEF Effect
  <2>2. (IF o.suspends = 0 THEN 0 ELSE o.suspends - 1) \in 0 .. MaxSuspends
    BY <1>1
  <2> DEFINE count == IF o.suspends = 0 THEN 0 ELSE o.suspends - 1
  <2>3. Effect(o, k) = [o EXCEPT !.suspends = count] /\ count \in 0 .. MaxSuspends
    BY <2>1, <2>2
  <2> HIDE DEF count
  <2> DEFINE after == [o EXCEPT !.suspends = count]
  <2>4. after \in Processes /\ after.created = o.created /\ after.suspends = count
    BY <2>3, FieldSet
  <2>5. Effect(o, k) = after
    BY <2>3
  <2> HIDE DEF after
  <2>6. QED
    BY <1>4, <2>3, <2>4, <2>5
<1>5. QED
  BY <1>2, <1>3, <1>4 DEF Kinds

\* When perform_action returns, the handler returns too or goes on.
LEMMA ProceedOutcome ==
    ASSUME NEW r, NEW failed \in BOOLEAN, Proceed(r, failed)
    PROVE  /\ rows' = rows
           /\ target' = {}
           /\ \/ Return
              \/ /\ todo' = todo \ {r}
                 /\ failures' = IF failed THEN failures \cup {r} ELSE failures
                 /\ pc' \in {"finish", "open"}
                 /\ pc' = "finish" => todo' = {}
                 /\ UNCHANGED <<tree, kind, chosen>>
BY DEF Proceed, Continue, Return

-----------------------------------------------------------------------------
(* The inductive invariant *)

LEMMA InvInit == ASSUME Init PROVE Inv
<1>1. ASSUME NEW p \in Pids
      PROVE  /\ os[p] \in Processes /\ os[p].created = 0
  <2>1. \A q \in Pids : [pid |-> q, created |-> 0] \in Keys
    BY BoundAssumption DEF Keys
  <2>2. Rest \in Processes /\ Rest.created = 0
    BY PidAssumption, BoundAssumption DEF Rest, Processes
  <2>3. Resident(p) \in Processes /\ Resident(p).created = 0
    <3>1. {[pid |-> q, created |-> 0] : q \in IF p = Self THEN {Launcher, p} ELSE {p}} \subseteq Keys
      BY <2>1, PidAssumption
    <3>2. (IF p = Self THEN Launcher ELSE p) \in Pids
      BY PidAssumption
    <3> DEFINE up   == [Rest EXCEPT !.alive = TRUE]
               wide == [up EXCEPT !.open = p = Self]
               sired == [wide EXCEPT !.ppid = IF p = Self THEN Launcher ELSE p]
               line == {[pid |-> q, created |-> 0] : q \in IF p = Self THEN {Launcher, p} ELSE {p}}
    <3>3. up \in Processes /\ up.created = 0
      BY <2>2 DEF Processes
    <3>4. wide \in Processes /\ wide.created = 0
      <4> HIDE DEF up
      <4>1. CASE p = Self
        <5>1. [up EXCEPT !.open = TRUE] \in Processes /\ [up EXCEPT !.open = TRUE].created = 0
          BY <3>3, FieldSet
        <5>2. (p = Self) = TRUE
          BY <4>1
        <5>3. QED
          BY <5>1, <5>2, Zenon
      <4>2. CASE p # Self
        <5>1. [up EXCEPT !.open = FALSE] \in Processes /\ [up EXCEPT !.open = FALSE].created = 0
          BY <3>3, FieldSet
        <5>2. (p = Self) = FALSE
          BY <4>2
        <5>3. QED
          BY <5>1, <5>2, Zenon
      <4>3. QED
        BY <4>1, <4>2
    <3>5. sired \in Processes /\ sired.created = 0
      <4> HIDE DEF wide
      <4>1. QED
        BY <3>2, <3>4 DEF Processes
    <3>6. [sired EXCEPT !.line = line] \in Processes /\ [sired EXCEPT !.line = line].created = 0
      <4> HIDE DEF sired, line
      <4>1. line \subseteq Keys
        BY <3>1 DEF line
      <4>2. QED
        BY <3>5, <4>1 DEF Processes
    <3>7. QED
      BY <3>6 DEF Resident
  <2>4. QED
    BY <2>2, <2>3 DEF Init
<1>2. TypeOK
  <2>1. os \in [Pids -> Processes]
    BY <1>1 DEF Init
  <2>2. /\ clock = 0 /\ rows = {} /\ paused = {} /\ pc = "idle" /\ ~tree
        /\ tree \in BOOLEAN /\ kind = "Terminate"
        /\ chosen = {} /\ todo = {} /\ target = {} /\ failures = {}
    BY DEF Init
  <2>3. QED
    BY <2>1, <2>2, BoundAssumption DEF TypeOK, Processes, PCs, Kinds
<1>3. Dated /\ Pinned /\ PausedIsSuspended /\ Accounted
  BY <1>1 DEF Init, Dated, Pinned, PausedIsSuspended, Accounted
<1>4. QED
  BY <1>2, <1>3 DEF Inv

\* A process starts, with a PID that no handle keeps.
LEMMA SpawnInv ==
    ASSUME Inv, NEW p \in Pids, NEW parent \in Pids, NEW n \in Natures, Spawn(p, parent, n)
    PROVE  Inv'
<1> DEFINE new == [alive |-> TRUE, created |-> clock + 1, ppid |-> parent,
                   critical |-> n.critical, open |-> n.open, suspends |-> 0,
                   line |-> os[parent].line \cup {[pid |-> p, created |-> clock + 1]}]
<1>1. /\ clock < MaxClock /\ ~Held(p) /\ clock' = clock + 1
      /\ os' = [os EXCEPT ![p] = new]
      /\ UNCHANGED <<rows, paused, pc, tree, kind, chosen, todo, target, failures>>
  BY DEF Spawn, handler
<1>2. TypeOK /\ clock \in Nat /\ MaxClock \in Nat /\ MaxSuspends \in Nat
  BY BoundAssumption DEF Inv, TypeOK
<1>3. new \in Processes
  <2>1. [pid |-> p, created |-> clock + 1] \in Keys
    BY <1>1, <1>2 DEF Keys
  <2>2. os[parent].line \subseteq Keys
    BY <1>2 DEF TypeOK
  <2>3. n.critical \in BOOLEAN /\ n.open \in BOOLEAN
    BY BoundAssumption DEF Nature
  <2>4. QED
    BY <1>1, <1>2, <2>1, <2>2, <2>3 DEF Processes
<1>4. TypeOK'
  BY <1>1, <1>2, <1>3 DEF TypeOK, Processes
<1>5. new.created = clock + 1
  OBVIOUS
<1>6. os'[p] = new /\ \A q \in Pids \ {p} : os'[q] = os[q]
  BY <1>1, <1>2 DEF TypeOK
<1> HIDE DEF new
<1>7. Dated'
  <2>1. \A q \in Pids : os[q].created \in Nat
    BY <1>2 DEF TypeOK
  <2>2. \A k \in paused : k.created \in Nat
    BY <1>2 DEF TypeOK, Keys
  <2>3. \A r \in rows \cup chosen : r.key.created \in Nat
    BY <1>2 DEF TypeOK, Rows, Keys
  <2>4. QED
    BY <1>1, <1>2, <1>5, <1>6, <2>1, <2>2, <2>3 DEF Inv, Dated
\* A key that is remembered is not the key of the new process.
<1>8. ASSUME NEW k \in Keys, k.created <= clock, k.pid = p PROVE KeyOf(p)' # k
  BY <1>2, <1>5, <1>6, <1>8 DEF KeyOf, Keys
<1>9. Pinned'
  <2>1. pc \in {"verify", "strike"} => \A r \in target : r.key.pid # p
    BY <1>1 DEF Held
  <2>2. \A r \in target : r.key.pid \in Pids
    BY <1>2 DEF TypeOK, Rows, Keys
  <2>3. QED
    BY <1>1, <1>6, <2>1, <2>2 DEF Inv, Pinned, Passes, SameProcess, RefusedByPid
<1>10. PausedIsSuspended'
  <2> SUFFICES ASSUME NEW k \in paused, os'[k.pid].alive, KeyOf(k.pid)' = k
               PROVE  os'[k.pid].suspends > 0
    BY <1>1 DEF PausedIsSuspended
  <2>1. k \in Keys /\ k.pid \in Pids /\ k.created <= clock
    BY <1>2 DEF Inv, TypeOK, Dated, Keys
  <2>2. k.pid # p
    BY <1>8, <2>1
  <2>3. QED
    BY <1>6, <2>1, <2>2 DEF Inv, PausedIsSuspended, KeyOf
<1>11. Accounted'
  <2> SUFFICES ASSUME tree, NEW r \in chosen \ todo, Running(r)' PROVE r \in failures
    BY <1>1 DEF Inv, Accounted
  <2>1. r.key \in Keys /\ r.key.pid \in Pids /\ r.key.created <= clock
    BY <1>2 DEF Inv, TypeOK, Dated, Rows, Keys
  <2>2. r.key.pid # p
    BY <1>8, <2>1 DEF Running
  <2>3. Running(r)
    BY <1>6, <2>1, <2>2 DEF Running, KeyOf
  <2>4. QED
    BY <2>3 DEF Inv, Accounted
<1>12. QED
  BY <1>4, <1>7, <1>9, <1>10, <1>11 DEF Inv

\* A process exits or becomes accessible: its key stays.
LEMMA ExitGrantInv ==
    ASSUME Inv, NEW p \in Pids, ExitByItself(p) \/ Grant(p) PROVE Inv'
<1>1. /\ UNCHANGED <<clock, rows, paused, pc, tree, kind, chosen, todo, target, failures>>
      /\ \/ os' = [os EXCEPT ![p] = [os[p] EXCEPT !.alive = FALSE, !.suspends = 0]]
         \/ os' = [os EXCEPT ![p] = [os[p] EXCEPT !.open = TRUE]]
  BY DEF ExitByItself, Grant, handler
<1>2. TypeOK /\ os \in [Pids -> Processes] /\ MaxSuspends \in Nat
  BY BoundAssumption DEF Inv, TypeOK, Processes
<1>3. /\ os' \in [Pids -> Processes]
      /\ \A q \in Pids : /\ os'[q].created = os[q].created
                         /\ os'[q].critical = os[q].critical
                         /\ os'[q].alive => os[q].alive /\ os'[q].suspends = os[q].suspends
  <2>1. os[p] \in Processes
    BY <1>2
  <2>2. CASE os' = [os EXCEPT ![p] = [os[p] EXCEPT !.alive = FALSE, !.suspends = 0]]
    <3> DEFINE ended == [os[p] EXCEPT !.alive = FALSE, !.suspends = 0]
    <3>1. /\ ended \in Processes /\ ended.created = os[p].created
          /\ ended.critical = os[p].critical /\ ~ended.alive
      BY <2>1, EndedOK
    <3>2. os' = [os EXCEPT ![p] = ended]
      BY <2>2
    <3> HIDE DEF ended
    <3>3. QED
      BY <1>2, <3>1, <3>2
  <2>3. CASE os' = [os EXCEPT ![p] = [os[p] EXCEPT !.open = TRUE]]
    <3> DEFINE granted == [os[p] EXCEPT !.open = TRUE]
    <3>1. /\ granted \in Processes /\ granted.created = os[p].created
          /\ granted.critical = os[p].critical
          /\ granted.alive = os[p].alive /\ granted.suspends = os[p].suspends
      BY <2>1, FieldSet
    <3>2. os' = [os EXCEPT ![p] = granted]
      BY <2>3
    <3> HIDE DEF granted
    <3>3. QED
      BY <1>2, <3>1, <3>2
  <2>4. QED
    BY <1>1, <2>2, <2>3
<1>4. TypeOK'
  BY <1>1, <1>2, <1>3 DEF TypeOK, Processes
<1>5. /\ \A k \in paused : k.pid \in Pids
      /\ \A r \in chosen : r.key.pid \in Pids
      /\ \A r \in target : r.key.pid \in Pids
  BY <1>2 DEF TypeOK, Keys, Rows
<1>6. Dated' /\ Pinned'
  BY <1>1, <1>3, <1>5 DEF Inv, Dated, Pinned, Passes, SameProcess, RefusedByPid
<1>7. PausedIsSuspended' /\ Accounted'
  BY <1>1, <1>3, <1>5 DEF Inv, PausedIsSuspended, Accounted, Running, KeyOf
<1>8. QED
  BY <1>4, <1>6, <1>7 DEF Inv

\* A scan, or a refresh that failed: rows of processes that run, and no paused
\* key that was not there.
LEMMA ScanOutcome ==
    ASSUME Inv, ScanInto \/ UNCHANGED <<rows, paused>>
    PROVE  /\ rows' \subseteq Rows
           /\ \A r \in rows' : r.key.created <= clock
           /\ paused' \subseteq paused
<1>1. CASE ScanInto
  <2>1. \A p \in Pids : KeyOf(p).created <= clock
    BY DEF Inv, Dated, KeyOf
  <2>2. \A r \in Scanned : r.key.created <= clock
    BY <2>1, ScannedType DEF Inv
  <2>3. QED
    BY <1>1, <2>2, ScannedType DEF Inv, ScanInto
<1>2. CASE UNCHANGED <<rows, paused>>
  BY <1>2 DEF Inv, TypeOK, Dated
<1>3. QED
  BY <1>1, <1>2

\* The timer.
LEMMA RefreshInv == ASSUME Inv, Refresh PROVE Inv'
<1>1. /\ UNCHANGED <<os, clock, pc, tree, kind, chosen, todo, target, failures>>
      /\ rows' \subseteq Rows
      /\ \A r \in rows' : r.key.created <= clock
      /\ paused' \subseteq paused
  BY ScanOutcome DEF Refresh, world, handler
<1>2. TypeOK'
  BY <1>1 DEF Inv, TypeOK
<1>3. Dated' /\ PausedIsSuspended'
  BY <1>1 DEF Inv, Dated, PausedIsSuspended, KeyOf
<1>4. Pinned' /\ Accounted'
  BY <1>1 DEF Inv, Pinned, Passes, SameProcess, Accounted, Running, KeyOf
<1>5. QED
  BY <1>2, <1>3, <1>4 DEF Inv

\* A handler returns, after a refresh or not.
LEMMA ReturnInv ==
    ASSUME Inv, Return, UNCHANGED world, ScanInto \/ UNCHANGED <<rows, paused>>
    PROVE  Inv'
<1>1. /\ UNCHANGED <<os, clock>>
      /\ rows' \subseteq Rows
      /\ \A r \in rows' : r.key.created <= clock
      /\ paused' \subseteq paused
  BY ScanOutcome DEF world
<1>2. /\ pc' = "idle" /\ tree' = FALSE /\ kind' = "Terminate"
      /\ chosen' = {} /\ todo' = {} /\ target' = {} /\ failures' = {}
  BY DEF Return
<1>3. TypeOK'
  BY <1>1, <1>2 DEF Inv, TypeOK, PCs, Kinds
<1>4. Dated' /\ PausedIsSuspended'
  BY <1>1, <1>2 DEF Inv, Dated, PausedIsSuspended, KeyOf
<1>5. Pinned' /\ Accounted'
  BY <1>2 DEF Pinned, Accounted
<1>6. QED
  BY <1>3, <1>4, <1>5 DEF Inv

\* A handler captures its targets from the rows.
LEMMA ChooseInv ==
    ASSUME Inv, NEW rs \in SUBSET rows, NEW isTree \in BOOLEAN, NEW k \in Kinds,
           NEW next \in {"confirm", "open"}, isTree => k = "Terminate",
           Choose(rs, isTree, k, next)
    PROVE  Inv'
<1>1. /\ pc = "idle" /\ pc' = next /\ tree' = isTree /\ kind' = k
      /\ chosen' = rs /\ todo' = rs
      /\ UNCHANGED <<os, clock, rows, paused, target, failures>>
  BY DEF Choose, world
<1>2. target = {} /\ failures = {}
  BY <1>1 DEF Inv, Accounted, TypeOK
<1>3. TypeOK'
  BY <1>1, <1>2 DEF Inv, TypeOK, PCs
<1>4. Dated' /\ PausedIsSuspended'
  BY <1>1 DEF Inv, Dated, PausedIsSuspended, KeyOf
<1>5. Pinned' /\ Accounted'
  BY <1>1, <1>2 DEF Pinned, Accounted
<1>6. QED
  BY <1>3, <1>4, <1>5 DEF Inv

\* The user selects a row and a command, and answers the box.
LEMMA UserInv == ASSUME Inv, User PROVE Inv'
<1>1. ASSUME NEW r \in rows, NEW k \in Kinds, Act(r, k) PROVE Inv'
  <2> DEFINE next == IF k = "Terminate" THEN "confirm" ELSE "open"
  <2>1. Choose({r}, FALSE, k, next) /\ next \in {"confirm", "open"} /\ {r} \in SUBSET rows
    BY <1>1 DEF Act
  <2>2. FALSE \in BOOLEAN
    OBVIOUS
  <2> HIDE DEF next
  <2>3. QED
    BY <2>1, <2>2, ChooseInv
<1>2. ASSUME NEW r \in rows, Toggle(r) PROVE Inv'
  <2>1. (IF r.paused THEN "Resume" ELSE "Suspend") \in Kinds
    BY DEF Kinds
  <2>2. QED
    BY <1>1, <1>2, <2>1 DEF Toggle
<1>3. ASSUME NEW r \in rows, EndTree(r) PROVE Inv'
  <2>1. Choose(Captured(rows, r), TRUE, "Terminate", "confirm")
    BY <1>3 DEF EndTree
  <2>2. Captured(rows, r) \in SUBSET rows /\ "Terminate" \in Kinds /\ TRUE \in BOOLEAN
    BY CapturedRows DEF Kinds
  <2>3. QED
    BY <2>1, <2>2, ChooseInv
<1>4. CASE Yes
  <2>1. /\ pc = "confirm" /\ pc' = "open"
        /\ UNCHANGED <<os, clock, rows, paused, tree, kind, chosen, todo, target, failures>>
    BY <1>4 DEF Yes, world
  <2>2. TypeOK' /\ Dated' /\ PausedIsSuspended'
    BY <2>1 DEF Inv, TypeOK, PCs, Dated, PausedIsSuspended, KeyOf
  <2>3. Pinned' /\ Accounted'
    BY <2>1 DEF Inv, Pinned, Accounted, Running, KeyOf
  <2>4. QED
    BY <2>2, <2>3 DEF Inv
<1>5. CASE No
  BY <1>5, ReturnInv DEF No
<1>6. QED
  BY <1>1, <1>2, <1>3, <1>4, <1>5 DEF User

\* perform_action opens the process and checks it.
LEMMA OpenVerifyInv ==
    ASSUME Inv, NEW r \in todo, Open(r) \/ Verify PROVE Inv'
<1>1. UNCHANGED <<os, clock, rows, paused, tree, kind, chosen, todo, failures>>
  BY DEF Open, Verify, world
<1>2. /\ pc \notin {"idle", "finish"} /\ pc' \in {"verify", "strike"}
      /\ target' \subseteq todo
  BY DEF Inv, TypeOK, Open, Verify
<1>3. TypeOK' /\ Dated' /\ PausedIsSuspended'
  BY <1>1, <1>2 DEF Inv, TypeOK, PCs, Dated, PausedIsSuspended, KeyOf
<1>4. Accounted'
  BY <1>1, <1>2 DEF Inv, Accounted, Running, KeyOf
<1>5. Pinned'
  <2>1. CASE Open(r)
    BY <1>1, <2>1 DEF Open, Pinned, RefusedByPid
  <2>2. CASE Verify
    <3>1. PICK q \in target : Passes(q)
      BY <2>2 DEF Verify
    <3>2. \A t \in target : Passes(t)
      BY <3>1 DEF Inv, Pinned
    <3>3. pc = "verify" /\ pc' = "strike" /\ target' = target
      BY <2>2 DEF Verify
    <3>4. QED
      BY <1>1, <3>2, <3>3 DEF Inv, Pinned, Passes, SameProcess, RefusedByPid
  <2>3. QED
    BY <2>1, <2>2
<1>6. QED
  BY <1>3, <1>4, <1>5 DEF Inv

\* perform_action failed: the target is noted, or the handler returns.
LEMMA FailureInv ==
    ASSUME Inv, NEW r \in todo, pc \notin {"idle", "finish"}, Proceed(r, TRUE),
           UNCHANGED paused, UNCHANGED world
    PROVE  Inv'
<1>1. UNCHANGED <<os, clock, rows, paused>> /\ target' = {} /\ TRUE \in BOOLEAN
  BY ProceedOutcome DEF world
<1>2. CASE Return
  BY <1>1, <1>2, ReturnInv DEF world
<1>3. CASE /\ todo' = todo \ {r} /\ failures' = failures \cup {r}
           /\ pc' \in {"finish", "open"}
           /\ pc' = "finish" => todo' = {}
           /\ UNCHANGED <<tree, kind, chosen>>
  <2>1. TypeOK' /\ Dated' /\ PausedIsSuspended'
    BY <1>1, <1>3 DEF Inv, TypeOK, PCs, Dated, PausedIsSuspended, KeyOf
  <2>2. Pinned'
    BY <1>1, <1>3 DEF Pinned
  <2>3. Accounted'
    BY <1>1, <1>3 DEF Inv, Accounted, Running, KeyOf
  <2>4. QED
    BY <2>1, <2>2, <2>3 DEF Inv
<1>4. QED
  BY <1>2, <1>3, ProceedOutcome

\* The action has its effect on the process of the handle.
LEMMA StrikeInv == ASSUME Inv, Strike PROVE Inv'
<1> PICK r \in target : /\ Accepts(r.key.pid, kind)
                        /\ os' = [os EXCEPT ![r.key.pid] = Effect(os[r.key.pid], kind)]
                        /\ paused' = PausedAfter(r)
                        /\ Proceed(r, FALSE)
  BY DEF Strike
<1> DEFINE p == r.key.pid
           struck == Effect(os[p], kind)
<1>1. TypeOK /\ os \in [Pids -> Processes] /\ pc = "strike" /\ clock' = clock
  BY DEF Inv, TypeOK, Processes, Strike
<1>2. r \in todo /\ r \in chosen /\ r \in Rows /\ r.key \in Keys /\ p \in Pids /\ kind \in Kinds
  BY <1>1 DEF TypeOK, Rows, Keys
<1>3. KeyOf(p) = r.key /\ ~RefusedByPid(r)
  BY <1>1, <1>2 DEF Inv, Pinned, Passes, SameProcess, KeyOf, Keys
<1>4. /\ struck \in Processes
      /\ struck.created = os[p].created
      /\ kind = "Terminate" => ~struck.alive
      /\ kind = "Suspend" => struck.suspends > 0
  <2>1. os[p] \in Processes /\ (kind = "Suspend" => os[p].suspends < MaxSuspends)
    BY <1>1, <1>2 DEF Accepts
  <2>2. QED
    BY <1>2, <2>1, EffectOK
<1>5. os' = [os EXCEPT ![p] = struck]
  OBVIOUS
<1> HIDE DEF struck
<1>6. /\ os' \in [Pids -> Processes]
      /\ os'[p] = struck
      /\ \A q \in Pids \ {p} : os'[q] = os[q]
      /\ \A q \in Pids : os'[q].created = os[q].created
  BY <1>1, <1>2, <1>4, <1>5
<1>7. /\ rows' = rows /\ target' = {}
      /\ \/ Return
         \/ /\ todo' = todo \ {r} /\ failures' = failures
            /\ pc' \in {"finish", "open"}
            /\ pc' = "finish" => todo' = {}
            /\ UNCHANGED <<tree, kind, chosen>>
  BY ProceedOutcome
<1>8. /\ paused' \subseteq paused \cup {r.key}
      /\ r.key \in paused' => (kind = "Suspend" \/ tree)
  BY DEF PausedAfter
<1>9. TypeOK'
  <2>1. paused' \subseteq Keys
    BY <1>1, <1>2, <1>8 DEF TypeOK
  <2>2. CASE Return
    BY <1>1, <1>6, <1>7, <2>1, <2>2 DEF TypeOK, Processes, PCs, Kinds, Return
  <2>3. CASE /\ todo' = todo \ {r} /\ failures' = failures
             /\ pc' \in {"finish", "open"}
             /\ pc' = "finish" => todo' = {}
             /\ UNCHANGED <<tree, kind, chosen>>
    BY <1>1, <1>6, <1>7, <2>1, <2>3 DEF TypeOK, Processes, PCs
  <2>4. QED
    BY <1>7, <2>2, <2>3
<1>10. Dated'
  <2>1. \A q \in Pids : os'[q].created <= clock'
    BY <1>1, <1>6 DEF Inv, Dated
  <2>2. r.key.created <= clock
    BY <1>2 DEF Inv, Dated
  <2>3. chosen' \subseteq chosen
    BY <1>7 DEF Return
  <2>4. QED
    BY <1>1, <1>7, <1>8, <2>1, <2>2, <2>3 DEF Inv, Dated
<1>11. Pinned'
  BY <1>7 DEF Pinned, Return
<1>12. PausedIsSuspended'
  <2> SUFFICES ASSUME NEW k \in paused', os'[k.pid].alive, KeyOf(k.pid)' = k
               PROVE  os'[k.pid].suspends > 0
    BY DEF PausedIsSuspended
  <2>1. k \in Keys /\ k.pid \in Pids
    BY <1>9 DEF TypeOK, Keys
  <2>2. KeyOf(k.pid) = k
    BY <1>6, <2>1 DEF KeyOf
  <2>3. CASE k.pid = p
    <3>1. k = r.key
      BY <1>3, <2>2, <2>3
    <3>2. kind # "Terminate"
      BY <1>4, <1>6, <2>3
    <3>3. kind = "Suspend"
      BY <1>8, <3>1, <3>2 DEF Inv, Accounted
    <3>4. QED
      BY <1>4, <1>6, <2>3, <3>3
  <2>4. CASE k.pid # p
    <3>1. k \in paused
      BY <1>8, <2>4
    <3>2. QED
      BY <1>6, <2>1, <2>2, <2>4, <3>1 DEF Inv, PausedIsSuspended
  <2>5. QED
    BY <2>3, <2>4
<1>13. Accounted'
  <2>1. CASE Return
    BY <2>1 DEF Accounted, Return
  <2>2. CASE /\ todo' = todo \ {r} /\ failures' = failures
             /\ pc' \in {"finish", "open"}
             /\ pc' = "finish" => todo' = {}
             /\ UNCHANGED <<tree, kind, chosen>>
    <3> SUFFICES ASSUME tree, NEW q \in chosen \ todo', Running(q)' PROVE q \in failures
      BY <2>2 DEF Inv, Accounted
    <3>1. q.key.pid \in Pids /\ kind = "Terminate"
      BY <1>1 DEF TypeOK, Rows, Keys, Inv, Accounted
    <3>2. q.key.pid # p
      BY <1>4, <1>6, <3>1 DEF Running
    <3>3. Running(q) /\ q \in chosen \ todo
      BY <1>6, <2>2, <3>1, <3>2 DEF Running, KeyOf
    <3>4. QED
      BY <3>3 DEF Inv, Accounted
  <2>3. QED
    BY <1>7, <2>1, <2>2
<1>14. QED
  BY <1>9, <1>10, <1>11, <1>12, <1>13 DEF Inv

\* The calls of perform_action, and the end of the handler.
LEMMA PerformInv == ASSUME Inv, Perform PROVE Inv'
<1>1. ASSUME NEW r \in todo, Open(r) PROVE Inv'
  BY <1>1, OpenVerifyInv
<1>2. ASSUME NEW r \in todo, OpenFails(r) PROVE Inv'
  BY <1>2, FailureInv DEF OpenFails
<1>3. CASE Verify
  <2>1. \E r \in target : r \in todo
    BY <1>3 DEF Verify, Inv, TypeOK
  <2>2. QED
    BY <1>3, <2>1, OpenVerifyInv
<1>4. CASE VerifyFails
  <2>1. PICK r \in target : Proceed(r, TRUE)
    BY <1>4 DEF VerifyFails
  <2>2. r \in todo /\ pc = "verify" /\ UNCHANGED paused /\ UNCHANGED world
    BY <1>4 DEF VerifyFails, Inv, TypeOK
  <2>3. QED
    BY <2>1, <2>2, FailureInv
<1>5. CASE Strike
  BY <1>5, StrikeInv
<1>6. CASE StrikeFails
  <2>1. PICK r \in target : Proceed(r, TRUE)
    BY <1>6 DEF StrikeFails
  <2>2. r \in todo /\ pc = "strike" /\ UNCHANGED paused /\ UNCHANGED world
    BY <1>6 DEF StrikeFails, Inv, TypeOK
  <2>3. QED
    BY <2>1, <2>2, FailureInv
<1>7. CASE Finish
  BY <1>7, ReturnInv DEF Finish
<1>8. QED
  BY <1>1, <1>2, <1>3, <1>4, <1>5, <1>6, <1>7 DEF Perform

LEMMA InvNext == ASSUME Inv, [Next]_vars PROVE Inv'
<1>1. CASE World
  BY <1>1, SpawnInv, ExitGrantInv DEF World
<1>2. CASE UNCHANGED vars
  BY <1>2 DEF vars, Inv, TypeOK, Dated, Pinned, Passes, SameProcess, RefusedByPid,
              PausedIsSuspended, Accounted, Running, KeyOf
<1>3. QED
  BY <1>1, <1>2, RefreshInv, UserInv, PerformInv DEF Next

\* What a step changes of a process, when the handler leaves its last call.
LEMMA StruckIsPinned ==
    ASSUME Inv, [Next]_vars, NEW p \in Pids, Struck(p)
    PROVE  \E r \in target : r.key.pid = p /\ Passes(r) /\ ~RefusedByPid(r)
<1>1. pc = "strike" /\ pc' # pc /\ os' # os
  BY DEF Struck
<1>2. Strike
  <2>1. ~World
    BY <1>1 DEF World, Spawn, ExitByItself, Grant, handler
  <2>2. ~Refresh /\ ~User /\ ~UNCHANGED vars
    BY <1>1 DEF Refresh, User, Toggle, EndTree, Act, Choose, Yes, No, vars
  <2>3. QED
    BY <1>1, <2>1, <2>2 DEF Next, Perform, Open, OpenFails, Verify, VerifyFails,
                            StrikeFails, Finish, world
<1>3. PICK r \in target : os' = [os EXCEPT ![r.key.pid] = Effect(os[r.key.pid], kind)]
  BY <1>2 DEF Strike
<1>4. r.key.pid = p
  BY <1>3 DEF Struck, Inv, TypeOK
<1>5. QED
  BY <1>1, <1>4 DEF Inv, Pinned

-----------------------------------------------------------------------------
(* The captured tree *)

\* f has the members after each of up to N passes.
PassesOf(rs, root, N, f) ==
    /\ f \in [0 .. N -> SUBSET rs]
    /\ f[0] = {root} /\ \A n \in 1 .. N : f[n] = Pass(rs, f[n - 1])

\* Some number is the least of those with a property.
LEMMA Least ==
  ASSUME NEW S \in SUBSET Nat, S # {}
  PROVE  \E m \in S : \A n \in S : m <= n
<1> DEFINE less == OpToRel(<, Nat)
<1>1. IsWellFoundedOn(less, Nat)
  BY NatLessThanWellFounded
<1>2. \A m, n \in Nat : m < n => <<m, n>> \in less
  BY DEF OpToRel
<1> HIDE DEF less
<1>3. PICK m \in S : \A n \in S : ~ (<<n, m>> \in less)
  BY <1>1, WFMin
<1>4. \A n \in S : m <= n
  <2> SUFFICES ASSUME NEW n \in S  PROVE m <= n
    OBVIOUS
  <2>1. ~ (n < m)
    BY <1>2, <1>3, Zenon
  <2> QED  BY <2>1
<1> QED  BY <1>4

LEMMA PassFacts ==
  ASSUME NEW rs, NEW members \in SUBSET rs
  PROVE  Pass(rs, members) \in SUBSET rs /\ members \subseteq Pass(rs, members)
BY DEF Pass

LEMMA PassAdds ==
  ASSUME NEW rs, NEW members, NEW x \in Pass(rs, members), x \notin members
  PROVE  x \in rs /\ x.key.pid # Self /\ \E m \in members : ChildOf(x, m)
BY DEF Pass

\* Passes can be made any number of times.
LEMMA PassesExist ==
  ASSUME NEW rs, NEW root \in rs, NEW N \in Nat
  PROVE  \E f : PassesOf(rs, root, N, f)
<1> DEFINE Never == {n \in Nat : ~ \E f : PassesOf(rs, root, n, f)}
<1> SUFFICES ASSUME Never # {}  PROVE FALSE
  OBVIOUS
<1>1. PICK m \in Never : \A n \in Never : m <= n
  <2>1. Never \in SUBSET Nat
    OBVIOUS
  <2> HIDE DEF Never
  <2> QED  BY <2>1, Least
<1>2. CASE m = 0
  <2> DEFINE f == [n \in 0 .. 0 |-> {root}]
  <2>1. PassesOf(rs, root, 0, f)
    BY DEF PassesOf
  <2> QED  BY <1>2, <2>1
<1>3. CASE m # 0
  <2>1. m - 1 \in Nat /\ m - 1 \notin Never /\ m \in Nat
    BY <1>1, <1>3
  <2>2. PICK f : PassesOf(rs, root, m - 1, f)
    BY <2>1
  <2> DEFINE g == [n \in 0 .. m |-> IF n = m THEN Pass(rs, f[m - 1]) ELSE f[n]]
  <2>3. /\ f \in [0 .. m - 1 -> SUBSET rs] /\ f[0] = {root}
        /\ \A n \in 1 .. m - 1 : f[n] = Pass(rs, f[n - 1])
    BY <2>2 DEF PassesOf
  <2>4. Pass(rs, f[m - 1]) \in SUBSET rs
    <3>1. f[m - 1] \in SUBSET rs
      BY <2>1, <2>3
    <3> QED  BY <3>1, PassFacts
  <2>5. g \in [0 .. m -> SUBSET rs]
    BY <2>1, <2>3, <2>4
  <2>6. g[0] = {root}
    BY <1>3, <2>1, <2>3
  <2>7. ASSUME NEW n \in 1 .. m
        PROVE  g[n] = Pass(rs, g[n - 1])
    <3>1. n - 1 \in 0 .. m - 1 /\ g[n - 1] = f[n - 1]
      BY <2>1
    <3>2. CASE n = m
      BY <2>1, <3>1, <3>2
    <3>3. CASE n # m
      <4>1. n \in 1 .. m - 1 /\ g[n] = f[n]
        BY <2>1, <3>3
      <4> QED  BY <2>3, <3>1, <4>1
    <3> QED  BY <3>2, <3>3
  <2> HIDE DEF g
  <2>8. PassesOf(rs, root, m, g)
    BY <2>5, <2>6, <2>7 DEF PassesOf
  <2> QED  BY <2>8
<1> QED  BY <1>2, <1>3

\* The captured rows are the members after as many passes as there are rows.
LEMMA CapturedIsLast ==
  ASSUME NEW rs, IsFiniteSet(rs), NEW root \in rs
  PROVE  \E f : PassesOf(rs, root, Cardinality(rs), f) /\ Captured(rs, root) = f[Cardinality(rs)]
<1> DEFINE N == Cardinality(rs)
           member[n \in 0 .. N] == IF n = 0 THEN {root} ELSE Pass(rs, member[n - 1])
<1>1. N \in Nat
  BY FS_CardinalityType
<1>2. PICK f : PassesOf(rs, root, N, f)
  BY <1>1, PassesExist
<1>3. f = [n \in 0 .. N |-> IF n = 0 THEN {root} ELSE Pass(rs, f[n - 1])]
  <2>1. f = [n \in 0 .. N |-> f[n]]
    BY <1>2 DEF PassesOf
  <2>2. \A n \in 0 .. N : f[n] = IF n = 0 THEN {root} ELSE Pass(rs, f[n - 1])
    BY <1>1, <1>2 DEF PassesOf
  <2> QED  BY <2>1, <2>2
<1>4. member = [n \in 0 .. N |-> IF n = 0 THEN {root} ELSE Pass(rs, member[n - 1])]
  BY <1>3, Zenon
<1>5. Captured(rs, root) = {r \in rs : r \in member[N]}
  BY Zenon DEF Captured
<1> HIDE DEF member
<1>6. \A n \in 0 .. N : member[n] = f[n]
  <2> DEFINE Other == {n \in 0 .. N : member[n] # f[n]}
  <2> SUFFICES ASSUME Other # {}  PROVE FALSE
    OBVIOUS
  <2>1. PICK m \in Other : \A n \in Other : m <= n
    <3>1. Other \in SUBSET Nat
      OBVIOUS
    <3> HIDE DEF Other
    <3> QED  BY <3>1, Least
  <2>2. m \in 0 .. N /\ member[m] # f[m]
    BY <2>1
  <2>3. CASE m = 0
    BY <1>1, <1>3, <1>4, <2>2, <2>3
  <2>4. CASE m # 0
    <3>1. m - 1 \in 0 .. N /\ m - 1 \notin Other
      BY <1>1, <2>1, <2>2, <2>4
    <3>2. member[m - 1] = f[m - 1]
      BY <3>1
    <3>3. member[m] = Pass(rs, member[m - 1]) /\ f[m] = Pass(rs, f[m - 1])
      BY <1>3, <1>4, <2>2, <2>4
    <3> QED  BY <2>2, <3>2, <3>3
  <2> QED  BY <2>3, <2>4
<1>7. f[N] \in SUBSET rs
  BY <1>1, <1>2 DEF PassesOf
<1> QED  BY <1>1, <1>2, <1>5, <1>6, <1>7

\* The rows captured are closed under ChildOf.
LEMMA CapturedClosed ==
  ASSUME NEW rs, IsFiniteSet(rs), NEW root \in rs, \A r, m \in rs : r.key.pid = m.key.pid => r = m
  PROVE  /\ root \in Captured(rs, root) /\ Captured(rs, root) \in SUBSET rs
         /\ \A q \in rs, m \in Captured(rs, root) :
              q.key.pid # Self /\ ChildOf(q, m) => q \in Captured(rs, root)
<1> DEFINE N == Cardinality(rs)
<1>1. PICK f : PassesOf(rs, root, N, f) /\ Captured(rs, root) = f[N]
  BY CapturedIsLast
<1>2. N \in Nat
  BY FS_CardinalityType
<1>a. \A m \in SUBSET rs : IsFiniteSet(m) /\ Cardinality(m) \in Nat /\ Cardinality(m) <= N
  BY FS_Subset, FS_CardinalityType
<1> HIDE DEF N
<1>3. /\ \A n \in 0 .. N : f[n] \in SUBSET rs
      /\ f[0] = {root} /\ \A n \in 1 .. N : f[n] = Pass(rs, f[n - 1])
  BY <1>1 DEF PassesOf
<1> DEFINE Short == {n \in 0 .. N : f[n] # Pass(rs, f[n]) /\ Cardinality(f[n]) <= n}
           Lacks == {n \in 0 .. N : root \notin f[n]}
<1>4. Short = {}
  <2> SUFFICES ASSUME Short # {}  PROVE FALSE
    OBVIOUS
  <2>1. PICK m \in Short : \A n \in Short : m <= n
    <3>1. Short \in SUBSET Nat
      OBVIOUS
    <3> HIDE DEF Short
    <3> QED  BY <3>1, Least
  <2>2. m \in 0 .. N /\ f[m] # Pass(rs, f[m]) /\ Cardinality(f[m]) <= m
    BY <2>1
  <2>3. CASE m = 0
    <3>1. Cardinality(f[0]) = 1
      BY <1>3, FS_Singleton
    <3> QED  BY <2>2, <2>3, <3>1
  <2>4. CASE m # 0
    <3>1. m - 1 \in 0 .. N /\ m \in 1 .. N /\ ~ (m <= m - 1)
      BY <1>2, <2>2, <2>4
    <3>2. m - 1 \notin Short
      BY <2>1, <3>1
    <3>3. f[m] = Pass(rs, f[m - 1])
      BY <1>3, <3>1
    <3>4. f[m - 1] # Pass(rs, f[m - 1])
      BY <2>2, <3>3
    <3>5. ~ (Cardinality(f[m - 1]) <= m - 1)
      BY <3>1, <3>2, <3>4
    <3>6. f[m - 1] \in SUBSET f[m] /\ f[m] \in SUBSET rs /\ f[m - 1] \in SUBSET rs
      BY <1>3, <3>1, <3>3, PassFacts
    <3>7. PICK x \in f[m] : x \notin f[m - 1]
      BY <3>3, <3>4, <3>6
    <3>8. Cardinality(f[m - 1] \cup {x}) = Cardinality(f[m - 1]) + 1
      BY <1>a, <3>6, <3>7, FS_AddElement
    <3>9. Cardinality(f[m - 1] \cup {x}) <= Cardinality(f[m])
      <4>1. f[m - 1] \cup {x} \in SUBSET f[m]
        BY <3>6, <3>7
      <4> QED  BY <1>a, <3>6, <4>1, FS_Subset
    <3>10. Cardinality(f[m - 1]) \in Nat /\ Cardinality(f[m]) \in Nat
      BY <1>a, <3>6
    <3> QED  BY <1>2, <2>2, <3>1, <3>5, <3>8, <3>9, <3>10
  <2> QED  BY <2>3, <2>4
<1>5. Lacks = {}
  <2> SUFFICES ASSUME Lacks # {}  PROVE FALSE
    OBVIOUS
  <2>1. PICK m \in Lacks : \A n \in Lacks : m <= n
    <3>1. Lacks \in SUBSET Nat
      OBVIOUS
    <3> HIDE DEF Lacks
    <3> QED  BY <3>1, Least
  <2>2. m \in 0 .. N /\ root \notin f[m]
    BY <2>1
  <2>3. m # 0
    BY <1>3, <2>2
  <2>4. m - 1 \in 0 .. N /\ m \in 1 .. N /\ ~ (m <= m - 1)
    BY <1>2, <2>2, <2>3
  <2>5. root \in f[m - 1]
    BY <2>1, <2>4
  <2>6. f[m] = Pass(rs, f[m - 1])
    BY <1>3, <2>4
  <2> QED  BY <2>2, <2>5, <2>6 DEF Pass
<1> DEFINE last == f[N]
<1>6. last \in SUBSET rs /\ root \in last
  BY <1>2, <1>3, <1>5
<1>7. last = Pass(rs, last)
  <2>1. N \in 0 .. N /\ N \notin Short
    BY <1>2, <1>4
  <2> HIDE DEF Short
  <2>2. last \in SUBSET rs /\ Cardinality(last) <= N
    BY <1>a, <1>6
  <2> QED  BY <2>1, <2>2 DEF Short
<1> HIDE DEF last, Short, Lacks
<1>8. ASSUME NEW q \in rs, NEW m \in last, q.key.pid # Self, ChildOf(q, m)
      PROVE  q \in last
  <2> SUFFICES ASSUME q \notin last  PROVE q \in last
    OBVIOUS
  <2>1. \A x \in last : x.key.pid # q.key.pid
    BY <1>6
  <2>2. q \in Pass(rs, last)
    BY <1>8, <2>1 DEF Pass
  <2> QED  BY <1>7, <2>2
<1>9. Captured(rs, root) = last
  BY <1>1 DEF last
<1> QED  BY <1>6, <1>8, <1>9

\* And they are in every such set.
LEMMA CapturedLeast ==
  ASSUME NEW rs, IsFiniteSet(rs), NEW root \in rs, NEW M, root \in M,
         \A q \in rs, m \in M : q.key.pid # Self /\ ChildOf(q, m) => q \in M
  PROVE  Captured(rs, root) \subseteq M
<1> DEFINE N == Cardinality(rs)
<1>1. PICK f : PassesOf(rs, root, N, f) /\ Captured(rs, root) = f[N]
  BY CapturedIsLast
<1>2. N \in Nat
  BY FS_CardinalityType
<1> HIDE DEF N
<1>3. f[0] = {root} /\ \A n \in 1 .. N : f[n] = Pass(rs, f[n - 1])
  BY <1>1 DEF PassesOf
<1> DEFINE Outside == {n \in 0 .. N : ~ (f[n] \subseteq M)}
<1>4. Outside = {}
  <2> SUFFICES ASSUME Outside # {}  PROVE FALSE
    OBVIOUS
  <2>1. PICK m \in Outside : \A n \in Outside : m <= n
    <3>1. Outside \in SUBSET Nat
      OBVIOUS
    <3> HIDE DEF Outside
    <3> QED  BY <3>1, Least
  <2>2. m \in 0 .. N /\ ~ (f[m] \subseteq M)
    BY <2>1
  <2>3. m # 0
    BY <1>3, <2>2
  <2>4. m - 1 \in 0 .. N /\ m \in 1 .. N /\ ~ (m <= m - 1)
    BY <1>2, <2>2, <2>3
  <2>5. f[m - 1] \subseteq M
    BY <2>1, <2>4
  <2>6. f[m] = Pass(rs, f[m - 1])
    BY <1>3, <2>4
  <2>7. ASSUME NEW q \in Pass(rs, f[m - 1])
        PROVE  q \in M
    <3>1. CASE q \in f[m - 1]
      BY <2>5, <3>1
    <3>2. CASE q \notin f[m - 1]
      <4>1. q \in rs /\ q.key.pid # Self /\ \E x \in f[m - 1] : ChildOf(q, x)
        BY <3>2, PassAdds
      <4> QED  BY <2>5, <4>1
    <3> QED  BY <3>1, <3>2
  <2> QED  BY <2>2, <2>6, <2>7
<1>5. N \in 0 .. N /\ N \notin Outside
  BY <1>2, <1>4
<1> QED  BY <1>1, <1>5

-----------------------------------------------------------------------------
(* Descent *)

\* k is the key of the process that started p, in whose line p is: no ancestor
\* is younger, and as long as its PID was not used again, k still has it.
BornOf(p, k) ==
    /\ k.pid = os[p].ppid /\ k.created < os[p].created
    /\ \A j \in os[p].line \ {KeyOf(p)} : j.created <= k.created
    /\ os[k.pid].created <= os[p].created =>
         k = KeyOf(k.pid) /\ os[p].line = os[k.pid].line \cup {KeyOf(p)}

Lines ==
    /\ \A p \in Pids : os[p].alive =>
         KeyOf(p) \in os[p].line /\ \A k \in os[p].line : k.created <= os[p].created
    /\ \A p \in Kernel : os[p].alive /\ os[p].ppid = p /\ os[p].line = {KeyOf(p)}
    /\ \A p \in Pids \ (Kernel \cup {Self}) :
         os[p].alive => \E k \in os[p].line : BornOf(p, k)

\* The same of the rows of one scan: k is the key of the process that started
\* that of r.
Mother(rs, r, k) ==
    /\ k.pid = r.ppid /\ k.created < r.key.created
    /\ \A j \in r.line \ {r.key} : j.created <= k.created
    /\ \A m \in rs : m.key.pid = k.pid /\ m.key.created <= r.key.created =>
         k = m.key /\ r.line = m.line \cup {r.key}

RowLines(rs) ==
    /\ IsFiniteSet(rs) /\ \A r, m \in rs : r.key.pid = m.key.pid => r = m
    /\ \A r \in rs : r.key \in r.line /\ \A k \in r.line : k.created <= r.key.created
    /\ \A r \in rs : r.key.pid \in Kernel => r.ppid = r.key.pid /\ r.line = {r.key}
    /\ \A r \in rs : r.key.pid \notin Kernel \cup {Self} => \E k \in r.line : Mother(rs, r, k)

\* No tree waits while the handlers are idle.
Descent == Lines /\ RowLines(rows) /\ (pc = "idle" => tree = FALSE)

\* What a process keeps as long as it runs.
Same(o, n) ==
    /\ n.created = o.created /\ n.ppid = o.ppid /\ n.line = o.line
    /\ n.alive => o.alive

LEMMA FieldSame ==
  ASSUME NEW o \in Processes
  PROVE  /\ Same(o, o) /\ Same(o, [o EXCEPT !.open = TRUE])
         /\ Same(o, [o EXCEPT !.alive = FALSE, !.suspends = 0])
         /\ \A k \in Kinds : Same(o, Effect(o, k))
<1>1. \A v : Same(o, [o EXCEPT !.suspends = v])
  BY DEF Processes, Same
<1>2. Same(o, o) /\ Same(o, [o EXCEPT !.open = TRUE])
  BY DEF Processes, Same
<1>3. Same(o, [o EXCEPT !.alive = FALSE, !.suspends = 0])
  BY DEF Processes, Same
<1>4. ASSUME NEW k \in Kinds
      PROVE  Same(o, Effect(o, k))
  <2>1. CASE k = "Terminate"
    BY <1>3, <2>1 DEF Effect
  <2>2. CASE k = "Suspend"
    BY <1>1, <2>2 DEF Effect
  <2>3. CASE k = "Resume"
    <3>1. Effect(o, k) = [o EXCEPT !.suspends = IF o.suspends = 0 THEN 0 ELSE o.suspends - 1]
      BY <2>3 DEF Effect
    <3> QED  BY <1>1, <3>1
  <2> QED  BY <2>1, <2>2, <2>3 DEF Kinds
<1> QED  BY <1>2, <1>3, <1>4

LEMMA LinesStay ==
  ASSUME TypeOK, Lines, \A p \in Pids : Same(os[p], os'[p]), \A p \in Kernel : os'[p].alive
  PROVE  Lines'
<1>1. \A p \in Pids : KeyOf(p)' = KeyOf(p)
  BY DEF Same, KeyOf
<1>2. /\ \A p \in Pids : /\ os'[p].created = os[p].created /\ os'[p].ppid = os[p].ppid
                         /\ os'[p].line = os[p].line /\ (os'[p].alive => os[p].alive)
      /\ \A p \in Pids : \A k \in os[p].line : k.pid \in Pids
  BY DEF Same, TypeOK, Keys
<1>3. ASSUME NEW p \in Pids, NEW k \in os[p].line, BornOf(p, k)
      PROVE  BornOf(p, k)'
  <2>1. k.pid \in Pids
    BY <1>2
  <2> QED  BY <1>1, <1>2, <1>3, <2>1 DEF BornOf
<1>4. \A p \in Pids \ (Kernel \cup {Self}) : os'[p].alive => \E k \in os'[p].line : BornOf(p, k)'
  BY <1>2, <1>3 DEF Lines
<1>5. \A p \in Kernel : os'[p].alive /\ os'[p].ppid = p /\ os'[p].line = {KeyOf(p)'}
  BY <1>1, <1>2, PidAssumption DEF Lines
<1>6. \A p \in Pids : os'[p].alive =>
        KeyOf(p)' \in os'[p].line /\ \A k \in os'[p].line : k.created <= os'[p].created
  BY <1>1, <1>2 DEF Lines
<1> QED  BY <1>4, <1>5, <1>6 DEF Lines

LEMMA SpawnLines ==
  ASSUME TypeOK, Dated, Lines, NEW p \in Pids, NEW parent \in Pids, NEW n \in Natures,
         Spawn(p, parent, n)
  PROVE  Lines'
<1> DEFINE new == [alive |-> TRUE, created |-> clock + 1, ppid |-> parent,
                   critical |-> n.critical, open |-> n.open, suspends |-> 0,
                   line |-> os[parent].line \cup {[pid |-> p, created |-> clock + 1]}]
           key == [pid |-> p, created |-> clock + 1]
<1>1. /\ clock' = clock + 1 /\ os' = [os EXCEPT ![p] = new]
      /\ ~ os[p].alive /\ os[parent].alive
  BY DEF Spawn
<1>2. /\ clock \in Nat
      /\ \A q \in Pids : os[q].created \in Nat /\ os[q].created <= clock
      /\ \A q \in Pids : \A k \in os[q].line : k.pid \in Pids /\ k.created \in Nat
  BY DEF TypeOK, Dated, Keys
<1>3. /\ new.created = clock + 1 /\ new.ppid = parent
      /\ new.line = os[parent].line \cup {key}
  OBVIOUS
<1>4. os'[p] = new /\ \A q \in Pids \ {p} : os'[q] = os[q]
  BY <1>1 DEF TypeOK
<1> HIDE DEF new
<1>5. KeyOf(p)' = key /\ \A q \in Pids \ {p} : KeyOf(q)' = KeyOf(q)
  BY <1>3, <1>4 DEF KeyOf
<1>6. /\ key \notin os[parent].line /\ parent # p
      /\ KeyOf(parent) \in os[parent].line /\ KeyOf(parent).pid = parent
      /\ KeyOf(parent).created = os[parent].created
      /\ \A k \in os[parent].line : k.created <= os[parent].created
  <2>1. \A k \in os[parent].line : k.created <= os[parent].created
    BY <1>1 DEF Lines
  <2>2. key.created = clock + 1
    OBVIOUS
  <2> HIDE DEF key
  <2>3. key \notin os[parent].line
    BY <1>2, <2>1, <2>2
  <2> QED  BY <1>1, <2>1, <2>3 DEF Lines, KeyOf
<1>7. ASSUME NEW CONSTANT k, k = KeyOf(parent)
      PROVE  BornOf(p, k)'
  <2>0. KeyOf(parent)' = KeyOf(parent) /\ os'[parent] = os[parent]
    BY <1>4, <1>5, <1>6
  <2>1. os[parent].created < clock + 1
    BY <1>2
  <2>2. \A j \in (os[parent].line \cup {key}) \ {key} : j.created <= os[parent].created
    BY <1>6
  <2> HIDE DEF key
  <2>3. k.pid = parent /\ k.created = os[parent].created
    BY <1>6, <1>7
  <2>4. k.pid = os'[p].ppid /\ k.created < os'[p].created
    BY <1>3, <1>4, <2>1, <2>3
  <2>5. \A j \in os'[p].line \ {KeyOf(p)'} : j.created <= k.created
    BY <1>3, <1>4, <1>5, <2>2, <2>3
  <2>6. k = KeyOf(parent)' /\ os'[p].line = os'[parent].line \cup {KeyOf(p)'}
    BY <1>3, <1>4, <1>5, <1>7, <2>0
  <2> QED  BY <2>3, <2>4, <2>5, <2>6 DEF BornOf
<1>8. ASSUME NEW q \in Pids \ {p}, NEW k \in os[q].line, BornOf(q, k), os[q].alive
      PROVE  BornOf(q, k)'
  <2>1. os'[q] = os[q] /\ KeyOf(q)' = KeyOf(q)
    BY <1>4, <1>5
  <2>2. CASE k.pid = p
    <3>1. ~ (os'[k.pid].created <= os'[q].created)
      BY <1>2, <1>3, <1>4, <2>1, <2>2
    <3> QED  BY <1>8, <2>1, <3>1 DEF BornOf
  <2>3. CASE k.pid # p
    <3>1. os'[k.pid] = os[k.pid] /\ KeyOf(k.pid)' = KeyOf(k.pid)
      BY <1>2, <1>4, <1>5, <2>3
    <3> QED  BY <1>8, <2>1, <3>1 DEF BornOf
  <2> QED  BY <2>2, <2>3
<1>9. ASSUME NEW q \in Pids \ (Kernel \cup {Self}), os'[q].alive
      PROVE  \E k \in os'[q].line : BornOf(q, k)'
  <2>1. CASE q = p
    <3>1. PICK k \in os'[p].line : k = KeyOf(parent)
      BY <1>3, <1>4, <1>6
    <3>2. BornOf(p, k)'
      BY <1>7, <3>1
    <3> QED  BY <2>1, <3>1, <3>2
  <2>2. CASE q # p
    <3>1. os'[q] = os[q]
      BY <1>4, <2>2
    <3> QED  BY <1>8, <1>9, <2>2, <3>1 DEF Lines
  <2> QED  BY <2>1, <2>2
<1>10. \A q \in Kernel : q # p
  BY <1>1 DEF Lines
<1>11. \A q \in Kernel : os'[q].alive /\ os'[q].ppid = q /\ os'[q].line = {KeyOf(q)'}
  BY <1>4, <1>5, <1>10, PidAssumption DEF Lines
<1>12. ASSUME NEW q \in Pids, os'[q].alive
       PROVE  KeyOf(q)' \in os'[q].line /\ \A k \in os'[q].line : k.created <= os'[q].created
  <2>1. CASE q = p
    <3>1. \A k \in os[parent].line : k.created <= clock + 1
      BY <1>2, <1>6
    <3>2. KeyOf(p)' \in os'[p].line /\ os'[p].created = clock + 1 /\ key.created = clock + 1
      BY <1>3, <1>4, <1>5
    <3>3. os'[p].line = os[parent].line \cup {key}
      BY <1>3, <1>4
    <3> HIDE DEF key
    <3>4. \A k \in os'[p].line : k.created <= os'[p].created
      BY <1>2, <3>1, <3>2, <3>3
    <3> QED  BY <2>1, <3>2, <3>4
  <2>2. CASE q # p
    BY <1>4, <1>5, <1>12, <2>2 DEF Lines
  <2> QED  BY <2>1, <2>2
<1> QED  BY <1>9, <1>11, <1>12 DEF Lines

\* The rows of a scan are of processes that ran at one moment.
LEMMA ScannedLines ==
  ASSUME TypeOK, Lines
  PROVE  RowLines(Scanned)
<1> DEFINE row(p) == [key |-> KeyOf(p), ppid |-> os[p].ppid, guarded |-> Guarded(p),
                      paused |-> KeyOf(p) \in paused, line |-> os[p].line]
           Live   == {q \in Pids : os[q].alive}
<1>1. Scanned = {row(p) : p \in Live}
  BY DEF Scanned
<1>2. \A p : row(p).key = KeyOf(p) /\ row(p).ppid = os[p].ppid /\ row(p).line = os[p].line
  OBVIOUS
<1>3. \A p \in Live : p \in Pids /\ os[p].alive
  OBVIOUS
<1>4. \A p : KeyOf(p).pid = p /\ KeyOf(p).created = os[p].created
  BY DEF KeyOf
<1>5. IsFiniteSet(Scanned)
  <2>1. Live \in SUBSET Pids
    OBVIOUS
  <2> HIDE DEF Live, row
  <2>2. IsFiniteSet(Live)
    BY <2>1, PidAssumption, FS_Subset
  <2> DEFINE f == [p \in Live |-> row(p)]
  <2>3. f \in Surjection(Live, Scanned)
    BY <1>1 DEF Surjection
  <2> QED  BY <2>2, <2>3, FS_Surjection
<1> HIDE DEF row, Live
<1>6. \A r, m \in Scanned : r.key.pid = m.key.pid => r = m
  BY <1>1, <1>2, <1>4
<1>7. \A r \in Scanned : r.key \in r.line /\ \A k \in r.line : k.created <= r.key.created
  BY <1>1, <1>2, <1>3, <1>4 DEF Lines
<1>8. \A r \in Scanned : r.key.pid \in Kernel => r.ppid = r.key.pid /\ r.line = {r.key}
  BY <1>1, <1>2, <1>3, <1>4 DEF Lines
<1>9. ASSUME NEW r \in Scanned, r.key.pid \notin Kernel \cup {Self}
      PROVE  \E k \in r.line : Mother(Scanned, r, k)
  <2>1. PICK p \in Live : r = row(p)
    BY <1>1
  <2>2. r.key = KeyOf(p) /\ r.ppid = os[p].ppid /\ r.line = os[p].line /\ r.key.created = os[p].created
    BY <1>2, <1>4, <2>1
  <2>3. p \in Pids \ (Kernel \cup {Self}) /\ os[p].alive
    BY <1>3, <1>4, <1>9, <2>2
  <2>4. PICK k \in os[p].line : BornOf(p, k)
    BY <2>3 DEF Lines
  <2>5. ASSUME NEW m \in Scanned, m.key.pid = k.pid, m.key.created <= r.key.created
        PROVE  k = m.key /\ r.line = m.line \cup {r.key}
    <3>1. PICK q \in Live : m = row(q)
      BY <1>1
    <3>2. m.key = KeyOf(q) /\ m.line = os[q].line /\ q = k.pid /\ m.key.created = os[q].created
      BY <1>2, <1>4, <2>5, <3>1
    <3> QED  BY <2>2, <2>4, <2>5, <3>2 DEF BornOf
  <2>6. /\ k.pid = r.ppid /\ k.created < r.key.created
        /\ \A j \in r.line \ {r.key} : j.created <= k.created
    BY <2>2, <2>4 DEF BornOf
  <2>7. Mother(Scanned, r, k)
    BY <2>5, <2>6 DEF Mother
  <2> QED  BY <2>2, <2>7
<1> QED  BY <1>5, <1>6, <1>7, <1>8, <1>9 DEF RowLines

LEMMA DescentInit ==
  ASSUME Init
  PROVE  Descent
<1>1. ASSUME NEW p \in Pids, os[p].alive
      PROVE  /\ p \in Kernel \cup {Self} /\ os[p] = Resident(p)
  BY <1>1 DEF Init, Rest
<1>2. ASSUME NEW p \in Pids
      PROVE  /\ Resident(p).alive /\ Resident(p).created = 0
             /\ Resident(p).ppid = IF p = Self THEN Launcher ELSE p
             /\ Resident(p).line = {[pid |-> q, created |-> 0] :
                                      q \in IF p = Self THEN {Launcher, p} ELSE {p}}
  BY DEF Resident, Rest
<1>3. \A p \in Kernel : os[p] = Resident(p) /\ p # Self /\ p \in Pids
  BY PidAssumption DEF Init
<1>4. \A p \in Kernel : /\ os[p].alive /\ os[p].ppid = p
                        /\ os[p].line = {[pid |-> p, created |-> 0]} /\ os[p].created = 0
  BY <1>2, <1>3
<1>5. \A p \in Kernel : os[p].alive /\ os[p].ppid = p /\ os[p].line = {KeyOf(p)}
  BY <1>4 DEF KeyOf
<1>6. ASSUME NEW p \in Pids, os[p].alive
      PROVE  KeyOf(p) \in os[p].line /\ \A k \in os[p].line : k.created <= os[p].created
  <2>1. os[p].created = 0
    BY <1>1, <1>2, <1>6
  <2>2. os[p].line = {[pid |-> q, created |-> 0] : q \in IF p = Self THEN {Launcher, p} ELSE {p}}
    BY <1>1, <1>2, <1>6
  <2>3. \A k \in os[p].line : k.created = 0
    BY <2>2
  <2>4. [pid |-> p, created |-> 0] \in os[p].line
    BY <2>2
  <2> QED  BY <2>1, <2>3, <2>4 DEF KeyOf
<1>7. Lines
  BY <1>1, <1>5, <1>6 DEF Lines
<1>8. RowLines(rows) /\ tree = FALSE
  BY FS_EmptySet DEF Init, RowLines
<1> QED  BY <1>7, <1>8 DEF Descent

LEMMA LinesNext ==
  ASSUME Inv, Lines, [Next]_vars
  PROVE  Lines'
<1>1. TypeOK /\ Dated /\ \A p \in Pids : os[p] \in Processes
  BY DEF Inv, TypeOK, Processes
<1>2. ASSUME os' = os
      PROVE  Lines'
  BY <1>2 DEF Lines, BornOf, KeyOf
<1>3. ASSUME NEW p \in Pids, NEW n, Same(os[p], n), p \in Kernel => n.alive,
             os' = [os EXCEPT ![p] = n]
      PROVE  Lines'
  <2>1. os'[p] = n /\ \A q \in Pids \ {p} : os'[q] = os[q]
    BY <1>1, <1>3 DEF TypeOK
  <2>2. \A q \in Pids : Same(os[q], os'[q])
    BY <1>1, <1>3, <2>1, FieldSame
  <2>3. \A q \in Kernel : os'[q].alive
    BY <1>3, <2>1, PidAssumption DEF Lines
  <2> QED  BY <1>1, <2>2, <2>3, LinesStay
<1>4. ASSUME NEW p \in Pids, NEW parent \in Pids, NEW n \in Natures, Spawn(p, parent, n)
      PROVE  Lines'
  BY <1>1, <1>4, SpawnLines
<1>5. ASSUME NEW p \in Pids, ExitByItself(p)
      PROVE  Lines'
  <2>1. p \notin Kernel /\ os' = [os EXCEPT ![p] = [os[p] EXCEPT !.alive = FALSE, !.suspends = 0]]
    BY <1>5 DEF ExitByItself
  <2>2. Same(os[p], [os[p] EXCEPT !.alive = FALSE, !.suspends = 0])
    BY <1>1, FieldSame
  <2> QED  BY <1>3, <2>1, <2>2
<1>6. ASSUME NEW p \in Pids, Grant(p)
      PROVE  Lines'
  <2>1. p \notin Kernel /\ os' = [os EXCEPT ![p] = [os[p] EXCEPT !.open = TRUE]]
    BY <1>6 DEF Grant
  <2>2. Same(os[p], [os[p] EXCEPT !.open = TRUE])
    BY <1>1, FieldSame
  <2> QED  BY <1>3, <2>1, <2>2
<1>7. CASE Strike
  <2>1. PICK r \in target : os' = [os EXCEPT ![r.key.pid] = Effect(os[r.key.pid], kind)]
    BY <1>7 DEF Strike
  <2>2. r.key.pid \in Pids /\ kind \in Kinds /\ r.key.pid \notin Kernel
    BY <1>7 DEF Inv, TypeOK, Rows, Keys, Pinned, RefusedByPid, Strike
  <2>3. Same(os[r.key.pid], Effect(os[r.key.pid], kind))
    BY <1>1, <2>2, FieldSame
  <2> QED  BY <1>3, <2>1, <2>2, <2>3
<1>8. CASE Refresh \/ User \/ UNCHANGED vars
  <2>1. os' = os
    BY <1>8 DEF Refresh, User, Act, Toggle, EndTree, Choose, Yes, No, vars, world
  <2> QED  BY <1>2, <2>1
<1>9. CASE Perform
  <2>1. os' = os \/ Strike
    BY <1>9 DEF Perform, Open, OpenFails, Verify, VerifyFails, StrikeFails, Finish, world
  <2> QED  BY <1>2, <1>7, <2>1
<1> QED  BY <1>4, <1>5, <1>6, <1>8, <1>9 DEF Next, World

LEMMA DescentNext ==
  ASSUME Inv, Descent, [Next]_vars
  PROVE  Descent'
<1>1. Lines'
  BY LinesNext DEF Descent
<1>2. rows' = rows \/ rows' = Scanned
  BY ProceedOutcome DEF Next, World, Spawn, ExitByItself, Grant, Refresh, User, Act, Toggle, EndTree,
     Choose, Yes, No, Perform, Open, OpenFails, Verify, VerifyFails, Strike, StrikeFails,
     Finish, ScanInto, vars, world, handler
<1>3. RowLines(rows')
  BY <1>2, ScannedLines DEF Inv, Descent
<1>4. pc' = "idle" => tree' = FALSE
  BY ProceedOutcome DEF Descent, Next, World, Spawn, ExitByItself, Grant, Refresh, User, Act, Toggle, EndTree,
     Choose, Yes, No, Perform, Open, OpenFails, Verify, VerifyFails, Strike, StrikeFails,
     Finish, Return, vars, world, handler
<1> QED  BY <1>1, <1>3, <1>4 DEF Descent

Within(r, root) == {k \in r.line : k.created >= root.key.created}

LEMMA DescendsMeans ==
  ASSUME NEW r, NEW root
  PROVE  DescendsFrom(r, root) <=>
           /\ root.key \in r.line /\ Within(r, root) \subseteq KeysOf(rows)
           /\ \A k \in Within(r, root) : k.pid # Self
BY DEF DescendsFrom, Within

\* What the capture adds descends from the root.
LEMMA CapturedDescends ==
  ASSUME TypeOK, RowLines(rows), NEW root \in rows, root.key.pid # Self
  PROVE  \A r \in Captured(rows, root) : DescendsFrom(r, root)
<1> DEFINE M == {r \in rows : DescendsFrom(r, root)}
<1>1. \A r \in rows : /\ r.key \in r.line /\ r.key \in KeysOf(rows) /\ r.key.created \in Nat
                      /\ \A k \in r.line : k.created \in Nat /\ k.created <= r.key.created
  BY DEF RowLines, TypeOK, Rows, Keys, KeysOf
<1>2. root \in M
  <2>1. \A k \in Within(root, root) : k = root.key
    <3>1. CASE root.key.pid \in Kernel
      BY <3>1 DEF RowLines, Within
    <3>2. CASE root.key.pid \notin Kernel
      <4>1. PICK k \in root.line : Mother(rows, root, k)
        BY <3>2 DEF RowLines
      <4>2. /\ k.created < root.key.created
            /\ \A j \in root.line \ {root.key} : j.created <= k.created
        BY <4>1 DEF Mother
      <4> QED  BY <1>1, <4>2 DEF Within
    <3> QED  BY <3>1, <3>2
  <2> QED  BY <1>1, <2>1, DescendsMeans
<1>3. ASSUME NEW q \in rows, NEW m \in M, q.key.pid # Self, ChildOf(q, m)
      PROVE  q \in M
  <2>1. m \in rows /\ q.ppid = m.key.pid /\ q.key.created >= m.key.created
    BY <1>3 DEF ChildOf
  <2>2. CASE q.key.pid \in Kernel
    <3>1. q = m
      BY <2>1, <2>2 DEF RowLines
    <3> QED  BY <3>1
  <2>3. CASE q.key.pid \notin Kernel
    <3>1. PICK k \in q.line : Mother(rows, q, k)
      BY <1>3, <2>3 DEF RowLines
    <3>2. q.line = m.line \cup {q.key}
      BY <1>1, <2>1, <3>1 DEF Mother
    <3>3. DescendsFrom(m, root)
      OBVIOUS
    <3>4. /\ root.key \in m.line /\ Within(m, root) \subseteq KeysOf(rows)
          /\ \A j \in Within(m, root) : j.pid # Self
      BY <3>3, DescendsMeans
    <3>5. Within(q, root) \subseteq Within(m, root) \cup {q.key}
      BY <3>2 DEF Within
    <3>6. DescendsFrom(q, root)
      BY <1>1, <1>3, <3>2, <3>4, <3>5, DescendsMeans
    <3> QED  BY <3>6
  <2> QED  BY <2>2, <2>3
<1>4. M \subseteq rows /\ \A r \in M : DescendsFrom(r, root)
  OBVIOUS
<1> HIDE DEF M
<1>5. IsFiniteSet(rows)
  BY DEF RowLines
<1>6. Captured(rows, root) \subseteq M
  BY <1>2, <1>3, <1>5, CapturedLeast
<1> QED  BY <1>4, <1>6

\* And what descends from it is captured, the oldest first.
LEMMA DescendsCaptured ==
  ASSUME TypeOK, RowLines(rows), NEW root \in rows
  PROVE  \A r \in rows : DescendsFrom(r, root) => r \in Captured(rows, root)
<1> DEFINE C    == Captured(rows, root)
           Left == {r \in rows : DescendsFrom(r, root) /\ r \notin C}
           Ages == {r.key.created : r \in Left}
<1> SUFFICES ASSUME Left # {}  PROVE FALSE
  OBVIOUS
<1>1. \A r \in rows : /\ r.key \in r.line /\ r.key.created \in Nat
                      /\ \A k \in r.line : k.created \in Nat /\ k.created <= r.key.created
  BY DEF RowLines, TypeOK, Rows, Keys
<1>2. /\ root \in C
      /\ \A q \in rows, m \in C : q.key.pid # Self /\ ChildOf(q, m) => q \in C
  BY CapturedClosed DEF RowLines
<1> HIDE DEF C
<1>3. PICK r \in Left : \A q \in Left : r.key.created <= q.key.created
  <2>1. Ages \in SUBSET Nat /\ Ages # {}
    BY <1>1
  <2> HIDE DEF Ages
  <2>2. PICK m \in Ages : \A n \in Ages : m <= n
    BY <2>1, Least
  <2> QED  BY <2>2 DEF Ages
<1>4. /\ r \in rows /\ r \notin C /\ root.key \in r.line
      /\ Within(r, root) \subseteq KeysOf(rows) /\ \A k \in Within(r, root) : k.pid # Self
  BY <1>3, DescendsMeans
<1>5. r.key # root.key
  <2>1. r.key = root.key => r = root
    BY <1>4 DEF RowLines
  <2> QED  BY <1>2, <1>4, <2>1
<1>6. r.key \in Within(r, root)
  BY <1>1, <1>4 DEF Within
<1>7. r.key.pid \notin Kernel \cup {Self}
  BY <1>4, <1>5, <1>6 DEF RowLines
<1>8. PICK k \in r.line : Mother(rows, r, k)
  BY <1>4, <1>7 DEF RowLines
<1>9. /\ k.pid = r.ppid /\ k.created < r.key.created
      /\ \A j \in r.line \ {r.key} : j.created <= k.created
  BY <1>8 DEF Mother
<1>10. k \in Within(r, root)
  BY <1>4, <1>5, <1>9 DEF Within
<1>11. PICK m \in rows : k = m.key
  BY <1>4, <1>10 DEF KeysOf
<1>12. r.line = m.line \cup {r.key}
  BY <1>1, <1>4, <1>8, <1>9, <1>11 DEF Mother
<1>13. DescendsFrom(m, root)
  <2>1. Within(m, root) \subseteq Within(r, root)
    BY <1>12 DEF Within
  <2>2. root.key \in m.line
    BY <1>4, <1>5, <1>12
  <2> QED  BY <1>4, <2>1, <2>2, DescendsMeans
<1>14. m \in C
  <2>1. ~ (r.key.created <= m.key.created)
    BY <1>1, <1>4, <1>9, <1>11
  <2> QED  BY <1>3, <1>11, <1>13, <2>1
<1>15. ChildOf(r, m)
  BY <1>1, <1>4, <1>9, <1>11 DEF ChildOf
<1> QED  BY <1>2, <1>4, <1>7, <1>14, <1>15

-----------------------------------------------------------------------------
(* The theorems *)

\* The inductive invariant, whatever starts and exits and however long a box
\* stays open.
THEOREM Invariance == Spec => []Inv
<1>1. Init => Inv
  BY InvInit
<1>2. Inv /\ [Next]_vars => Inv'
  BY InvNext
<1>3. QED
  BY <1>1, <1>2, PTL DEF Spec

\* Every variable of the handlers and of the operating system keeps its type.
THEOREM TypeCorrect == Spec => []TypeOK
<1>1. Inv => TypeOK
  BY DEF Inv
<1>2. QED
  BY <1>1, Invariance, PTL

\* perform_action only reaches a process the user confirmed, even if its PID
\* was used again while the box was open (SECURITY.md).
THEOREM OnlyTheChosen == Spec => StrikesTheChosen
<1>1. ASSUME Inv, [Next]_vars, NEW p \in Pids, Struck(p)
      PROVE  \E r \in chosen : r.key = KeyOf(p)
  <2>1. PICK r \in target : r.key.pid = p /\ Passes(r)
    BY <1>1, StruckIsPinned
  <2>2. r \in chosen /\ r.key \in Keys
    BY <1>1 DEF Inv, TypeOK, Rows
  <2>3. QED
    BY <2>1, <2>2 DEF Passes, SameProcess, KeyOf, Keys
<1>2. Inv /\ [Next]_vars => [\A p \in Pids : Struck(p) => \E r \in chosen : r.key = KeyOf(p)]_vars
  BY <1>1
<1>3. QED
  BY <1>2, Invariance, PTL DEF Spec, StrikesTheChosen

\* Neither ProcDrift, nor a pseudo-process, nor a process that Windows reports
\* as critical is struck, alone or as a member of a tree.
THEOREM NeverTheSystem == Spec => SparesTheSystem
<1>1. ASSUME Inv, [Next]_vars, NEW p \in Pids, Struck(p)
      PROVE  p \notin Kernel \cup {Self} /\ ~os[p].critical
  BY <1>1, StruckIsPinned DEF Passes, RefusedByPid
<1>2. Inv /\ [Next]_vars
        => [\A p \in Pids : Struck(p) => p \notin Kernel \cup {Self} /\ ~os[p].critical]_vars
  BY <1>1
<1>3. QED
  BY <1>2, Invariance, PTL DEF Spec, SparesTheSystem

\* What the list shows as paused by ProcDrift is suspended, or gone.
THEOREM PausedTruly == Spec => []PausedIsSuspended
<1>1. Inv => PausedIsSuspended
  BY DEF Inv
<1>2. QED
  BY <1>1, Invariance, PTL

\* When a tree has been dealt with, what still runs of it is noted as a failure.
THEOREM TreeAccounted == Spec => []NothingSilentlyLeft
<1>1. Inv => NothingSilentlyLeft
  BY DEF Inv, Accounted, NothingSilentlyLeft, Running
<1>2. QED
  BY <1>1, Invariance, PTL

\* The captured tree is the selected process and what descends from it, by true
\* descent and not by the number of a parent that ended (captured_process_tree).
THEOREM TreeIsDescent == Spec => TreeExact
<1>1. Init => Inv /\ Descent
  BY InvInit, DescentInit
<1>2. Inv /\ Descent /\ [Next]_vars => (Inv /\ Descent)'
  BY InvNext, DescentNext
<1>3. ASSUME Inv, Descent, [Next]_vars, pc = "idle", tree'
      PROVE  \E root \in rows : chosen' = {r \in rows : DescendsFrom(r, root)}
  <2>1. PICK root \in rows : EndTree(root)
    BY <1>3, ProceedOutcome
       DEF Descent, Next, World, Spawn, ExitByItself, Grant, Refresh, User, Act, Toggle, Choose,
           Yes, No, Perform, Open, OpenFails, Verify, VerifyFails, Strike, StrikeFails, Finish,
           Return, vars, handler
  <2>2. root.key.pid # Self /\ chosen' = Captured(rows, root)
    BY <2>1 DEF EndTree, Choose
  <2>3. TypeOK /\ RowLines(rows)
    BY <1>3 DEF Inv, Descent
  <2>4. Captured(rows, root) = {r \in rows : DescendsFrom(r, root)}
    BY <2>2, <2>3, CapturedDescends, DescendsCaptured, CapturedRows
  <2>5. QED
    BY <2>2, <2>4
<1>4. Inv /\ Descent /\ [Next]_vars
        => [(pc = "idle" /\ tree') =>
              \E root \in rows : chosen' = {r \in rows : DescendsFrom(r, root)}]_vars
  BY <1>3
<1>5. QED
  BY <1>1, <1>2, <1>4, PTL DEF Spec, TreeExact
=============================================================================
