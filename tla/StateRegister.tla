--------------------------- MODULE StateRegister ---------------------------
(***************************************************************************)
(* What the state file promises, without temporary files, system calls or  *)
(* prompts: one register that is read once when the program starts and     *)
(* written in one indivisible step, by a choice of the user made on what   *)
(* the instance holds, which the instance holds from then on.  Stopping,   *)
(* by any cause, loses the holding and never touches the register.         *)
(***************************************************************************)

CONSTANTS Instances, Paths, LegacyPaths, Absent, Foreign, MetadataMayFail

Saved    == [records : SUBSET Paths, allowed : SUBSET Paths, onboarded : BOOLEAN]
Register == Saved \cup {Absent, Foreign}

VARIABLES
    disk,  \* the register
    view   \* view[i].up: i runs; .held.state: its baseline; .held.blocked: it
           \* could not read the register and will not write it

rvars == <<disk, view>>

Nothing == [records |-> {}, allowed |-> {}, onboarded |-> FALSE]
Closed  == [up |-> FALSE, held |-> [state |-> Nothing, blocked |-> FALSE]]
Open(s, b) == [up |-> TRUE, held |-> [state |-> s, blocked |-> b]]

\* What a run that starts may hold.
FreshStart  == {Open(Nothing, FALSE), Open([Nothing EXCEPT !.records = LegacyPaths], FALSE)}
Loadable(d) ==
    (IF d \in Saved THEN {Open(d, FALSE)} ELSE {})
      \cup (IF d = Absent THEN FreshStart ELSE {Open(Nothing, TRUE)})
      \cup (IF d # Absent /\ MetadataMayFail THEN FreshStart ELSE {})

\* The user's choices: skip or record a snapshot (the first-run choice is then
\* made, and the allowed paths stay), allow or unallow one path.
Choices(s) ==
    {[s EXCEPT !.onboarded = TRUE]}
      \cup {[s EXCEPT !.records = R, !.onboarded = TRUE] : R \in SUBSET Paths}
      \cup {[s EXCEPT !.allowed = @ \cup {p}] : p \in Paths}
      \cup {[s EXCEPT !.allowed = @ \ {p}] : p \in Paths}

RegisterInit ==
    /\ disk \in Register
    /\ view = [i \in Instances |-> Closed]

Load(i) ==
    /\ ~view[i].up
    /\ \E v \in Loadable(disk) : view' = [view EXCEPT ![i] = v]
    /\ UNCHANGED disk

Write(i) ==
    /\ view[i].up
    /\ ~view[i].held.blocked
    /\ disk' \in Choices(view[i].held.state)
    /\ view' = [view EXCEPT ![i] = Open(disk', FALSE)]

Stop(S) ==
    /\ view' = [i \in Instances |-> IF i \in S THEN Closed ELSE view[i]]
    /\ UNCHANGED disk

RegisterNext ==
    \/ \E i \in Instances : Load(i) \/ Write(i)
    \/ \E S \in SUBSET Instances : Stop(S)

RegisterSpec == RegisterInit /\ [][RegisterNext]_rvars
=============================================================================
