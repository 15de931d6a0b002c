--------------------------- MODULE MCProcControl ---------------------------
(* ProcControl on four PIDs: System, ProcDrift and two that are used again. *)
EXTENDS ProcControl, TLC

CONSTANTS system, procdrift, a, b

MCNatures == {[critical |-> FALSE, open |-> TRUE], [critical |-> TRUE, open |-> FALSE]}

\* A process that cannot be opened at first.
MCClosed == {[critical |-> FALSE, open |-> FALSE]}

Symmetry == Permutations({a, b})
=============================================================================
