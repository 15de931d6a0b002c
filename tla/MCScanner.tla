----------------------------- MODULE MCScanner -----------------------------
(* Scanner on three PIDs: System and two that are used again; a program of *)
(* the snapshot and one that has its name and another path.                *)
EXTENDS Scanner, TLC

CONSTANTS system, a, b, name, known, other

MCPrograms  == {[name |-> name, path |-> known], [name |-> name, path |-> other]}
MCRecords   == [n \in {name} |-> {known}]
MCAllowed   == {}
MCAutostart == {known}

Symmetry == Permutations({a, b})
=============================================================================
