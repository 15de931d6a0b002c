---------------------------- MODULE MCLifetime ----------------------------
(* Lifetime with three processes: one in which a box opens over another, its *)
(* replacement, and a third that the user starts meanwhile.  In those two    *)
(* only the prompt opens.                                                    *)
EXTENDS Lifetime

CONSTANTS p1, p2, p3

Processes == {p1, p2, p3}

Depth == [p \in Processes |-> IF p = p1 THEN 2 ELSE 0]
=============================================================================
