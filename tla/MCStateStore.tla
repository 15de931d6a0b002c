--------------------------- MODULE MCStateStore ---------------------------
(* StateStore on a small instance: the paths of the rows and of the legacy *)
(* file, chosen so that a snapshot can be empty, imported and replaced.    *)
EXTENDS StateStore, TLC

CONSTANTS p1

MCRowSets == {{NoPath}, {p1, NoPath}}
MCLegacyPaths == {p1}

Symmetry == Permutations(Instances)
=============================================================================
