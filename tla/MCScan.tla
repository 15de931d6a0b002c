------------------------------- MODULE MCScan -------------------------------
(* What a scan makes of the processes: its rows (Scanner, as MCScanner gives  *)
(* it) and what it tells the activity tracker (Activity, with three processes *)
(* of one path and one of another).  The scan is all they share, and each     *)
(* models it as far as it concerns it: a behaviour is one of the tracker,     *)
(* while the scanner stands by, or one of the scanner, while nothing is       *)
(* tracked.                                                                   *)
EXTENDS Activity, MCScanner

CONSTANTS p1, p2, p3, q1, f, g

MCPathOf == [p \in Processes |-> IF p = q1 THEN g ELSE f]

\* System runs a program of the snapshot and has used its CPU time before.
Begins ==
    /\ Init /\ os[System].program.path = known /\ os[System].used = MaxUsed
    /\ TrackerInit

ScannerStandsBy == Init
TrackerStandsBy == TrackerInit /\ running = {}

Scans ==
    /\ Begins
    /\ [][\/ TrackerStandsBy /\ Next /\ UNCHANGED tracking
          \/ ScannerStandsBy /\ TrackerNext /\ UNCHANGED vars]_<<vars, tracking>>

EitherSymmetry == Symmetry \cup Permutations({p1, p2, p3})
=============================================================================
