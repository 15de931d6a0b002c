---------------------------- MODULE MCInspection ----------------------------
(* What "Process details" runs beside the window: the worker (DetailWorker),  *)
(* with a cache smaller than the number of processes, and a verification of   *)
(* a signature (Signature).  They share nothing but the call of verify, so a  *)
(* behaviour is one of the worker, while no verification has begun, or one    *)
(* verification, while the worker has nothing to do.                          *)
EXTENDS DetailWorker, Signature

\* The verification that stands by in the behaviours of the worker.
StandsBy == VerificationInit /\ path = FALSE /\ disk = Missing

BothBegin == Init /\ VerificationInit

Inspection ==
    /\ BothBegin
    /\ [][\/ StandsBy /\ Next /\ UNCHANGED verification
          \/ Init /\ VerificationNext /\ UNCHANGED vars]_<<vars, verification>>
    /\ Fairness
=============================================================================
