---------------------------- MODULE MCSpineLock ----------------------------
(* TLC instances of SpineLock: processes are model values, interchangeable *)
(* in runs that check no liveness.                                         *)
EXTENDS SpineLock, TLC

Symmetry == Permutations(Proc)
=============================================================================
