----------------------------- MODULE MCSpinMutex -----------------------------
(***************************************************************************)
(* TLC instances of SpinMutex, with interchangeable threads.               *)
(***************************************************************************)
EXTENDS SpinMutex, TLC

Symmetry == Permutations(Threads)
=============================================================================
