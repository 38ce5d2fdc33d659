------------------------ MODULE MCTimedFlexibleMutex ------------------------
(***************************************************************************)
(* TLC instances of TimedFlexibleMutex, with interchangeable threads.      *)
(***************************************************************************)
EXTENDS TimedFlexibleMutex, TLC

Symmetry == Permutations(Threads)
=============================================================================
