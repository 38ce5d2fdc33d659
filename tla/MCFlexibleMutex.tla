--------------------------- MODULE MCFlexibleMutex ---------------------------
(***************************************************************************)
(* TLC instances of FlexibleMutex.  The threads are interchangeable: runs  *)
(* without liveness properties check one state of each orbit.              *)
(***************************************************************************)
EXTENDS FlexibleMutex, TLC

Symmetry == Permutations(Threads)

\* At most one thread is in a call that waits on blocker_, so that a
\* notification of blocker_ cannot reach the wrong waiter.
BlockerCalls == {t \in Threads : pc[t] \in Waits \ {"lockShared"}}
OneWaiter    == \A t, u \in BlockerCalls : t = u
OneWaiterSpec ==
    /\ Init /\ [][Next /\ OneWaiter']_vars
    /\ \A t \in Threads : WF_vars(Proceed(t)) /\ WF_vars(GiveBack(t))
=============================================================================
