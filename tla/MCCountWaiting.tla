--------------------------- MODULE MCCountWaiting ---------------------------
(***************************************************************************)
(* Semaphore and Latch, explored by the same run: the behaviours of the    *)
(* one and of the other, told apart by their initial states.               *)
(***************************************************************************)
EXTENDS Semaphore, Latch

VARIABLE kind

vars == <<kind, amounts, machine>>

Init ==
    \/ kind = "semaphore" /\ SemaphoreInit
    \/ kind = "latch" /\ LatchInit /\ amounts = {}

Next ==
    /\ UNCHANGED kind
    /\ \/ kind = "semaphore" /\ SemaphoreNext
       \/ kind = "latch" /\ LatchNext /\ UNCHANGED amounts

Spec == Init /\ [][Next]_vars

Steps(t) ==
    /\ UNCHANGED kind
    /\ \/ kind = "semaphore" /\ SemaphoreWork(t)
       \/ kind = "latch" /\ LatchWork(t) /\ UNCHANGED amounts

\* Threads go on with the calls they are inside of, and a compare_exchange_weak that is tried
\* again and again while it could succeed does.  Nothing is assumed of deadlines, of wakeups
\* that nobody asked for, and of which sleeper a notification reaches.
FairSpec ==
    /\ Spec
    /\ \A t \in Threads : WF_vars(Steps(t))
    /\ \A t \in Threads : SF_vars(Exchange(t) /\ UNCHANGED <<kind, amounts>>)
-----------------------------------------------------------------------------
(* Properties                                                              *)

\* No wakeup is lost: a thread sleeps while the count would let it through only as long as
\* another thread is about to notify, or to look at the count itself (release, countDown and
\* the waits of both builds).
NoWakeupLost ==
    /\ TypeOK
    /\ kind = "semaphore" => PermitsNoticed
    /\ kind = "latch" => OpeningNoticed

Asking == {t \in Threads : pc[t] \in {"test", "asleep", "load", "exchange", "block", "woken"}}

Contract == INSTANCE CountContract WITH asking <- Asking

\* No permit is taken twice or without being there, nobody passes a latch before the last
\* arrival, and nobody gives up while it could pass, in both builds.
ImplementsContract == Contract!Spec

\* Nobody sleeps for ever while the count would let it through.
NobodyForgotten == \A t \in Threads :
    []<>~(pc[t] = "asleep" /\ IF kind = "semaphore" THEN Admits(t) ELSE Open)
=============================================================================
