------------------------------- MODULE FifoLock -------------------------------
(***************************************************************************)
(* What dcool::coroutine::AsyncMutex promises: one owner, and those who    *)
(* have to wait become the owner in the order in which they came.          *)
(***************************************************************************)
EXTENDS Sequences

CONSTANTS
    Coroutines,   \* those who lock and unlock
    Nobody        \* the owner of a mutex that is free

VARIABLES
    owner,        \* the owner, or Nobody
    queue         \* those who wait, in the order in which they came

Init == owner = Nobody /\ queue = << >>

\* tryLock, and a co_await of lockAsync on a free mutex.
Acquire(c) ==
    /\ owner = Nobody
    /\ owner' = c /\ UNCHANGED queue

\* A co_await of lockAsync on a mutex that is owned.
Wait(c) ==
    /\ owner # Nobody
    /\ queue' = Append(queue, c) /\ UNCHANGED owner

\* unlock hands the mutex over to the first in the queue.
Release ==
    /\ owner # Nobody
    /\ IF queue = << >> THEN owner' = Nobody /\ UNCHANGED queue
                        ELSE owner' = Head(queue) /\ queue' = Tail(queue)

Next == Release \/ \E c \in Coroutines : Acquire(c) \/ Wait(c)

Spec == Init /\ [][Next]_<<owner, queue>>
=============================================================================
