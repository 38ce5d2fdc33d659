----------------------------- MODULE AsyncMutex -----------------------------
(***************************************************************************)
(* dcool::coroutine::AsyncMutex (async_mutex.hpp, async_mutex.cpp): a      *)
(* mutex that suspends the coroutines that wait for it.  The waiters form  *)
(* a linked list through the awaiters in their frames; m_latestEnqued_ is  *)
(* its tail, or says that the mutex is free, or locked with nobody in the  *)
(* queue.  tryLock, lockOrQueue and unlock are critical sections of        *)
(* m_mutex_, one action each.  unlock resumes the next coroutine after it  *)
(* has left its critical section, on its own stack: it returns only when   *)
(* that coroutine suspends, ends or goes on elsewhere.  An awaiter is in   *)
(* the queue before its await_suspend has returned: the coroutine may be   *)
(* resumed, unlock, and come again, on the stacks of others, while the     *)
(* stack it was suspended on is still on its way out of that call.         *)
(***************************************************************************)
EXTENDS Sequences, Naturals

CONSTANTS
    Coroutines,   \* the coroutines that use the mutex; a plain thread, which
                  \* can only tryLock and unlock, is one that never awaits
    Null,         \* m_latestEnqued_ of a free mutex
    Locked        \* lockedSentryAddress

ASSUME AddressAssumption == Null # Locked /\ Null \notin Coroutines /\ Locked \notin Coroutines

VARIABLES
    latestEnqued,   \* the tail of the queue, Locked or Null
    nextInQueue,    \* the head of the queue; not initialised at first
    next,           \* next[c]: the awaiter behind that of c; not initialised
    pc,             \* pc[c]: where c is, see States
    toResume,       \* toResume[c]: the coroutine that the unlock of c resumes
    queue           \* history: those who wait, in the order in which they came

vars == <<latestEnqued, nextInQueue, next, pc, toResume, queue>>

Addresses == Coroutines \cup {Null, Locked}

\* "idle" runs without the mutex, "trying" is past a failed await_ready,
\* "queued" is suspended, "owner" runs with the mutex, "resuming" has left the
\* critical section of unlock, "below" waits for the coroutine it resumed, and
\* "returning" is to go on when that one, which it ran, is out of await_suspend.
States == {"idle", "trying", "queued", "owner", "resuming", "below", "returning"}

Init ==
    /\ latestEnqued = Null
    /\ nextInQueue \in Addresses /\ next \in [Coroutines -> Addresses]
    /\ pc = [c \in Coroutines |-> "idle"]
    /\ toResume = [c \in Coroutines |-> c]
    /\ queue = << >>

\* c leaves the stack it runs on, and whoever resumed it will go on.
Uncovers(c, d)  == pc[d] = "below" /\ toResume[d] = c
Leave(c, where) ==
    pc' = [d \in Coroutines |->
              IF d = c THEN where ELSE IF Uncovers(c, d) THEN "returning" ELSE pc[d]]

\* tryLock, which is also await_ready.
TryLock(c) ==
    /\ pc[c] = "idle" /\ latestEnqued = Null
    /\ latestEnqued' = Locked
    /\ pc' = [pc EXCEPT ![c] = "owner"]
    /\ UNCHANGED <<nextInQueue, next, toResume, queue>>

\* await_ready returns false: await_suspend comes next.
NotReady(c) ==
    /\ pc[c] = "idle" /\ latestEnqued # Null
    /\ pc' = [pc EXCEPT ![c] = "trying"]
    /\ UNCHANGED <<latestEnqued, nextInQueue, next, toResume, queue>>

\* lockOrQueue finds that the mutex has become free: await_suspend returns
\* false and the coroutine goes on at once.
LockInstead(c) ==
    /\ pc[c] = "trying" /\ latestEnqued = Null
    /\ latestEnqued' = Locked
    /\ pc' = [pc EXCEPT ![c] = "owner"]
    /\ UNCHANGED <<nextInQueue, next, toResume, queue>>

\* Mutants of Enqueue: the newcomer always becomes the head of the queue; the
\* tail of the queue is not recorded.
EnqueueFirst(c) ==
    /\ pc[c] = "trying" /\ latestEnqued # Null
    /\ nextInQueue' = c
    /\ next' = [next EXCEPT ![c] = IF latestEnqued = Locked THEN Locked ELSE nextInQueue]
    /\ latestEnqued' = IF latestEnqued = Locked THEN c ELSE latestEnqued
    /\ Leave(c, "queued")
    /\ queue' = Append(queue, c)
    /\ UNCHANGED toResume
EnqueueUntailed(c) ==
    /\ pc[c] = "trying" /\ latestEnqued # Null
    /\ nextInQueue' = c /\ next' = [next EXCEPT ![c] = Locked]
    /\ Leave(c, "queued")
    /\ queue' = Append(queue, c)
    /\ UNCHANGED <<latestEnqued, toResume>>

\* lockOrQueue enqueues the awaiter, and the coroutine stays suspended.
Enqueue(c) ==
    /\ pc[c] = "trying" /\ latestEnqued # Null
    /\ IF latestEnqued = Locked
       THEN nextInQueue' = c /\ next' = [next EXCEPT ![c] = Locked]
       ELSE /\ next' = [next EXCEPT ![c] = Locked, ![latestEnqued] = c]
            /\ UNCHANGED nextInQueue
    /\ latestEnqued' = c
    /\ Leave(c, "queued")
    /\ queue' = Append(queue, c)
    /\ UNCHANGED toResume

\* unlock with nobody in the queue.
UnlockFree(c) ==
    /\ pc[c] = "owner" /\ latestEnqued = Locked
    /\ latestEnqued' = Null
    /\ pc' = [pc EXCEPT ![c] = "idle"]
    /\ UNCHANGED <<nextInQueue, next, toResume, queue>>

\* Mutant of UnlockTake: the last awaiter stays the tail of the queue.
UnlockTakeTailed(c) ==
    /\ pc[c] = "owner" /\ latestEnqued \in Coroutines
    /\ toResume' = [toResume EXCEPT ![c] = nextInQueue]
    /\ nextInQueue' = next[nextInQueue]
    /\ pc' = [pc EXCEPT ![c] = "resuming"]
    /\ queue' = Tail(queue)
    /\ UNCHANGED <<latestEnqued, next>>

\* unlock takes the first awaiter out of the queue.
UnlockTake(c) ==
    /\ pc[c] = "owner" /\ latestEnqued \in Coroutines
    /\ toResume' = [toResume EXCEPT ![c] = nextInQueue]
    /\ IF nextInQueue = latestEnqued
       THEN latestEnqued' = Locked /\ UNCHANGED nextInQueue
       ELSE nextInQueue' = next[nextInQueue] /\ UNCHANGED latestEnqued
    /\ pc' = [pc EXCEPT ![c] = "resuming"]
    /\ queue' = Tail(queue)
    /\ UNCHANGED next

\* toResume->handle_.resume(): the other coroutine runs, as the owner.
Resume(c) ==
    /\ pc[c] = "resuming"
    /\ pc' = [pc EXCEPT ![c] = "below", ![toResume[c]] = "owner"]
    /\ UNCHANGED <<latestEnqued, nextInQueue, next, toResume, queue>>

\* c ends (another coroutine takes its place here), or awaits something else
\* and goes on on another thread.
GoElsewhere(c) ==
    /\ pc[c] \in {"idle", "owner"} /\ \E d \in Coroutines : Uncovers(c, d)
    /\ Leave(c, pc[c])
    /\ UNCHANGED <<latestEnqued, nextInQueue, next, toResume, queue>>

\* The resume() that c called returns, and unlock with it; what has become of
\* the coroutine in the meantime, and of its frame, does not matter to it.
ComeBack(c) ==
    /\ pc[c] = "returning"
    /\ pc' = [pc EXCEPT ![c] = "idle"]
    /\ UNCHANGED <<latestEnqued, nextInQueue, next, toResume, queue>>

Unlock(c) == UnlockFree(c) \/ UnlockTake(c)
Next == \E c \in Coroutines :
    \/ TryLock(c) \/ NotReady(c) \/ LockInstead(c) \/ Enqueue(c)
    \/ Unlock(c) \/ Resume(c) \/ ComeBack(c) \/ GoElsewhere(c)

Spec == Init /\ [][Next]_vars

\* Threads run: an owner finally unlocks, an unlock that has to resume a
\* coroutine does, and an await_suspend that was entered comes to lockOrQueue.
FairSpec == /\ Spec
            /\ \A c \in Coroutines :
                  WF_vars(Unlock(c)) /\ WF_vars(Resume(c)) /\ WF_vars(LockInstead(c) \/ Enqueue(c))
-----------------------------------------------------------------------------
TypeOK ==
    /\ latestEnqued \in Addresses /\ nextInQueue \in Addresses
    /\ next \in [Coroutines -> Addresses]
    /\ pc \in [Coroutines -> States]
    /\ toResume \in [Coroutines -> Coroutines]
    /\ queue \in Seq(Coroutines)

\* c has the mutex: it runs with it, or unlock has chosen it.
Chosen(c, d) == pc[d] = "resuming" /\ toResume[d] = c
Has(c)       == pc[c] = "owner" \/ \E d \in Coroutines : Chosen(c, d)
Held         == \E c \in Coroutines : Has(c)

\* The pointers say what the queue is.
ListInv ==
    /\ latestEnqued = Null => queue = << >>
    /\ latestEnqued = Locked <=> (queue = << >> /\ Held)
    /\ latestEnqued \in Coroutines =>
          /\ queue # << >> /\ Held
          /\ latestEnqued = queue[Len(queue)] /\ nextInQueue = queue[1]
    /\ \A i \in 1 .. Len(queue) - 1 : next[queue[i]] = queue[i + 1]

\* A suspended coroutine is in the queue once, or has been chosen by one
\* unlock; nobody else is in the queue or chosen.
SuspendedInv ==
    /\ \A i, j \in 1 .. Len(queue) : queue[i] = queue[j] => i = j
    /\ \A i \in 1 .. Len(queue) : pc[queue[i]] = "queued"
    /\ \A c, d \in Coroutines : Chosen(c, d) =>
          pc[c] = "queued" /\ \A i \in 1 .. Len(queue) : queue[i] # c
    /\ \A c \in Coroutines : pc[c] = "queued" =>
          (\E i \in 1 .. Len(queue) : queue[i] = c) \/ \E d \in Coroutines : Chosen(c, d)
    /\ \A c, d, e \in Coroutines : Chosen(c, d) /\ Chosen(c, e) => d = e

\* Mutual exclusion: one coroutine at most has the mutex, the coroutine that
\* an unlock is about to resume included.
MutualExclusion == \A c, d \in Coroutines : Has(c) /\ Has(d) => c = d

AsyncInv == TypeOK /\ ListInv /\ SuspendedInv /\ MutualExclusion

\* The mutex is handed over in the order in which the coroutines came, and
\* the pointers never lead anywhere else.
Holder == IF Held THEN CHOOSE c \in Coroutines : Has(c) ELSE Null
Fifo == INSTANCE FifoLock WITH owner <- Holder, Nobody <- Null
FifoSpec == Fifo!Spec

\* Every coroutine that is suspended is resumed, with the mutex.
EachResumed == \A c \in Coroutines : pc[c] = "queued" ~> pc[c] = "owner"
=============================================================================
