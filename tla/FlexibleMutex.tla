---------------------------- MODULE FlexibleMutex ----------------------------
(***************************************************************************)
(* dcool::concurrency::Mutex built on FlexibleUnderlying_ (mutex.hpp): one *)
(* counter under an internal std::mutex, and two condition variables.      *)
(* Every action that touches the counter is one critical section of        *)
(* mutex_.  A thread that finds its wait predicate false joins the wait    *)
(* set of a condition variable in the same step; once notified it leaves   *)
(* the set and evaluates the predicate again in a step of its own, after   *)
(* whatever the other threads did in between.  unlock and its kin notify   *)
(* after they released mutex_, each notification being a step of its own.  *)
(*                                                                         *)
(* try* calls that fail change no state and are stuttering steps.          *)
(* Neither spinnable nor recursive configurations are modelled here, nor   *)
(* are the timed calls (see TimedFlexibleMutex).                           *)
(***************************************************************************)
EXTENDS MutexState

VARIABLES
    blocker,       \* the threads asleep on blocker_
    shareBlocker   \* the threads asleep on shareBlocker_

condvars == <<blocker, shareBlocker>>
vars == <<statusCount, own, pc, blocker, shareBlocker>>

\* Outside mutex_ with notifications left to send.
Signals == {"signalBoth", "signalBlocker", "signalShareOne", "signalShareAll"}

\* Where a thread is: between calls, in a wait (lockSharedUntil is one of TimedFlexibleMutex), or
\* about to notify.
Points == {"ready", "lockSharedUntil"} \cup Waits \cup Signals

Asleep == blocker \cup shareBlocker

Init == StateInit /\ blocker = {} /\ shareBlocker = {}

\* A thread about to evaluate its predicate, finding it true.
Passes(t, wait) == pc[t] = wait /\ t \notin Asleep /\ Admits(wait)

\* condition_variable::wait with a false predicate: only lockShared waits on
\* shareBlocker_.
Sleep(t) ==
    /\ pc[t] \in Waits /\ t \notin Asleep /\ ~Admits(pc[t])
    /\ IF pc[t] = "lockShared"
       THEN shareBlocker' = shareBlocker \cup {t} /\ UNCHANGED blocker
       ELSE blocker' = blocker \cup {t} /\ UNCHANGED shareBlocker
    /\ UNCHANGED <<statusCount, own, pc>>

\* std::condition_variable::wait may return without a notification.
SpuriousWake(t) ==
    /\ t \in Asleep
    /\ blocker' = blocker \ {t} /\ shareBlocker' = shareBlocker \ {t}
    /\ UNCHANGED <<statusCount, own, pc>>
-----------------------------------------------------------------------------
\* Places an order that adds this much to the count.  With no owner in its
\* way the second predicate holds at once and the call returns; otherwise the
\* thread falls asleep in the same critical section.
PlaceOrWait(t, weight, placed) ==
    /\ statusCount' = statusCount + weight
    /\ UNCHANGED shareBlocker
    /\ IF statusCount' = exclusive
       THEN Return(t, "locked") /\ UNCHANGED blocker
       ELSE Goto(t, placed) /\ blocker' = blocker \cup {t} /\ UNCHANGED own

\* lock
Lock(t) ==
    /\ Passes(t, "lock")
    /\ IF PreferExclusive
       THEN PlaceOrWait(t, exclusive, "lockPlaced")
       ELSE /\ statusCount' = exclusive
            /\ Return(t, "locked") /\ UNCHANGED condvars

\* upgrade
Upgrade(t) ==
    /\ Passes(t, "upgrade")
    /\ IF PreferExclusive
       THEN PlaceOrWait(t, exclusive - 1, "upgradePlaced")
       ELSE /\ statusCount' = exclusive
            /\ Return(t, "locked") /\ UNCHANGED condvars

\* The second wait of lock and upgrade, and completeExclusiveOrder_.
FinishOrder(t) ==
    /\ \E wait \in {"lockPlaced", "upgradePlaced", "completeOrder"} : Passes(t, wait)
    /\ Return(t, "locked")
    /\ UNCHANGED <<statusCount, condvars>>

\* lockShared
LockShared(t) ==
    /\ Passes(t, "lockShared")
    /\ statusCount' = statusCount + 1
    /\ Return(t, "sharedLocked") /\ UNCHANGED condvars

\* orderLock, orderUpgrade
OrderLock(t) ==
    /\ Passes(t, "orderLock")
    /\ statusCount' = statusCount + exclusive
    /\ Return(t, "lockOrdered") /\ UNCHANGED condvars
OrderUpgrade(t) ==
    /\ Passes(t, "orderUpgrade")
    /\ statusCount' = statusCount + (exclusive - 1)
    /\ Return(t, "upgradeOrdered") /\ UNCHANGED condvars
-----------------------------------------------------------------------------
(***************************************************************************)
(* The calls that never wait.                                              *)
(***************************************************************************)
TryLock(t) ==
    /\ Between(t, "idle") /\ statusCount = 0
    /\ statusCount' = exclusive
    /\ Become(t, "locked") /\ UNCHANGED <<condvars, pc>>

\* Mutant of TryLockShared: an order does not keep shared owners out.
TryLockSharedPastOrder(t) ==
    /\ Between(t, "idle") /\ statusCount < maxStatus
    /\ statusCount' = statusCount + 1
    /\ Become(t, "sharedLocked") /\ UNCHANGED <<condvars, pc>>

TryLockShared(t) ==
    /\ Between(t, "idle") /\ statusCount < exclusive
    /\ statusCount' = statusCount + 1
    /\ Become(t, "sharedLocked") /\ UNCHANGED <<condvars, pc>>

TryUpgrade(t) ==
    /\ Upgradeable /\ Between(t, "sharedLocked") /\ statusCount = 1
    /\ statusCount' = exclusive
    /\ Become(t, "locked") /\ UNCHANGED <<condvars, pc>>

TryOrderLock(t) ==
    /\ PreferExclusive /\ Undisturbed
    /\ Between(t, "idle") /\ statusCount < exclusive
    /\ statusCount' = statusCount + exclusive
    /\ Become(t, "lockOrdered") /\ UNCHANGED <<condvars, pc>>

TryOrderUpgrade(t) ==
    /\ PreferExclusive /\ Upgradeable /\ Undisturbed
    /\ Between(t, "sharedLocked") /\ statusCount < exclusive
    /\ statusCount' = statusCount + (exclusive - 1)
    /\ Become(t, "upgradeOrdered") /\ UNCHANGED <<condvars, pc>>

\* tryCompleteExclusiveOrder_
TryCompleteOrder(t) ==
    /\ Between(t, "lockOrdered") \/ Between(t, "upgradeOrdered")
    /\ statusCount = exclusive
    /\ Become(t, "locked") /\ UNCHANGED <<statusCount, condvars, pc>>

\* Cancelling gives the order's weight back and, once outside mutex_, wakes
\* one waiter of blocker_ and all of shareBlocker_.
CancelLockOrder(t) ==
    /\ Between(t, "lockOrdered")
    /\ statusCount' = statusCount - exclusive
    /\ Become(t, "idle") /\ Goto(t, "signalBoth") /\ UNCHANGED condvars
\* Mutant of CancelUpgradeOrder: gives back the weight of a lock order.
CancelUpgradeOrderAll(t) ==
    /\ Between(t, "upgradeOrdered")
    /\ statusCount' = statusCount - exclusive
    /\ Become(t, "sharedLocked") /\ Goto(t, "signalBoth") /\ UNCHANGED condvars
CancelUpgradeOrder(t) ==
    /\ Between(t, "upgradeOrdered")
    /\ statusCount' = statusCount - (exclusive - 1)
    /\ Become(t, "sharedLocked") /\ Goto(t, "signalBoth") /\ UNCHANGED condvars

\* Mutant of Unlock: the notification of shareBlocker_ is missing.
UnlockWakesBlocker(t) ==
    /\ Between(t, "locked")
    /\ statusCount' = 0
    /\ Become(t, "idle") /\ Goto(t, "signalBlocker") /\ UNCHANGED condvars
Unlock(t) ==
    /\ Between(t, "locked")
    /\ statusCount' = 0
    /\ Become(t, "idle") /\ Goto(t, "signalBoth") /\ UNCHANGED condvars

\* Mutant of Downgrade: the share that is kept is not counted.
DowngradeToFree(t) ==
    /\ Downgradeable /\ Between(t, "locked")
    /\ statusCount' = 0
    /\ Become(t, "sharedLocked")
    /\ Goto(t, IF PreferExclusive THEN "signalBoth" ELSE "signalShareAll")
    /\ UNCHANGED condvars
Downgrade(t) ==
    /\ Downgradeable /\ Between(t, "locked")
    /\ statusCount' = 1
    /\ Become(t, "sharedLocked")
    /\ Goto(t, IF PreferExclusive THEN "signalBoth" ELSE "signalShareAll")
    /\ UNCHANGED condvars

\* The count at which an owner that waits for the others to leave is alone.
lonely == IF PreferExclusive THEN exclusive ELSE IF Upgradeable THEN 1 ELSE 0

\* Mutant of SharedSignal: the last shared owner to leave forgets the order.
SharedSignalForgets(countAfterUnlock) ==
    IF countAfterUnlock = 0                  THEN "signalBlocker"
    ELSE IF countAfterUnlock = exclusive - 1 THEN "signalShareOne"
    ELSE "ready"

\* Mutant of SharedSignal: a mutex that was full has room again and no reader is told.
SharedSignalRoomless(countAfterUnlock) ==
    IF countAfterUnlock \in {0, lonely} THEN "signalBlocker" ELSE "ready"

\* What unlockShared signals, from the count it left behind.
SharedSignal(countAfterUnlock) ==
    IF countAfterUnlock = 0                  THEN "signalBlocker"
    ELSE IF countAfterUnlock = exclusive - 1 THEN "signalShareOne"
    ELSE IF countAfterUnlock = lonely        THEN "signalBlocker"
    ELSE "ready"

UnlockShared(t) ==
    /\ Between(t, "sharedLocked")
    /\ statusCount' = statusCount - 1
    /\ Become(t, "idle") /\ Goto(t, SharedSignal(statusCount'))
    /\ UNCHANGED condvars
-----------------------------------------------------------------------------
\* blocker_.notify_one, and in unlock, downgrade and the cancels the
\* notification of shareBlocker_ comes next.
NotifyBlocker(t) ==
    /\ pc[t] \in {"signalBoth", "signalBlocker"}
    /\ \/ blocker = {} /\ UNCHANGED blocker
       \/ \E w \in blocker : blocker' = blocker \ {w}
    /\ Goto(t, IF pc[t] = "signalBoth" THEN "signalShareAll" ELSE "ready")
    /\ UNCHANGED <<statusCount, shareBlocker, own>>

\* shareBlocker_.notify_one and shareBlocker_.notify_all
NotifySharers(t) ==
    /\ pc[t] \in {"signalShareOne", "signalShareAll"}
    /\ \/ shareBlocker = {} /\ UNCHANGED shareBlocker
       \/ /\ pc[t] = "signalShareOne"
          /\ \E w \in shareBlocker : shareBlocker' = shareBlocker \ {w}
       \/ pc[t] = "signalShareAll" /\ shareBlocker' = {}
    /\ Goto(t, "ready")
    /\ UNCHANGED <<statusCount, blocker, own>>
-----------------------------------------------------------------------------
\* What a thread does once it is inside a call.
Proceed(t) ==
    \/ Sleep(t) \/ Lock(t) \/ Upgrade(t) \/ FinishOrder(t)
    \/ LockShared(t) \/ OrderLock(t) \/ OrderUpgrade(t)
    \/ NotifyBlocker(t) \/ NotifySharers(t)
Try(t) ==
    \/ TryLock(t) \/ TryLockShared(t) \/ TryUpgrade(t)
    \/ TryOrderLock(t) \/ TryOrderUpgrade(t) \/ TryCompleteOrder(t)
GiveBack(t) ==
    \/ Unlock(t) \/ UnlockShared(t) \/ Downgrade(t)
    \/ CancelLockOrder(t) \/ CancelUpgradeOrder(t)

Next == \E t \in Threads :
    \/ Call(t) /\ UNCHANGED condvars
    \/ Proceed(t) \/ Try(t) \/ GiveBack(t) \/ SpuriousWake(t)

Spec == Init /\ [][Next]_vars

\* The scheduler runs every thread that can run, and every owner of the mutex
\* finally gives back what it owns or ordered.
FairSpec == /\ Spec
            /\ \A t \in Threads : WF_vars(Proceed(t)) /\ WF_vars(GiveBack(t))
-----------------------------------------------------------------------------
TypeOK ==
    /\ statusCount \in Nat
    /\ blocker \subseteq Threads /\ shareBlocker \subseteq Threads
    /\ own \in [Threads -> LockerStatus]
    /\ pc  \in [Threads -> Points]

\* The inductive invariant: types, what a thread inside a call owns, and a
\* counter that stays consistent with what the threads own.
IInv == TypeOK /\ CallInv /\ Consistent(Stand, statusCount)

(***************************************************************************)
(* Correctness, beyond what MutexState states.                             *)
(***************************************************************************)

\* No lost wakeup: a thread asleep although its predicate holds is not the
\* last word: some other thread is still awake inside a call, or owns
\* something whose release may notify it.
Stirring(u) == u \notin Asleep /\ (pc[u] # "ready" \/ own[u] # "idle")
NoLostWakeup == \A t \in Asleep :
    Admits(pc[t]) => \E u \in Threads \ {t} : Stirring(u)

\* Readers asleep on a mutex that has room again are being woken: all of them,
\* or the only one there is.  unlock, downgrade and the cancels notify them
\* all; unlockShared notifies one, and only when it leaves a full mutex.
SharersNoticed ==
    shareBlocker # {} /\ statusCount < exclusive =>
        \/ \E u \in Threads : pc[u] \in {"signalBoth", "signalShareAll"}
        \/ /\ \E u \in Threads : pc[u] = "signalShareOne"
           /\ \A s, r \in shareBlocker : s = r

\* An order keeps new shared owners out: while one stands (and it stands from
\* the moment it is placed, asleep or not) no thread becomes a shared owner.
OrderBlocksReaders ==
    [][Orders # {} =>
         SharedOwners' \subseteq SharedOwners \cup ExclusiveOwners]_vars

\* A thread that waits to share the mutex gets its share, once no thread takes
\* or orders exclusive ownership any more: the notify_all of unlock, downgrade
\* and the cancels reaches every thread asleep on shareBlocker_.
Barred == ExclusiveOwners \cup Orders # {}
ReadersAdmitted == \A t \in Threads :
    [](pc[t] = "lockShared" /\ [](~Barred) => <>(pc[t] = "ready"))

\* A placed order is completed: once lock or upgrade has placed its order, the
\* last shared owner to leave wakes the thread that waits, which then owns the
\* mutex exclusively.
OrderCompletes == \A t \in Threads :
    pc[t] \in {"lockPlaced", "upgradePlaced"} ~> own[t] = "locked"
=============================================================================
