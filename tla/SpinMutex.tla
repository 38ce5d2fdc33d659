------------------------------ MODULE SpinMutex ------------------------------
(***************************************************************************)
(* dcool::concurrency::Mutex of a spinnable, shareable configuration       *)
(* (mutex.hpp): the counter is one Atom, every change of it is a single    *)
(* atomic read-modify-write, and a call that has to wait spins on it.  A   *)
(* failed attempt, a failed compare-exchange and a spin that reads an      *)
(* unsuitable count change nothing: they are stuttering steps.  The debug  *)
(* build is modelled, the only one in which unlock compiles: an assertion  *)
(* that fails ends the program.                                            *)
(***************************************************************************)
EXTENDS MutexState

CONSTANTS
    Timed,            \* Config::timed
    CheckedTryOrder   \* whether threads call tryOrderUpgrade only when it can
                      \* place its order

ASSUME SpinFlagsAssumption == {Timed, CheckedTryOrder} \subseteq BOOLEAN

VARIABLE timed            \* the threads whose call has a deadline

vars == <<statusCount, own, pc, timed>>

Init == StateInit /\ timed = {}

\* No assertion of a waiting call has failed: the program still runs.
Running == \A t \in Threads : pc[t] # "aborted"

\* An atomic change of the counter; a thread between calls has no deadline.
Count(n) == statusCount' = n
Expire   == timed' = {t \in timed : pc'[t] # "ready"}

\* The calls with a deadline enter the same loops as lock, lockShared and upgrade,
\* to leave them once their deadline is over.
CallTryLockUntil(t)       == Between(t, "idle") /\ Undisturbed /\ Goto(t, "lock")
CallTryLockSharedUntil(t) == Between(t, "idle") /\ Goto(t, "lockShared")
CallTryUpgradeUntil(t)    == CallUpgrade(t)
CallUntil(t) ==
    /\ Timed
    /\ CallTryLockUntil(t) \/ CallTryLockSharedUntil(t) \/ CallTryUpgradeUntil(t)
    /\ timed' = timed \cup {t}
    /\ UNCHANGED <<statusCount, own>>
-----------------------------------------------------------------------------
\* Places an order of this weight; the call returns at once when nobody else
\* owns the mutex, and spins in its second wait otherwise.
PlaceOrSpin(t, weight, placed) ==
    /\ Count(statusCount + weight)
    /\ IF statusCount' = exclusive THEN Return(t, "locked")
                                   ELSE Goto(t, placed) /\ UNCHANGED own

\* spinningLock_, trySpinningLockUntil_
Lock(t) ==
    /\ pc[t] = "lock" /\ Admits("lock")
    /\ IF PreferExclusive THEN PlaceOrSpin(t, exclusive, "lockPlaced")
                          ELSE Count(exclusive) /\ Return(t, "locked")

\* spinningUpgrade_, tryUpgradeUntil
Upgrade(t) ==
    /\ pc[t] = "upgrade" /\ Admits("upgrade")
    /\ IF PreferExclusive THEN PlaceOrSpin(t, exclusive - 1, "upgradePlaced")
                          ELSE Count(exclusive) /\ Return(t, "locked")

\* upgrade, tryUpgradeUntil and orderUpgrade assert of each value they look at
\* that no other thread is locking, as long as their order is not placed.
UpgradeAborts(t) ==
    /\ pc[t] \in {"upgrade", "orderUpgrade"} /\ PreferExclusive
    /\ statusCount > exclusive
    /\ Goto(t, "aborted") /\ UNCHANGED <<statusCount, own>>

\* completeExclusiveOrder_, and the second wait of lock and upgrade.
FinishOrder(t) ==
    /\ pc[t] \in {"lockPlaced", "upgradePlaced", "completeOrder"} /\ Admits(pc[t])
    /\ Return(t, "locked") /\ UNCHANGED statusCount

\* spinningLockShared_, trySpinningLockSharedUntil_
LockShared(t) ==
    /\ pc[t] = "lockShared" /\ Admits("lockShared")
    /\ Count(statusCount + 1) /\ Return(t, "sharedLocked")

\* spinningOrderLock_, spinningOrderUpgrade_
OrderLock(t) ==
    /\ pc[t] = "orderLock" /\ Admits("orderLock")
    /\ Count(statusCount + exclusive) /\ Return(t, "lockOrdered")
OrderUpgrade(t) ==
    /\ pc[t] = "orderUpgrade" /\ Admits("orderUpgrade")
    /\ Count(statusCount + (exclusive - 1)) /\ Return(t, "upgradeOrdered")

\* Mutant of GiveUp: a timed call that gives up forgets the order it placed.
GiveUpOrdering(t) ==
    /\ t \in timed
    /\ \/ pc[t] \in {"lock", "lockShared", "upgrade"} /\ ~Admits(pc[t])
       \/ pc[t] \in {"lockPlaced", "upgradePlaced"}
    /\ Goto(t, "ready") /\ UNCHANGED <<own, statusCount>>

\* Mutant of GiveUp: a call without a deadline is taken for a timed one.
GiveUpUntimed(t) ==
    /\ \/ pc[t] \in {"lock", "lockShared", "upgrade"} /\ ~Admits(pc[t]) /\ UNCHANGED statusCount
       \/ pc[t] = "lockPlaced"    /\ Count(statusCount - exclusive)
       \/ pc[t] = "upgradePlaced" /\ Count(statusCount - (exclusive - 1))
    /\ Goto(t, "ready") /\ UNCHANGED own

\* The deadline of a timed call is over while it still spins.  In the second
\* wait the order is cancelled, as by cancelLockOrder and cancelUpgradeOrder.
GiveUp(t) ==
    /\ t \in timed
    /\ \/ pc[t] \in {"lock", "lockShared", "upgrade"} /\ ~Admits(pc[t]) /\ UNCHANGED statusCount
       \/ pc[t] = "lockPlaced"    /\ Count(statusCount - exclusive)
       \/ pc[t] = "upgradePlaced" /\ Count(statusCount - (exclusive - 1))
    /\ Goto(t, "ready") /\ UNCHANGED own
-----------------------------------------------------------------------------
(***************************************************************************)
(* The calls that never wait.                                              *)
(***************************************************************************)
TryLock(t) ==
    /\ Between(t, "idle") /\ statusCount = 0
    /\ Count(exclusive) /\ Become(t, "locked")

TryLockShared(t) ==
    /\ Between(t, "idle") /\ statusCount < exclusive
    /\ Count(statusCount + 1) /\ Become(t, "sharedLocked")

TryUpgrade(t) ==
    /\ Upgradeable /\ Between(t, "sharedLocked") /\ statusCount = 1
    /\ Count(exclusive) /\ Become(t, "locked")

TryOrderLock(t) ==
    /\ PreferExclusive /\ Undisturbed
    /\ Between(t, "idle") /\ statusCount < exclusive
    /\ Count(statusCount + exclusive) /\ Become(t, "lockOrdered")

\* The result of trySpinningOrderUpgrade_ is dropped and true is returned,
\* whether or not the order was placed.
TryOrderUpgrade(t) ==
    /\ PreferExclusive /\ Upgradeable /\ Undisturbed /\ Between(t, "sharedLocked")
    /\ CheckedTryOrder => statusCount < exclusive
    /\ Count(IF statusCount < exclusive THEN statusCount + (exclusive - 1) ELSE statusCount)
    /\ Become(t, "upgradeOrdered")

\* tryCompleteExclusiveOrder_
TryCompleteOrder(t) ==
    /\ Between(t, "lockOrdered") \/ Between(t, "upgradeOrdered")
    /\ statusCount = exclusive
    /\ Become(t, "locked") /\ UNCHANGED statusCount

CancelLockOrder(t) ==
    /\ Between(t, "lockOrdered")
    /\ Count(statusCount - exclusive) /\ Become(t, "idle")
CancelUpgradeOrder(t) ==
    /\ Between(t, "upgradeOrdered")
    /\ Count(statusCount - (exclusive - 1)) /\ Become(t, "sharedLocked")

Unlock(t) == Between(t, "locked") /\ Count(0) /\ Become(t, "idle")

\* Mutant of Downgrade: the share that is kept is not counted.
DowngradeToFree(t) ==
    /\ Downgradeable /\ Between(t, "locked")
    /\ Count(0) /\ Become(t, "sharedLocked")
Downgrade(t) ==
    /\ Downgradeable /\ Between(t, "locked")
    /\ Count(1) /\ Become(t, "sharedLocked")

UnlockShared(t) ==
    /\ Between(t, "sharedLocked")
    /\ Count(statusCount - 1) /\ Become(t, "idle")
-----------------------------------------------------------------------------
\* What a thread does once it is inside a call.
Proceed(t) ==
    /\ Running
    /\ \/ Lock(t) \/ Upgrade(t) \/ UpgradeAborts(t) \/ FinishOrder(t)
       \/ LockShared(t) \/ OrderLock(t) \/ OrderUpgrade(t) \/ GiveUp(t)
    /\ Expire
Try(t) ==
    /\ \/ TryLock(t) \/ TryLockShared(t) \/ TryUpgrade(t)
       \/ TryOrderLock(t) \/ TryOrderUpgrade(t) \/ TryCompleteOrder(t)
    /\ UNCHANGED <<pc, timed>>
GiveBack(t) ==
    /\ Running
    /\ \/ Unlock(t) \/ UnlockShared(t) \/ Downgrade(t)
       \/ CancelLockOrder(t) \/ CancelUpgradeOrder(t)
    /\ UNCHANGED <<pc, timed>>

Next == Running /\ \E t \in Threads :
    \/ Call(t) /\ UNCHANGED timed
    \/ CallUntil(t) \/ Proceed(t) \/ Try(t) \/ GiveBack(t)

Spec == Init /\ [][Next]_vars

\* The scheduler runs every spinning thread, and every owner finally gives
\* back what it owns or ordered.
FairSpec == /\ Spec
            /\ \A t \in Threads : WF_vars(Proceed(t)) /\ WF_vars(GiveBack(t))
-----------------------------------------------------------------------------
TypeOK ==
    /\ statusCount \in Nat
    /\ own \in [Threads -> LockerStatus]
    /\ pc  \in [Threads -> {"ready", "aborted"} \cup Waits]
    /\ timed \subseteq Threads

\* An order that lock or upgrade placed is completed, unless a thread that asks
\* for an upgrade meanwhile ends the program: the shared owners leave and no
\* others can come.
OrderCompletes == \A t \in Threads :
    pc[t] \in {"lockPlaced", "upgradePlaced"} /\ t \notin timed
        ~> own[t] = "locked" \/ ~Running

\* What upgrade and orderUpgrade assert in their waits: "Another thread is
\* locking. This would be a deadlock."  Threads that keep the preconditions as
\* mutex.md words them can fail it: the precondition is about the threads that
\* are waiting when upgrade is called, the assertion about those that have
\* ordered by the time of any retry.
UpgradeAssertionHolds == Running
=============================================================================
