------------------------- MODULE SharedMutexContract -------------------------
(***************************************************************************)
(* What dcool::concurrency::Mutex promises to the threads that share it,   *)
(* with no count, no queue and no waiting: who owns what, and which        *)
(* changes of ownership one call may make.  A thread's ownership is the    *)
(* Status a Locker object holds for it (mutex.hpp, struct Locker).         *)
(* FlexibleMutex (the condition-variable build) and SpinMutex (the         *)
(* busy-waiting build) are both shown to implement this module.            *)
(***************************************************************************)
EXTENDS Naturals, FiniteSets

CONSTANTS
    Threads,    \* the threads that share the mutex
    MaxShare    \* Config::maxShare, the most shared owners at one time

VARIABLE own    \* own[t]: the Locker::Status of thread t

Those(s)    == {t \in Threads : own[t] \in s}
Owners      == Those({"sharedLocked", "upgradeOrdered"})   \* shared owners
Orderers    == Those({"lockOrdered", "upgradeOrdered"})    \* pending orders
Exclusives  == Those({"locked"})                           \* exclusive owners

Init == own = [t \in Threads |-> "idle"]

Become(t, status) == own' = [own EXCEPT ![t] = status]

\* lockShared, tryLockShared: no exclusive owner, no order, room for one more.
AcquireShared(t) ==
    /\ own[t] = "idle"
    /\ Exclusives = {} /\ Orderers = {}
    /\ Cardinality(Owners) < MaxShare
    /\ Become(t, "sharedLocked")

\* lock, tryLock on a mutex nobody owns.
AcquireExclusive(t) ==
    /\ own[t] = "idle"
    /\ Exclusives = {} /\ Orderers = {} /\ Owners = {}
    /\ Become(t, "locked")

\* orderLock, tryOrderLock, and the first half of a lock that has to wait.
PlaceLockOrder(t) ==
    /\ own[t] = "idle"
    /\ Exclusives = {} /\ Orderers = {}
    /\ Become(t, "lockOrdered")

\* orderUpgrade, tryOrderUpgrade, and the first half of an upgrade.
PlaceUpgradeOrder(t) ==
    /\ own[t] = "sharedLocked"
    /\ Exclusives = {} /\ Orderers = {}
    /\ Become(t, "upgradeOrdered")

\* upgrade, tryUpgrade by the only owner.
UpgradeNow(t) ==
    /\ own[t] = "sharedLocked"
    /\ Exclusives = {} /\ Orderers = {} /\ Owners = {t}
    /\ Become(t, "locked")

\* completeLockOrder, completeUpgradeOrder: every other owner has left.
CompleteOrder(t) ==
    /\ t \in Orderers
    /\ Exclusives = {} /\ Owners \subseteq {t}
    /\ Become(t, "locked")

\* cancelLockOrder, cancelUpgradeOrder.
CancelOrder(t) ==
    \/ own[t] = "lockOrdered"    /\ Become(t, "idle")
    \/ own[t] = "upgradeOrdered" /\ Become(t, "sharedLocked")

\* unlock, unlockShared, downgrade.
Release(t) ==
    \/ own[t] \in {"locked", "sharedLocked"} /\ Become(t, "idle")
    \/ own[t] = "locked" /\ Become(t, "sharedLocked")

Next == \E t \in Threads :
    \/ AcquireShared(t) \/ AcquireExclusive(t)
    \/ PlaceLockOrder(t) \/ PlaceUpgradeOrder(t)
    \/ UpgradeNow(t) \/ CompleteOrder(t) \/ CancelOrder(t) \/ Release(t)

Spec == Init /\ [][Next]_own
=============================================================================
