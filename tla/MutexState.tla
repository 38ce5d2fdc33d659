----------------------------- MODULE MutexState -----------------------------
(***************************************************************************)
(* What the two implementations of dcool::concurrency::Mutex (mutex.hpp)   *)
(* have in common: the configuration, the counter statusCount_ in which    *)
(* shares, orders and exclusive ownership are encoded, the Locker that     *)
(* remembers what a thread owns, the preconditions of the calls, and what  *)
(* makes either implementation correct.                                    *)
(***************************************************************************)
EXTENDS Naturals, FiniteSets

CONSTANTS
    Threads,          \* the threads that share the mutex
    MaxShare,         \* Config::maxShare
    PreferExclusive,  \* preferExclusive.isDeterminateTrue()
    Upgradeable,      \* Config::upgradeable
    Downgradeable,    \* Config::downgradeable
    UpgradeIsolated   \* FALSE: the threads keep the precondition of upgrade as
                      \* it is documented, when they call it; TRUE, which no
                      \* document asks for: they keep it for orderUpgrade too,
                      \* count orders that nobody waits on, and until the
                      \* first wait is over

ASSUME ThreadsAssumption  == IsFiniteSet(Threads)
ASSUME MaxShareAssumption == MaxShare \in Nat \ {0}
ASSUME FlagsAssumption ==
    {PreferExclusive, Upgradeable, Downgradeable, UpgradeIsolated} \subseteq BOOLEAN

VARIABLES
    statusCount,   \* the counter
    own,           \* own[t]: the status of t's Locker
    pc             \* pc[t]: the call t is inside of, "ready" between calls

exclusive == MaxShare                                   \* exclusive_
maxStatus == exclusive + (IF PreferExclusive THEN exclusive - 1 ELSE 0)

LockerStatus == {"idle", "lockOrdered", "sharedLocked", "upgradeOrdered", "locked"}

\* Where a call may have to wait.  The second wait of lock and upgrade, once
\* their order is placed, exists only when exclusives are preferred.
Waits == {"lock", "lockPlaced", "lockShared", "orderLock", "completeOrder",
          "upgrade", "upgradePlaced", "orderUpgrade"}

StateInit ==
    /\ statusCount = 0
    /\ own = [t \in Threads |-> "idle"]
    /\ pc  = [t \in Threads |-> "ready"]

Goto(t, where)    == pc'  = [pc  EXCEPT ![t] = where]
Become(t, status) == own' = [own EXCEPT ![t] = status]
\* A call returns, t then owning or having ordered this.
Return(t, status) == Goto(t, "ready") /\ Become(t, status)

\* A thread between two calls that owns, or has ordered, this.
Between(t, status) == pc[t] = "ready" /\ own[t] = status

\* Mutant of Admits: a comparison off by one lets one too many in.
AdmitsOneMore(wait) ==
    CASE wait = "lock"    -> IF PreferExclusive THEN statusCount <= exclusive
                                                ELSE statusCount = 0
      [] wait = "upgrade" -> IF PreferExclusive THEN statusCount <= exclusive
                                                ELSE statusCount = 1
      [] wait \in {"lockShared", "orderLock", "orderUpgrade"} -> statusCount <= exclusive
      [] OTHER            -> statusCount = exclusive

\* The condition each wait is for.
Admits(wait) ==
    CASE wait = "lock"    -> IF PreferExclusive THEN statusCount < exclusive
                                                ELSE statusCount = 0
      [] wait = "upgrade" -> IF PreferExclusive THEN statusCount < exclusive
                                                ELSE statusCount = 1
      [] wait \in {"lockShared", "orderLock", "orderUpgrade"} -> statusCount < exclusive
      [] OTHER            -> statusCount = exclusive
-----------------------------------------------------------------------------
(***************************************************************************)
(* Entering a call that may wait, with its documented precondition: lock,  *)
(* lockShared and orderLock by a thread that owns and has ordered nothing; *)
(* upgrade by a shared owner while nobody else waits to upgrade or, unless *)
(* exclusives are not preferred, for exclusive ownership.                  *)
(***************************************************************************)
Upgrading(u) ==
    \/ pc[u] \in {"upgrade", "upgradePlaced", "orderUpgrade"}
    \/ own[u] = "upgradeOrdered" /\ (UpgradeIsolated \/ pc[u] = "completeOrder")
Seeking(u) ==
    \/ pc[u] \in {"lock", "lockPlaced", "orderLock", "completeOrder"}
    \/ own[u] = "lockOrdered" /\ UpgradeIsolated
UpgradeFree(t) ==
    \A u \in Threads \ {t} : ~Upgrading(u) /\ (PreferExclusive => ~Seeking(u))
Undisturbed ==
    UpgradeIsolated /\ PreferExclusive => \A u \in Threads : pc[u] \notin {"upgrade", "orderUpgrade"}

CallLock(t)       == Between(t, "idle") /\ Undisturbed /\ Goto(t, "lock")
CallLockShared(t) == Between(t, "idle") /\ Goto(t, "lockShared")
CallOrderLock(t)  == /\ PreferExclusive /\ Undisturbed
                     /\ Between(t, "idle") /\ Goto(t, "orderLock")
CallUpgrade(t) ==
    /\ Upgradeable /\ Between(t, "sharedLocked")
    /\ UpgradeFree(t) /\ Goto(t, "upgrade")
CallOrderUpgrade(t) ==
    /\ PreferExclusive /\ Upgradeable /\ Between(t, "sharedLocked")
    /\ UpgradeIsolated => UpgradeFree(t)
    /\ Goto(t, "orderUpgrade")
CallCompleteOrder(t) ==
    /\ Between(t, "lockOrdered") \/ Between(t, "upgradeOrdered")
    /\ Goto(t, "completeOrder")

Call(t) ==
    /\ \/ CallLock(t) \/ CallLockShared(t) \/ CallOrderLock(t)
       \/ CallUpgrade(t) \/ CallOrderUpgrade(t) \/ CallCompleteOrder(t)
    /\ UNCHANGED <<statusCount, own>>
-----------------------------------------------------------------------------
(***************************************************************************)
(* Correctness.  A thread in the second wait of lock or upgrade has placed *)
(* an order that its Locker does not show yet.                             *)
(***************************************************************************)
Standing(t) == CASE pc[t] = "lockPlaced"    -> "lockOrdered"
                 [] pc[t] = "upgradePlaced" -> "upgradeOrdered"
                 [] OTHER                   -> own[t]

Stand == [t \in Threads |-> Standing(t)]

\* For any assignment st of a status to every thread: the shared owners, the
\* owners and orders that weigh exclusive_, and the upgrade orders, which weigh
\* exclusive_ - 1 beside the share their owner keeps.
Ordered == {"lockOrdered", "upgradeOrdered"}
Shared  == {"sharedLocked", "upgradeOrdered"}
SharersOf(st)   == {t \in Threads : st[t] \in Shared}
HoldersOf(st)   == {t \in Threads : st[t] \in {"lockOrdered", "locked"}}
UpgradersOf(st) == {t \in Threads : st[t] = "upgradeOrdered"}
ShareCount(st)  == Cardinality(SharersOf(st))

Weighs(st, n) ==
    n = ShareCount(st) + (IF HoldersOf(st) = {} THEN 0 ELSE exclusive)
                       + (IF UpgradersOf(st) = {} THEN 0 ELSE exclusive - 1)
\* One order or exclusive owner at most, and an exclusive owner is alone.
OneClaim(st) == \A t, u \in Threads :
    \/ t = u
    \/ st[t] = "idle" \/ st[u] = "idle"
    \/ st[t] = "sharedLocked" /\ st[u] # "locked"
    \/ st[u] = "sharedLocked" /\ st[t] # "locked"
\* No more shared owners than maxShare, and one fewer beside an order.
Room(st) == /\ ShareCount(st) <= MaxShare
            /\ (\E t \in Threads : st[t] \in Ordered) => ShareCount(st) < MaxShare
Consistent(st, n) ==
    /\ st \in [Threads -> LockerStatus] /\ n \in Nat
    /\ Weighs(st, n) /\ OneClaim(st) /\ Room(st)

SharedOwners    == SharersOf(Stand)
Orders          == {t \in Threads : Standing(t) \in Ordered}
ExclusiveOwners == {t \in Threads : Standing(t) = "locked"}

\* The counter alone decides every acquisition: it always equals the shared
\* owners plus the weight of the order or exclusive owner, so that no mix of
\* calls leaves a share or an order behind, or loses one.
CountInv == Weighs(Stand, statusCount)

\* What a thread inside a call owns; and orders exist only when exclusives are
\* preferred.
CallInv == \A t \in Threads :
    /\ pc[t] \in {"lock", "lockShared", "lockSharedUntil", "orderLock"} => own[t] = "idle"
    /\ pc[t] \in {"upgrade", "orderUpgrade"} => own[t] = "sharedLocked"
    /\ pc[t] = "completeOrder" => own[t] \in Ordered
    /\ pc[t] \in {"orderLock", "orderUpgrade"} \/ Standing(t) \in Ordered => PreferExclusive

\* Mutual exclusion: an exclusive owner (by lock, upgrade or a completed
\* order) is alone, no thread sharing the mutex and none having an order.
MutualExclusion ==
    \A t \in ExclusiveOwners : \A u \in Threads \ {t} : Standing(u) = "idle"

\* At most one order stands at a time, the two kinds together.
OneOrder == \A t, u \in Orders : t = u

\* statusCount_ never exceeds maxStatusValue_, from which the code chooses the
\* width of StatusCount_, and the shared owners never exceed maxShare.
CountFits ==
    statusCount <= maxStatus /\ ShareCount(Stand) <= MaxShare

\* What the calls assert of the count, by what their caller owns, in whatever
\* order the other threads move: unlock and downgrade that it is exclusive_,
\* complete and cancel that it is not below exclusive_, unlockShared and
\* tryUpgrade that it is not zero.  The assertion of upgrade and orderUpgrade
\* about the other threads is not among them: it can fail.
AssertionsHold == \A t \in Threads :
    /\ Standing(t) = "locked" => statusCount = exclusive
    /\ Standing(t) \in Ordered => statusCount >= exclusive
    /\ Standing(t) = "sharedLocked" => statusCount >= 1

\* The counter and the waits implement the contract of the mutex.
Contract == INSTANCE SharedMutexContract WITH own <- Stand
ContractSpec == Contract!Spec
=============================================================================
