--------------------------- MODULE SpinMutexProofs ---------------------------
(***************************************************************************)
(* For any number of threads and any maxShare, the spinning Mutex keeps    *)
(* its count consistent with what the threads own and implements           *)
(* SharedMutexContract, deadlines included, provided that tryOrderUpgrade  *)
(* is called only when it can place its order; what its calls assert by    *)
(* what their caller owns holds.  What upgrade and orderUpgrade assert of  *)
(* the other threads can fail, and holds if the callers keep the           *)
(* precondition of upgrade as closely as UpgradeIsolated says.             *)
(***************************************************************************)
EXTENDS SpinMutex, MutexLedger

\* A thread whose order is placed but not yet shown by its Locker: giving up
\* takes back the order, and leaves the thread what it owned before.
Placed == \A t \in Threads :
    /\ pc[t] = "lockPlaced"    => own[t] = "idle"
    /\ pc[t] = "upgradePlaced" => own[t] = "sharedLocked"

\* The inductive invariant.
IInv == TypeOK /\ CallInv /\ Placed /\ Consistent(Stand, statusCount)

\* What every action has to establish: the invariant, and a contract step
\* unless nobody's standing changed.
Good == IInv' /\ (Contract!Next \/ Stand' = Stand)

\* A step of thread t that brings it to a place where its Locker has a status.
Moves(t, where, status) ==
    /\ pc'  = [pc  EXCEPT ![t] = where]
    /\ own' = [own EXCEPT ![t] = status]
    /\ timed' \subseteq Threads

LEMMA InitInv == Init => IInv
<1> SUFFICES ASSUME Init PROVE IInv
    OBVIOUS
<1> USE MaxShareAssumption DEF Init, StateInit
<1>1. TypeOK
    BY DEF TypeOK, LockerStatus
<1>2. CallInv /\ Placed
    BY DEF CallInv, Placed, Standing, Ordered
<1>3. \A t \in Threads : Stand[t] = "idle"
    BY DEF Stand, Standing
<1>4. SharersOf(Stand) = {} /\ HoldersOf(Stand) = {} /\ UpgradersOf(Stand) = {}
    BY <1>3 DEF SharersOf, HoldersOf, UpgradersOf, Shared
<1>5. ShareCount(Stand) = 0
    BY <1>4, FS_EmptySet DEF ShareCount
<1>6. Weighs(Stand, statusCount)
    BY <1>4, <1>5 DEF Weighs
<1>7. OneClaim(Stand) /\ Room(Stand)
    BY <1>3, <1>5 DEF OneClaim, Room, Ordered
<1>8. Stand \in [Threads -> LockerStatus]
    BY DEF Stand, Standing, LockerStatus
<1> QED
    BY <1>1, <1>2, <1>6, <1>7, <1>8 DEF IInv, Consistent
-----------------------------------------------------------------------------
(***************************************************************************)
(* The ways a call can change somebody's standing.                         *)
(***************************************************************************)

\* What is the same for all of them: t moves to a legal place, and the ledger
\* with its new standing is consistent.
LEMMA Move ==
    ASSUME IInv, NEW t \in Threads,
           NEW where \in {"ready", "aborted"} \cup Waits, NEW status \in LockerStatus,
           Moves(t, where, status),
           Consistent([Stand EXCEPT ![t] = Standing(t)'], statusCount'),
           Stand' = [Stand EXCEPT ![t] = Standing(t)'] => Contract!Next \/ Stand' = Stand,
           where \in {"lock", "lockShared", "orderLock", "lockPlaced"} => status = "idle",
           where \in {"upgrade", "orderUpgrade", "upgradePlaced"} => status = "sharedLocked",
           where = "completeOrder" => status \in Ordered,
           where \in {"orderLock", "orderUpgrade"} \/ Standing(t)' \in Ordered => PreferExclusive
    PROVE  Good
<1> USE DEF IInv, TypeOK, Moves
<1>1. /\ pc'[t] = where /\ own'[t] = status
      /\ \A u \in Threads \ {t} : pc'[u] = pc[u] /\ own'[u] = own[u]
    OBVIOUS
<1>2. Stand' = [Stand EXCEPT ![t] = Standing(t)']
    BY <1>1, StandChange
<1>3. Consistent(Stand, statusCount)'
    BY <1>2 DEF Consistent, Weighs, OneClaim, Room, ShareCount, SharersOf, HoldersOf, UpgradersOf
<1>4. TypeOK'
    BY <1>3 DEF Consistent
<1>5. CallInv' /\ Placed'
    <2>1. where # "lockSharedUntil"
        BY DEF Waits
    <2>2. \A u \in Threads \ {t} : Standing(u)' = Standing(u)
        BY <1>1 DEF Standing
    <2> QED
        BY <1>1, <2>1, <2>2 DEF CallInv, Placed
<1> QED
    BY <1>2, <1>3, <1>4, <1>5 DEF Good

\* A step that changes neither the count nor what t owns or has ordered.
LEMMA Quiet ==
    ASSUME IInv, NEW t \in Threads, NEW where \in {"ready", "aborted"} \cup Waits,
           Moves(t, where, own[t]), statusCount' = statusCount, Standing(t)' = Standing(t),
           where \in {"lock", "lockShared", "orderLock", "lockPlaced"} => own[t] = "idle",
           where \in {"upgrade", "orderUpgrade", "upgradePlaced"} => own[t] = "sharedLocked",
           where = "completeOrder" => own[t] \in Ordered,
           where \in {"orderLock", "orderUpgrade"} => PreferExclusive
    PROVE  Good
<1>1. [Stand EXCEPT ![t] = Standing(t)'] = Stand
    BY DEF Stand
<1>2. own[t] \in LockerStatus
    BY DEF IInv, TypeOK
<1>3. Standing(t)' \in Ordered => PreferExclusive
    BY DEF IInv, CallInv
<1>4. Consistent(Stand, statusCount')
    BY DEF IInv
<1> QED
    BY <1>1, <1>2, <1>3, <1>4, Move

LEMMA ShareGood ==
    ASSUME IInv, NEW t \in Threads, Standing(t) = "idle",
           statusCount < exclusive, statusCount' = statusCount + 1,
           Moves(t, "ready", "sharedLocked")
    PROVE  Good
<1>1. Standing(t)' = "sharedLocked" /\ Stand[t] = "idle"
    BY DEF Standing, Stand, Moves, IInv, TypeOK
<1>2. Consistent(Stand, statusCount)
    BY DEF IInv
<1>3. Consistent([Stand EXCEPT ![t] = Standing(t)'], statusCount')
    BY <1>1, <1>2, ShareOne
<1>4. Stand' = [Stand EXCEPT ![t] = Standing(t)'] => Contract!Next
    BY <1>1, <1>2, ContractShare
<1> QED
    BY <1>1, <1>3, <1>4, Move DEF Ordered, LockerStatus

LEMMA OrderGood ==
    ASSUME IInv, NEW t \in Threads, PreferExclusive, statusCount < exclusive,
           NEW w, statusCount' = statusCount + w,
           NEW where, NEW status, Moves(t, where, status),
           \/ /\ Standing(t) = "idle" /\ w = exclusive
              /\ \/ where = "ready" /\ status = "lockOrdered"
                 \/ where = "lockPlaced" /\ status = "idle"
           \/ /\ Standing(t) = "sharedLocked" /\ w = exclusive - 1
              /\ \/ where = "ready" /\ status = "upgradeOrdered"
                 \/ where = "upgradePlaced" /\ status = "sharedLocked"
    PROVE  Good
<1>1. Stand[t] = Standing(t)
    BY DEF Stand
<1>2. pc'[t] = where /\ own'[t] = status
    BY DEF Moves, IInv, TypeOK
<1>3. Standing(t)' = IF Standing(t) = "idle" THEN "lockOrdered" ELSE "upgradeOrdered"
    BY <1>2 DEF Standing
<1>4. Consistent(Stand, statusCount)
    BY DEF IInv
<1>5. Consistent([Stand EXCEPT ![t] = Standing(t)'], statusCount')
    BY <1>1, <1>3, <1>4, OrderOne
<1>6. Stand' = [Stand EXCEPT ![t] = Standing(t)'] => Contract!Next
    BY <1>1, <1>3, <1>4, ContractOrder
<1>7. where \in {"ready"} \cup Waits /\ status \in LockerStatus
    BY DEF Waits, LockerStatus
<1> QED
    BY <1>5, <1>6, <1>7, Move

\* What the count tells a thread that takes exclusive ownership.
LEMMA LockGood ==
    ASSUME IInv, NEW t \in Threads, statusCount' = exclusive, Moves(t, "ready", "locked"),
           \/ statusCount = 0 /\ Standing(t) = "idle"
           \/ statusCount = 1 /\ Standing(t) = "sharedLocked"
           \/ statusCount = exclusive /\ Standing(t) \in Ordered
    PROVE  Good
<1>1. Standing(t)' = "locked" /\ Stand[t] = Standing(t)
    BY DEF Standing, Stand, Moves, IInv, TypeOK
<1>2. Consistent(Stand, statusCount)
    BY DEF IInv
<1>3. \A u \in Threads \ {t} : Stand[u] = "idle"
    BY <1>1, <1>2, AtZero, OnlySharer, OrderAlone
<1>4. Consistent([Stand EXCEPT ![t] = Standing(t)'], statusCount')
    BY <1>1, <1>2, <1>3, Alone
<1>5. Stand[t] \in LockerStatus \ {"locked"}
    BY <1>1, <1>2 DEF Consistent, Ordered
<1>6. Stand' = [Stand EXCEPT ![t] = Standing(t)'] => Contract!Next
    BY <1>1, <1>3, <1>5, ContractLock
<1> QED
    BY <1>1, <1>4, <1>6, Move DEF Ordered, LockerStatus

\* Whatever a thread gives back or cancels, by a call of its own or at the
\* deadline of the call it is inside of.
LEMMA GiveBackGood ==
    ASSUME IInv, NEW t \in Threads, NEW status, Moves(t, "ready", status),
           \/ Standing(t) = "locked" /\ status = "idle" /\ statusCount' = 0
           \/ Standing(t) = "locked" /\ status = "sharedLocked" /\ statusCount' = 1
           \/ Standing(t) = "sharedLocked" /\ status = "idle" /\ statusCount' = statusCount - 1
           \/ Standing(t) = "lockOrdered" /\ status = "idle" /\ statusCount' = statusCount - exclusive
           \/ Standing(t) = "upgradeOrdered" /\ status = "sharedLocked"
              /\ statusCount' = statusCount - (exclusive - 1)
    PROVE  Good
<1>1. Standing(t)' = status /\ Stand[t] = Standing(t)
    BY DEF Standing, Stand, Moves, IInv, TypeOK
<1>2. Consistent(Stand, statusCount)
    BY DEF IInv
<1>3. Consistent([Stand EXCEPT ![t] = Standing(t)'], statusCount')
    <2>1. CASE Standing(t) = "locked"
        <3>1. \A u \in Threads \ {t} : Stand[u] = "idle"
            BY <1>1, <1>2, <2>1, LockedAlone
        <3> QED
            BY <1>1, <1>2, <2>1, <3>1, Alone
    <2>2. CASE Standing(t) = "sharedLocked"
        BY <1>1, <1>2, <2>2, UnshareOne
    <2>3. CASE Standing(t) \in Ordered
        BY <1>1, <1>2, <2>3, CancelOne DEF Ordered
    <2> QED
        BY <2>1, <2>2, <2>3 DEF Ordered
<1>4. Stand' = [Stand EXCEPT ![t] = Standing(t)'] => Contract!Next
    BY <1>1, ContractGiveBack
<1>5. status \in LockerStatus /\ Standing(t)' \notin Ordered
    BY <1>1 DEF Ordered, LockerStatus
<1> QED
    BY <1>3, <1>4, <1>5, Move
-----------------------------------------------------------------------------
(***************************************************************************)
(* The actions.                                                            *)
(***************************************************************************)

\* Entering a call, with a deadline or without.
LEMMA CallGood ==
    ASSUME IInv, NEW t \in Threads, (Call(t) /\ UNCHANGED timed) \/ CallUntil(t)
    PROVE  Good
<1> USE DEF IInv, TypeOK
<1>1. PICK where \in {"lock", "lockShared", "orderLock", "upgrade", "orderUpgrade", "completeOrder"} :
          /\ Goto(t, where)
          /\ where \in {"lock", "lockShared", "orderLock"} => own[t] = "idle"
          /\ where \in {"upgrade", "orderUpgrade"} => own[t] = "sharedLocked"
          /\ where = "completeOrder" => own[t] \in Ordered
          /\ where \in {"orderLock", "orderUpgrade"} => PreferExclusive
    BY DEF Call, CallLock, CallLockShared, CallOrderLock, CallUpgrade, CallOrderUpgrade,
           CallCompleteOrder, CallUntil, CallTryLockUntil, CallTryLockSharedUntil, CallTryUpgradeUntil,
           Between, Ordered
<1>2. pc[t] = "ready" /\ UNCHANGED <<statusCount, own>> /\ timed' \subseteq Threads
    BY DEF Call, CallLock, CallLockShared, CallOrderLock, CallUpgrade, CallOrderUpgrade,
           CallCompleteOrder, CallUntil, CallTryLockUntil, CallTryLockSharedUntil, CallTryUpgradeUntil,
           Between
<1>3. Moves(t, where, own[t])
    BY <1>1, <1>2 DEF Moves, Goto
<1>4. Standing(t)' = Standing(t)
    BY <1>2, <1>3 DEF Standing, Moves
<1>5. where \in {"ready", "aborted"} \cup Waits /\ where # "lockPlaced" /\ where # "upgradePlaced"
    BY DEF Waits
<1> QED
    BY <1>1, <1>2, <1>3, <1>4, <1>5, Quiet

\* lockShared and tryLockShared.
LEMMA SharersGood ==
    ASSUME IInv, NEW t \in Threads,
           \/ LockShared(t) /\ Expire
           \/ TryLockShared(t) /\ UNCHANGED <<pc, timed>>
    PROVE  Good
<1> USE DEF IInv, TypeOK
<1>1. Standing(t) = "idle"
    BY DEF LockShared, TryLockShared, Between, CallInv, Standing
<1>2. statusCount < exclusive /\ statusCount' = statusCount + 1
    BY DEF LockShared, TryLockShared, Admits, Count
<1>3. Moves(t, "ready", "sharedLocked")
    BY DEF LockShared, TryLockShared, Between, Return, Goto, Become, Moves, Expire
<1> QED
    BY <1>1, <1>2, <1>3, ShareGood

\* orderLock, orderUpgrade and their try forms.
LEMMA OrderersGood ==
    ASSUME IInv, CheckedTryOrder, NEW t \in Threads,
           \/ (OrderLock(t) \/ OrderUpgrade(t)) /\ Expire
           \/ (TryOrderLock(t) \/ TryOrderUpgrade(t)) /\ UNCHANGED <<pc, timed>>
    PROVE  Good
<1> USE DEF IInv, TypeOK
<1>1. statusCount < exclusive /\ PreferExclusive
    BY DEF OrderLock, OrderUpgrade, TryOrderLock, TryOrderUpgrade, Admits, CallInv
<1>2. CASE OrderLock(t) \/ TryOrderLock(t)
    <2>1. Standing(t) = "idle" /\ statusCount' = statusCount + exclusive
        BY <1>2 DEF OrderLock, TryOrderLock, Between, CallInv, Standing, Count
    <2>2. Moves(t, "ready", "lockOrdered")
        BY <1>2 DEF OrderLock, OrderUpgrade, TryOrderLock, TryOrderUpgrade, Between, Return, Goto,
                    Become, Moves, Expire
    <2> QED
        BY <1>1, <2>1, <2>2, OrderGood
<1>3. CASE OrderUpgrade(t) \/ TryOrderUpgrade(t)
    <2>1. Standing(t) = "sharedLocked" /\ statusCount' = statusCount + (exclusive - 1)
        BY <1>1, <1>3 DEF OrderUpgrade, TryOrderUpgrade, Between, CallInv, Standing, Count
    <2>2. Moves(t, "ready", "upgradeOrdered")
        BY <1>3 DEF OrderLock, OrderUpgrade, TryOrderLock, TryOrderUpgrade, Between, Return, Goto,
                    Become, Moves, Expire
    <2> QED
        BY <1>1, <2>1, <2>2, OrderGood
<1> QED
    BY <1>2, <1>3

\* tryLock, tryUpgrade, and the end of every order.
LEMMA TakersGood ==
    ASSUME IInv, NEW t \in Threads,
           \/ FinishOrder(t) /\ Expire
           \/ (TryLock(t) \/ TryUpgrade(t) \/ TryCompleteOrder(t)) /\ UNCHANGED <<pc, timed>>
    PROVE  Good
<1> USE DEF IInv, TypeOK
<1>1. Moves(t, "ready", "locked")
    BY DEF TryLock, TryUpgrade, FinishOrder, TryCompleteOrder, Between, Return, Goto, Become,
           Moves, Expire
<1>2. CASE FinishOrder(t) \/ TryCompleteOrder(t)
    <2>1. statusCount = exclusive /\ statusCount' = exclusive
        BY <1>2 DEF FinishOrder, TryCompleteOrder, Admits
    <2>2. Standing(t) \in Ordered
        BY <1>2 DEF FinishOrder, TryCompleteOrder, Between, Standing, CallInv, Ordered
    <2> QED
        BY <1>1, <2>1, <2>2, LockGood
<1>3. CASE TryLock(t) \/ TryUpgrade(t)
    <2>1. \/ statusCount = 0 /\ Standing(t) = "idle"
          \/ statusCount = 1 /\ Standing(t) = "sharedLocked"
        BY <1>3 DEF TryLock, TryUpgrade, Between, Standing
    <2>2. statusCount' = exclusive
        BY <1>3 DEF TryLock, TryUpgrade, Count
    <2> QED
        BY <1>1, <2>1, <2>2, LockGood
<1> QED
    BY <1>2, <1>3

\* lock and upgrade with exclusives preferred.
LEMMA PlaceGood ==
    ASSUME IInv, NEW t \in Threads, PreferExclusive, statusCount < exclusive,
           NEW w, NEW placed, PlaceOrSpin(t, w, placed), Expire, pc[t] \in {"lock", "upgrade"},
           \/ own[t] = "idle" /\ placed = "lockPlaced" /\ w = exclusive
           \/ own[t] = "sharedLocked" /\ placed = "upgradePlaced" /\ w = exclusive - 1
    PROVE  Good
<1> USE MaxShareAssumption DEF exclusive, IInv, TypeOK
<1>1. Standing(t) = own[t] /\ statusCount' = statusCount + w
    BY DEF Standing, PlaceOrSpin, Count
<1>2. CASE statusCount' = exclusive
    <2>1. \/ statusCount = 0 /\ Standing(t) = "idle"
          \/ statusCount = 1 /\ Standing(t) = "sharedLocked"
        BY <1>1, <1>2
    <2>2. Moves(t, "ready", "locked")
        BY <1>2 DEF PlaceOrSpin, Return, Goto, Become, Moves, Expire
    <2> QED
        BY <1>2, <2>1, <2>2, LockGood
<1>3. CASE statusCount' # exclusive
    <2>1. Moves(t, placed, own[t])
        BY <1>3 DEF PlaceOrSpin, Goto, Moves, Expire
    <2> QED
        BY <1>1, <2>1, OrderGood
<1> QED
    BY <1>2, <1>3

LEMMA ExclusivesGood ==
    ASSUME IInv, NEW t \in Threads, Lock(t) \/ Upgrade(t), Expire
    PROVE  Good
<1> USE DEF IInv, TypeOK
<1>1. /\ pc[t] \in {"lock", "upgrade"}
      /\ Lock(t) => pc[t] = "lock" /\ own[t] = "idle"
      /\ Upgrade(t) => pc[t] = "upgrade" /\ own[t] = "sharedLocked"
    BY DEF Lock, Upgrade, CallInv
<1>2. CASE PreferExclusive
    <2>1. statusCount < exclusive
        BY <1>2 DEF Lock, Upgrade, Admits
    <2>2. CASE Lock(t)
        BY <1>1, <1>2, <2>1, <2>2, PlaceGood DEF Lock
    <2>3. CASE Upgrade(t)
        BY <1>1, <1>2, <2>1, <2>3, PlaceGood DEF Upgrade
    <2> QED
        BY <2>2, <2>3
<1>3. CASE ~PreferExclusive
    <2>1. Moves(t, "ready", "locked") /\ statusCount' = exclusive
        BY <1>3 DEF Lock, Upgrade, Return, Goto, Become, Moves, Expire, Count
    <2>2. Standing(t) = own[t]
        BY <1>1 DEF Standing
    <2>3. \/ statusCount = 0 /\ Standing(t) = "idle"
          \/ statusCount = 1 /\ Standing(t) = "sharedLocked"
        BY <1>1, <1>3, <2>2 DEF Lock, Upgrade, Admits
    <2> QED
        BY <2>1, <2>3, LockGood
<1> QED
    BY <1>2, <1>3

\* unlock, unlockShared, downgrade and the cancels.
LEMMA GiversGood ==
    ASSUME IInv, NEW t \in Threads, GiveBack(t)
    PROVE  Good
<1> USE DEF IInv, TypeOK
<1>1. PICK status \in {"idle", "sharedLocked"} :
          /\ Become(t, status)
          /\ \/ own[t] = "locked" /\ status = "idle" /\ statusCount' = 0
             \/ own[t] = "locked" /\ status = "sharedLocked" /\ statusCount' = 1
             \/ own[t] = "sharedLocked" /\ status = "idle" /\ statusCount' = statusCount - 1
             \/ own[t] = "lockOrdered" /\ status = "idle" /\ statusCount' = statusCount - exclusive
             \/ own[t] = "upgradeOrdered" /\ status = "sharedLocked"
                /\ statusCount' = statusCount - (exclusive - 1)
    BY DEF GiveBack, Unlock, UnlockShared, Downgrade, CancelLockOrder, CancelUpgradeOrder,
           Between, Count
<1>2. pc[t] = "ready" /\ UNCHANGED <<pc, timed>>
    BY DEF GiveBack, Unlock, UnlockShared, Downgrade, CancelLockOrder, CancelUpgradeOrder, Between
<1>3. Moves(t, "ready", status)
    BY <1>1, <1>2 DEF Moves, Become
<1>4. Standing(t) = own[t]
    BY <1>2 DEF Standing
<1> QED
    BY <1>1, <1>3, <1>4, GiveBackGood

\* The deadline, which takes back an order that was placed.
LEMMA GiveUpGood ==
    ASSUME IInv, NEW t \in Threads, GiveUp(t), Expire
    PROVE  Good
<1> USE DEF IInv, TypeOK
<1>1. Moves(t, "ready", own[t])
    BY DEF GiveUp, Goto, Moves, Expire
<1>2. CASE UNCHANGED statusCount /\ pc[t] \in {"lock", "lockShared", "upgrade"}
    <2>1. Standing(t)' = Standing(t)
        BY <1>1, <1>2 DEF Standing, Moves
    <2> QED
        BY <1>1, <1>2, <2>1, Quiet
<1>3. CASE pc[t] = "lockPlaced" /\ statusCount' = statusCount - exclusive
    <2>1. Standing(t) = "lockOrdered" /\ own[t] = "idle"
        BY <1>3 DEF Standing, Placed
    <2> QED
        BY <1>1, <1>3, <2>1, GiveBackGood
<1>4. CASE pc[t] = "upgradePlaced" /\ statusCount' = statusCount - (exclusive - 1)
    <2>1. Standing(t) = "upgradeOrdered" /\ own[t] = "sharedLocked"
        BY <1>4 DEF Standing, Placed
    <2> QED
        BY <1>1, <1>4, <2>1, GiveBackGood
<1> QED
    BY <1>2, <1>3, <1>4 DEF GiveUp, Count

\* The assertion that fails changes no count.
LEMMA AbortGood ==
    ASSUME IInv, NEW t \in Threads, UpgradeAborts(t), Expire
    PROVE  Good
<1> USE DEF IInv, TypeOK
<1>1. Moves(t, "aborted", own[t]) /\ statusCount' = statusCount
    BY DEF UpgradeAborts, Goto, Moves, Expire
<1>2. Standing(t)' = Standing(t)
    BY <1>1 DEF Standing, Moves, UpgradeAborts
<1> QED
    BY <1>1, <1>2, Quiet

\* Every step keeps the invariant and is a step of the contract or stutters.
LEMMA NextGood ==
    ASSUME IInv, CheckedTryOrder, [Next]_vars
    PROVE  Good
<1>1. CASE UNCHANGED vars
    <2>1. Stand' = Stand
        BY <1>1 DEF vars, Stand, Standing
    <2>2. TypeOK' /\ CallInv' /\ Placed'
        BY <1>1 DEF vars, IInv, TypeOK, CallInv, Placed, Standing
    <2>3. Consistent(Stand, statusCount)'
        BY <1>1, <2>1 DEF vars, IInv, Consistent, Weighs, OneClaim, Room, ShareCount,
                          SharersOf, HoldersOf, UpgradersOf
    <2> QED
        BY <2>1, <2>2, <2>3 DEF Good, IInv
<1>2. ASSUME NEW t \in Threads,
             \/ Call(t) /\ UNCHANGED timed
             \/ CallUntil(t) \/ Proceed(t) \/ Try(t) \/ GiveBack(t)
      PROVE  Good
    <2>1. CASE (Call(t) /\ UNCHANGED timed) \/ CallUntil(t)
        BY <2>1, CallGood
    <2>2. CASE Proceed(t)
        <3>1. CASE (Lock(t) \/ Upgrade(t)) /\ Expire
            BY <3>1, ExclusivesGood
        <3>2. CASE FinishOrder(t) /\ Expire
            BY <3>2, TakersGood
        <3>3. CASE LockShared(t) /\ Expire
            BY <3>3, SharersGood
        <3>4. CASE (OrderLock(t) \/ OrderUpgrade(t)) /\ Expire
            BY <3>4, OrderersGood
        <3>5. CASE GiveUp(t) /\ Expire
            BY <3>5, GiveUpGood
        <3>6. CASE UpgradeAborts(t) /\ Expire
            BY <3>6, AbortGood
        <3> QED
            BY <2>2, <3>1, <3>2, <3>3, <3>4, <3>5, <3>6 DEF Proceed
    <2>3. CASE Try(t)
        BY <2>3, TakersGood, SharersGood, OrderersGood DEF Try
    <2>4. CASE GiveBack(t)
        BY <2>4, GiversGood
    <2> QED
        BY <1>2, <2>1, <2>2, <2>3, <2>4
<1> QED
    BY <1>1, <1>2 DEF Next
-----------------------------------------------------------------------------
(***************************************************************************)
(* The theorems.                                                           *)
(***************************************************************************)

\* Whatever calls the threads make in whatever order, deadlines included, the
\* count agrees with what they own.
LEMMA Invariance ==
    ASSUME CheckedTryOrder
    PROVE  Spec => []IInv
<1>1. IInv /\ [Next]_vars => IInv'
    BY NextGood DEF Good
<1> QED
    BY <1>1, InitInv, PTL DEF Spec

\* The count equals the shares plus the weight of the order or the exclusive
\* owner: a timed call that gives up in its second wait takes its order back.
THEOREM SpinningCountHolds ==
    ASSUME CheckedTryOrder
    PROVE  Spec => []CountInv
<1>1. IInv => CountInv
    BY DEF IInv, Consistent, CountInv
<1> QED
    BY <1>1, Invariance, PTL

\* The spinning Mutex implements the contract: every step changes what the
\* threads own as one call of the contract may, or not at all.
THEOREM SpinningImplements ==
    ASSUME CheckedTryOrder
    PROVE  Spec => ContractSpec
<1>1. Init => Contract!Init
    BY DEF Init, StateInit, Contract!Init, Stand, Standing
<1>2. IInv /\ [Next]_vars => [Contract!Next]_Stand
    BY NextGood DEF Good
<1> QED
    BY <1>1, <1>2, Invariance, PTL DEF Spec, ContractSpec, Contract!Spec

\* What the assertions test of the count follows from what the count stands for.
LEMMA AssertionsFromInv ==
    ASSUME IInv
    PROVE  AssertionsHold
<1> USE MaxShareAssumption DEF exclusive
<1>1. Consistent(Stand, statusCount) /\ ShareCount(Stand) \in Nat
    BY SharersFinite DEF IInv
<1>2. SUFFICES ASSUME NEW t \in Threads
      PROVE  /\ Standing(t) = "locked" => statusCount = exclusive
             /\ Standing(t) \in Ordered => statusCount >= exclusive
             /\ Standing(t) = "sharedLocked" => statusCount >= 1
    BY DEF AssertionsHold
<1>3. Stand[t] = Standing(t)
    BY DEF Stand
<1>4. Standing(t) = "locked" => statusCount = exclusive
    BY <1>1, <1>3, LockedAlone
<1>5. Standing(t) \in Ordered => statusCount >= exclusive
    <2>1. CASE Standing(t) = "lockOrdered"
        <3>1. HoldersOf(Stand) # {}
            BY <1>3, <2>1 DEF HoldersOf
        <3> QED
            BY <1>1, <3>1 DEF Consistent, Weighs
    <2>2. CASE Standing(t) = "upgradeOrdered"
        <3>1. UpgradersOf(Stand) # {} /\ ShareCount(Stand) >= 1
            BY <1>3, <2>2, SharerCounted DEF UpgradersOf, Shared
        <3> QED
            BY <1>1, <3>1 DEF Consistent, Weighs
    <2> QED
        BY <2>1, <2>2 DEF Ordered
<1>6. Standing(t) = "sharedLocked" => statusCount >= 1
    <2>1. Standing(t) = "sharedLocked" => ShareCount(Stand) >= 1
        BY <1>3, SharerCounted DEF Shared
    <2> QED
        BY <1>1, <2>1 DEF Consistent, Weighs
<1> QED
    BY <1>4, <1>5, <1>6

\* unlock, downgrade, complete, cancel, unlockShared and tryUpgrade find the
\* count as they assert it to be, however the threads interleave.
THEOREM SpinningAssertionsHold ==
    ASSUME CheckedTryOrder
    PROVE  Spec => []AssertionsHold
<1> QED
    BY Invariance, AssertionsFromInv, PTL

\* While a thread is in the first wait of upgrade, or in that of orderUpgrade,
\* nobody else has an order, or is inside of a call that places one.
Placing == {"lock", "lockPlaced", "orderLock", "upgrade", "upgradePlaced", "orderUpgrade"}
UpgradeAlone == PreferExclusive => \A t \in Threads : pc[t] \in {"upgrade", "orderUpgrade"} =>
    \A u \in Threads \ {t} : pc[u] \notin Placing /\ own[u] \notin Ordered

\* Threads that keep the precondition of upgrade closely keep it so.
LEMMA AloneStays ==
    ASSUME UpgradeIsolated, IInv, UpgradeAlone, [Next]_vars
    PROVE  UpgradeAlone'
<1>1. SUFFICES ASSUME PreferExclusive, NEW t \in Threads, pc'[t] \in {"upgrade", "orderUpgrade"},
                      NEW u \in Threads \ {t}
      PROVE  pc'[u] \notin Placing /\ own'[u] \notin Ordered
    BY DEF UpgradeAlone
<1> USE DEF TypeOK, IInv, Placing
<1>2. CASE UNCHANGED vars
    BY <1>1, <1>2 DEF vars, UpgradeAlone
<1>3. ASSUME NEW v \in Threads,
             \/ Call(v) /\ UNCHANGED timed
             \/ CallUntil(v) \/ Proceed(v) \/ Try(v) \/ GiveBack(v)
      PROVE  pc'[u] \notin Placing /\ own'[u] \notin Ordered
    <2> USE DEF Between, Goto, Become, Return, Ordered
    <2>1. CASE Call(v) \/ CallUntil(v)
        <3>1. own' = own /\ \E where \in Waits : pc' = [pc EXCEPT ![v] = where]
            BY <2>1 DEF Call, CallUntil, CallTryLockUntil, CallTryLockSharedUntil, CallTryUpgradeUntil,
                        CallLock, CallLockShared, CallOrderLock, CallUpgrade,
                        CallOrderUpgrade, CallCompleteOrder, Waits
        <3>2. CASE v = t
            <4>1. CallUpgrade(t) \/ CallOrderUpgrade(t)
                BY <1>1, <2>1, <3>2 DEF Call, CallUntil, CallTryLockUntil, CallTryLockSharedUntil, CallTryUpgradeUntil,
                                        CallLock, CallLockShared, CallOrderLock,
                                        CallCompleteOrder
            <4>2. UpgradeFree(t)
                BY <4>1 DEF CallUpgrade, CallOrderUpgrade
            <4>3. ~Upgrading(u) /\ ~Seeking(u)
                BY <1>1, <4>2 DEF UpgradeFree
            <4>4. pc'[u] = pc[u]
                BY <1>1, <3>1, <3>2
            <4> QED
                BY <1>1, <3>1, <4>3, <4>4 DEF Upgrading, Seeking
        <3>3. CASE v # t
            <4>1. pc[t] \in {"upgrade", "orderUpgrade"} /\ own[u] \notin Ordered
                BY <1>1, <3>1, <3>3 DEF UpgradeAlone
            <4>2. ~Undisturbed /\ ~UpgradeFree(v)
                BY <1>1, <3>3, <4>1 DEF Undisturbed, UpgradeFree, Upgrading
            <4>3. CallLockShared(v) \/ Goto(v, "lockShared") \/ CallCompleteOrder(v)
                BY <2>1, <4>2 DEF Call, CallUntil, CallTryLockUntil, CallTryLockSharedUntil, CallTryUpgradeUntil,
                                  CallLock, CallOrderLock, CallUpgrade, CallOrderUpgrade
            <4> QED
                BY <1>1, <3>1, <3>3, <4>1, <4>3 DEF CallLockShared, CallCompleteOrder, UpgradeAlone
        <3> QED
            BY <3>2, <3>3
    <2>2. CASE Proceed(v)
        <3>1. pc[v] # "ready" /\ \E where \in {"ready", "aborted", "lockPlaced", "upgradePlaced"} :
                                    pc' = [pc EXCEPT ![v] = where]
            BY <2>2 DEF Proceed, Lock, Upgrade, UpgradeAborts, FinishOrder, LockShared, OrderLock,
                        OrderUpgrade, GiveUp, PlaceOrSpin
        <3>2. v # t /\ pc[t] \in {"upgrade", "orderUpgrade"}
            BY <1>1, <3>1
        <3>3. pc[v] \notin Placing
            BY <1>1, <3>2 DEF UpgradeAlone
        <3>4. own' = own \/ \E status \in {"locked", "sharedLocked"} : own' = [own EXCEPT ![v] = status]
            BY <2>2, <3>3 DEF Proceed, Lock, Upgrade, UpgradeAborts, FinishOrder, LockShared, OrderLock,
                              OrderUpgrade, GiveUp
        <3>5. pc'[v] = "ready"
            BY <2>2, <3>3 DEF Proceed, Lock, Upgrade, UpgradeAborts, FinishOrder, LockShared, OrderLock,
                              OrderUpgrade, GiveUp
        <3> QED
            BY <1>1, <3>1, <3>2, <3>4, <3>5 DEF UpgradeAlone
    <2>3. CASE Try(v) \/ GiveBack(v)
        <3>1. pc' = pc /\ ~Undisturbed
            BY <1>1, <2>3 DEF Try, GiveBack, Undisturbed
        <3>2. \E status \in LockerStatus \ Ordered : own' = [own EXCEPT ![v] = status]
            BY <2>3, <3>1 DEF Try, TryLock, TryLockShared, TryUpgrade, TryOrderLock, TryOrderUpgrade,
                TryCompleteOrder, GiveBack, Unlock, UnlockShared, Downgrade, CancelLockOrder,
                CancelUpgradeOrder, LockerStatus
        <3> QED
            BY <1>1, <3>1, <3>2 DEF UpgradeAlone
    <2> QED
        BY <1>3, <2>1, <2>2, <2>3
<1> QED
    BY <1>2, <1>3 DEF Next

\* The count a thread asserts about then holds shares only, of which there are
\* at most maxShare.
LEMMA AloneAsserts ==
    ASSUME IInv, UpgradeAlone, NEW t \in Threads, UpgradeAborts(t)
    PROVE  FALSE
<1> USE MaxShareAssumption DEF exclusive
<1>1. Consistent(Stand, statusCount) /\ ShareCount(Stand) \in Nat
    BY SharersFinite DEF IInv
<1>2. PreferExclusive /\ pc[t] \in {"upgrade", "orderUpgrade"} /\ statusCount > exclusive
    BY DEF UpgradeAborts
<1>3. Stand[t] = "sharedLocked"
    BY <1>2 DEF IInv, CallInv, Stand, Standing
<1>4. ASSUME NEW u \in Threads PROVE Stand[u] \notin {"lockOrdered", "upgradeOrdered", "locked"}
    <2>1. CASE u = t
        BY <1>3, <2>1
    <2>2. CASE u # t
        <3>1. Stand[u] = own[u] /\ own[u] \notin Ordered
            BY <1>2, <2>2 DEF UpgradeAlone, Placing, Stand, Standing
        <3>2. Stand[u] # "locked"
            BY <1>1, <1>3, <2>2 DEF Consistent, OneClaim
        <3> QED
            BY <3>1, <3>2 DEF Ordered
    <2> QED
        BY <2>1, <2>2
<1>5. HoldersOf(Stand) = {} /\ UpgradersOf(Stand) = {}
    BY <1>4 DEF HoldersOf, UpgradersOf
<1> QED
    BY <1>1, <1>2, <1>5 DEF Consistent, Weighs, Room

\* The assertion of upgrade, tryUpgradeUntil and orderUpgrade holds if no
\* thread asks for an order of either kind while another is in its first wait
\* for an upgrade: more than mutex.md asks of them.
THEOREM IsolatedUpgradesNeverAbort ==
    ASSUME CheckedTryOrder, UpgradeIsolated
    PROVE  Spec => []UpgradeAssertionHolds
<1>1. Init => UpgradeAlone /\ Running
    BY DEF Init, StateInit, UpgradeAlone, Running
<1>2. IInv /\ UpgradeAlone /\ [Next]_vars => UpgradeAlone'
    BY AloneStays
<1>3. IInv /\ UpgradeAlone /\ Running /\ [Next]_vars => Running'
    <2>1. SUFFICES ASSUME IInv, UpgradeAlone, Running, [Next]_vars PROVE Running'
        OBVIOUS
    <2> USE DEF IInv, TypeOK, Goto, Return, PlaceOrSpin
    <2>2. CASE UNCHANGED vars
        BY <2>1, <2>2 DEF vars, Running
    <2>3. ASSUME NEW v \in Threads,
                 \/ Call(v) /\ UNCHANGED timed
                 \/ CallUntil(v) \/ Proceed(v) \/ Try(v) \/ GiveBack(v)
          PROVE  \E where \in {"ready"} \cup Waits : pc' = [pc EXCEPT ![v] = where]
        <3>1. CASE Call(v) \/ CallUntil(v)
            BY <3>1 DEF Call, CallUntil, CallTryLockUntil, CallTryLockSharedUntil, CallTryUpgradeUntil,
                        CallLock, CallLockShared, CallOrderLock, CallUpgrade,
                        CallOrderUpgrade, CallCompleteOrder, Waits
        <3>2. CASE Proceed(v)
            <4>1. ~UpgradeAborts(v)
                BY <2>1, AloneAsserts
            <4> QED
                BY <3>2, <4>1 DEF Proceed, Lock, Upgrade, FinishOrder, LockShared, OrderLock,
                                  OrderUpgrade, GiveUp, Waits
        <3>3. CASE Try(v) \/ GiveBack(v)
            <4>1. pc' = pc /\ pc[v] = "ready"
                BY <3>3 DEF Try, GiveBack, Between, TryLock, TryLockShared, TryUpgrade, TryOrderLock,
                    TryOrderUpgrade, TryCompleteOrder, Unlock, UnlockShared, Downgrade,
                    CancelLockOrder, CancelUpgradeOrder
            <4> QED
                BY <2>1, <4>1
        <3> QED
            BY <2>3, <3>1, <3>2, <3>3
    <2> QED
        BY <2>1, <2>2, <2>3 DEF Next, Running, Waits
<1> QED
    BY <1>1, <1>2, <1>3, Invariance, PTL DEF Spec, UpgradeAssertionHolds
=============================================================================
