------------------------- MODULE FlexibleMutexProofs -------------------------
(***************************************************************************)
(* For any number of threads and any maxShare, the condition-variable      *)
(* Mutex keeps its invariants and implements SharedMutexContract.          *)
(*                                                                         *)
(* IInv is inductive: what a call tests on statusCount tells it what every *)
(* thread owns only because the count is consistent with that, and what a  *)
(* waiting thread owned when it entered its call (CallInv) tells by how    *)
(* much the count has to change.                                           *)
(*                                                                         *)
(* The last part is about wakeups.                                         *)
(***************************************************************************)
EXTENDS TimedFlexibleMutex, MCFlexibleMutex, MutexLedger

\* What every action has to establish: the invariant, and a contract step
\* unless nobody's standing changed.
Good == IInv' /\ (Contract!Next \/ Stand' = Stand)

\* The locals of a step of thread t: nobody else's call or Locker changes.
OnlyMoves(t) == \A u \in Threads \ {t} : pc'[u] = pc[u] /\ own'[u] = own[u]

\* CallInv survives a step of t that brings t to a legal place of its own.
LEMMA CallStep ==
    ASSUME CallInv, NEW t \in Threads, OnlyMoves(t),
           pc'[t] \in {"lock", "lockShared", "lockSharedUntil", "orderLock"} => own'[t] = "idle",
           pc'[t] \in {"upgrade", "orderUpgrade"} => own'[t] = "sharedLocked",
           pc'[t] = "completeOrder" => own'[t] \in Ordered,
           pc'[t] \in {"orderLock", "orderUpgrade"} \/ Standing(t)' \in Ordered
               => PreferExclusive
    PROVE  CallInv'
BY DEF CallInv, OnlyMoves, Standing

\* A step that leaves every standing and the count alone.
LEMMA Quiet ==
    ASSUME IInv, TypeOK', CallInv', NEW t \in Threads, OnlyMoves(t),
           Standing(t)' = Standing(t), statusCount' = statusCount
    PROVE  Good
<1>1. Stand' = [Stand EXCEPT ![t] = Standing(t)']
    BY StandChange DEF OnlyMoves
<1>2. Stand' = Stand
    BY <1>1 DEF Stand
<1>3. Consistent(Stand, statusCount)'
    BY <1>2 DEF IInv, Consistent, Weighs, OneClaim, Room, ShareCount, SharersOf,
                HoldersOf, UpgradersOf
<1> QED
    BY <1>2, <1>3 DEF Good, IInv
-----------------------------------------------------------------------------
LEMMA InitInv == Init => IInv
<1> SUFFICES ASSUME Init PROVE IInv
    OBVIOUS
<1> USE MaxShareAssumption DEF Init, StateInit
<1>1. TypeOK
    BY DEF TypeOK, LockerStatus, Points
<1>2. CallInv
    BY DEF CallInv, Standing, Ordered
<1>3. \A t \in Threads : Stand[t] = "idle"
    BY DEF Stand, Standing
<1>4. SharersOf(Stand) = {} /\ HoldersOf(Stand) = {} /\ UpgradersOf(Stand) = {}
    BY <1>3 DEF SharersOf, HoldersOf, UpgradersOf, Shared
<1>5. ShareCount(Stand) = 0
    BY <1>4, FS_EmptySet DEF ShareCount
<1>6. Weighs(Stand, statusCount)
    BY <1>4, <1>5 DEF Weighs
<1>7. OneClaim(Stand) /\ Room(Stand)
    BY <1>3, <1>5 DEF OneClaim, Room, Ordered
<1>8. Stand \in [Threads -> LockerStatus]
    BY DEF Stand, Standing, LockerStatus
<1> QED
    BY <1>1, <1>2, <1>6, <1>7, <1>8 DEF IInv, Consistent

\* Entering a call changes neither the count nor what anybody owns.
LEMMA CallGood ==
    ASSUME IInv, NEW t \in Threads, Call(t), UNCHANGED condvars
    PROVE  Good
<1> USE DEF IInv, TypeOK, condvars
<1>1. PICK where \in {"lock", "lockShared", "orderLock", "upgrade", "orderUpgrade", "completeOrder"} :
          /\ Goto(t, where)
          /\ where \in {"lock", "lockShared", "orderLock"} => own[t] = "idle"
          /\ where \in {"upgrade", "orderUpgrade"} => own[t] = "sharedLocked"
          /\ where = "completeOrder" => own[t] \in Ordered
          /\ where \in {"orderLock", "orderUpgrade"} => PreferExclusive
    BY DEF Call, CallLock, CallLockShared, CallOrderLock, CallUpgrade, CallOrderUpgrade,
           CallCompleteOrder, Between, Ordered
<1>2. pc[t] = "ready" /\ UNCHANGED <<statusCount, own>>
    BY DEF Call, CallLock, CallLockShared, CallOrderLock, CallUpgrade, CallOrderUpgrade,
           CallCompleteOrder, Between
<1>3. pc' = [pc EXCEPT ![t] = where]
    BY <1>1 DEF Goto
<1>4. TypeOK'
    BY <1>2, <1>3 DEF Waits, Points
<1>5. OnlyMoves(t) /\ pc'[t] = where /\ own'[t] = own[t]
    BY <1>2, <1>3 DEF OnlyMoves
<1>6. Standing(t)' = Standing(t)
    BY <1>2, <1>5 DEF Standing
<1>7. CallInv'
    BY <1>1, <1>5, <1>6, CallStep DEF CallInv
<1> QED
    BY <1>2, <1>4, <1>5, <1>6, <1>7, Quiet
-----------------------------------------------------------------------------
(***************************************************************************)
(* The four ways a call can change somebody's standing.  Local(t) is what  *)
(* all the actions of t keep of the types.                                 *)
(***************************************************************************)
Local(t) ==
    /\ OnlyMoves(t)
    /\ own' \in [Threads -> LockerStatus]
    /\ pc' \in [Threads -> Points]
    /\ blocker' \subseteq Threads /\ shareBlocker' \subseteq Threads

\* The part that is the same for all of them.
LEMMA Move ==
    ASSUME IInv, NEW t \in Threads, Local(t),
           Consistent([Stand EXCEPT ![t] = Standing(t)'], statusCount'),
           Stand' = [Stand EXCEPT ![t] = Standing(t)'] => Contract!Next,
           pc'[t] \notin {"lock", "lockShared", "lockSharedUntil", "orderLock", "upgrade", "orderUpgrade",
                       "completeOrder"},
           Standing(t)' \in Ordered => PreferExclusive
    PROVE  Good
<1>1. Stand' = [Stand EXCEPT ![t] = Standing(t)']
    BY StandChange DEF Local, OnlyMoves
<1>2. Consistent(Stand, statusCount)'
    BY <1>1 DEF Consistent, Weighs, OneClaim, Room, ShareCount, SharersOf,
                HoldersOf, UpgradersOf
<1>3. statusCount' \in Nat
    BY <1>2 DEF Consistent
<1>4. TypeOK'
    BY <1>3 DEF TypeOK, Local
<1>5. CallInv'
    BY CallStep DEF IInv, Local
<1> QED
    BY <1>1, <1>2, <1>4, <1>5 DEF Good, IInv

LEMMA ShareGood ==
    ASSUME IInv, NEW t \in Threads, Local(t), Standing(t) = "idle",
           statusCount < exclusive, statusCount' = statusCount + 1,
           pc'[t] = "ready", own'[t] = "sharedLocked"
    PROVE  Good
<1>1. Standing(t)' = "sharedLocked" /\ Stand[t] = "idle"
    BY DEF Standing, Stand
<1>2. Consistent(Stand, statusCount)
    BY DEF IInv
<1>3. Consistent([Stand EXCEPT ![t] = Standing(t)'], statusCount')
    BY <1>1, <1>2, ShareOne
<1>4. Stand' = [Stand EXCEPT ![t] = Standing(t)'] => Contract!Next
    BY <1>1, <1>2, ContractShare
<1> QED
    BY <1>1, <1>3, <1>4, Move DEF Ordered

LEMMA OrderGood ==
    ASSUME IInv, NEW t \in Threads, Local(t), PreferExclusive, statusCount < exclusive,
           NEW w, statusCount' = statusCount + w,
           \/ Standing(t) = "idle" /\ Standing(t)' = "lockOrdered" /\ w = exclusive
           \/ Standing(t) = "sharedLocked" /\ Standing(t)' = "upgradeOrdered" /\ w = exclusive - 1,
           pc'[t] \in {"ready", "lockPlaced", "upgradePlaced"}
    PROVE  Good
<1>1. Stand[t] = Standing(t)
    BY DEF Stand
<1>2. Consistent(Stand, statusCount)
    BY DEF IInv
<1>3. Consistent([Stand EXCEPT ![t] = Standing(t)'], statusCount')
    BY <1>1, <1>2, OrderOne
<1>4. Stand' = [Stand EXCEPT ![t] = Standing(t)'] => Contract!Next
    BY <1>1, <1>2, ContractOrder
<1> QED
    BY <1>3, <1>4, Move

LEMMA LockGood ==
    ASSUME IInv, NEW t \in Threads, Local(t), Standing(t) # "locked",
           \A u \in Threads \ {t} : Stand[u] = "idle",
           statusCount' = exclusive, pc'[t] = "ready", own'[t] = "locked"
    PROVE  Good
<1>1. Standing(t)' = "locked" /\ Stand[t] = Standing(t)
    BY DEF Standing, Stand
<1>2. Consistent(Stand, statusCount)
    BY DEF IInv
<1>3. Consistent([Stand EXCEPT ![t] = Standing(t)'], statusCount')
    BY <1>1, <1>2, Alone
<1>4. Stand[t] \in LockerStatus \ {"locked"}
    BY <1>1, <1>2 DEF Consistent
<1>5. Stand' = [Stand EXCEPT ![t] = Standing(t)'] => Contract!Next
    BY <1>1, <1>4, ContractLock
<1> QED
    BY <1>1, <1>3, <1>5, Move DEF Ordered

LEMMA GiveBackGood ==
    ASSUME IInv, NEW t \in Threads, Local(t), pc'[t] \in {"ready"} \cup Signals, pc[t] = "ready",
           \/ own[t] = "locked" /\ own'[t] = "idle" /\ statusCount' = 0
           \/ own[t] = "locked" /\ own'[t] = "sharedLocked" /\ statusCount' = 1
           \/ own[t] = "sharedLocked" /\ own'[t] = "idle" /\ statusCount' = statusCount - 1
           \/ own[t] = "lockOrdered" /\ own'[t] = "idle" /\ statusCount' = statusCount - exclusive
           \/ own[t] = "upgradeOrdered" /\ own'[t] = "sharedLocked"
              /\ statusCount' = statusCount - (exclusive - 1)
    PROVE  Good
<1>1. Standing(t)' = own'[t] /\ Stand[t] = own[t]
    BY DEF Standing, Stand, Signals
<1>2. Consistent(Stand, statusCount)
    BY DEF IInv
<1>3. Consistent([Stand EXCEPT ![t] = Standing(t)'], statusCount')
    <2>1. CASE own[t] = "locked"
        <3>1. \A u \in Threads \ {t} : Stand[u] = "idle"
            BY <1>1, <1>2, <2>1, LockedAlone
        <3> QED
            BY <1>1, <1>2, <2>1, <3>1, Alone
    <2>2. CASE own[t] = "sharedLocked"
        BY <1>1, <1>2, <2>2, UnshareOne
    <2>3. CASE own[t] \in Ordered
        BY <1>1, <1>2, <2>3, CancelOne DEF Ordered
    <2> QED
        BY <2>1, <2>2, <2>3 DEF Ordered
<1>4. Stand' = [Stand EXCEPT ![t] = Standing(t)'] => Contract!Next
    BY <1>1, ContractGiveBack
<1>5. Standing(t)' \notin Ordered
    BY <1>1 DEF Ordered
<1> QED
    BY <1>3, <1>4, <1>5, Move DEF Signals
-----------------------------------------------------------------------------
(***************************************************************************)
(* The actions.                                                            *)
(***************************************************************************)

\* Falling asleep, waking and notifying move nobody's standing.
LEMMA SleepersGood ==
    ASSUME IInv, NEW t \in Threads,
           Sleep(t) \/ SpuriousWake(t) \/ NotifyBlocker(t) \/ NotifySharers(t)
    PROVE  Good
<1> USE DEF IInv, TypeOK
<1>1. CASE Sleep(t) \/ SpuriousWake(t)
    <2>1. UNCHANGED <<statusCount, own, pc>>
        BY <1>1 DEF Sleep, SpuriousWake
    <2>2. TypeOK'
        BY <1>1, <2>1 DEF Sleep, SpuriousWake
    <2>3. CallInv' /\ OnlyMoves(t) /\ Standing(t)' = Standing(t)
        BY <2>1 DEF CallInv, OnlyMoves, Standing
    <2> QED
        BY <2>1, <2>2, <2>3, Quiet
<1>2. CASE NotifyBlocker(t) \/ NotifySharers(t)
    <2>1. /\ pc[t] \in Signals /\ UNCHANGED <<statusCount, own>>
          /\ \E where \in {"ready", "signalShareAll"} : pc' = [pc EXCEPT ![t] = where]
        BY <1>2 DEF NotifyBlocker, NotifySharers, Signals, Goto
    <2>2. blocker' \subseteq blocker /\ shareBlocker' \subseteq shareBlocker
        BY <1>2 DEF NotifyBlocker, NotifySharers
    <2>3. OnlyMoves(t) /\ pc'[t] \in {"ready", "signalShareAll"} /\ own'[t] = own[t]
        BY <2>1 DEF OnlyMoves
    <2>4. TypeOK'
        BY <2>1, <2>2 DEF Signals, Points
    <2>5. Standing(t)' = Standing(t)
        BY <2>1, <2>3 DEF Standing, Signals
    <2>6. CallInv'
        BY <2>3, <2>5, CallStep DEF CallInv
    <2> QED
        BY <2>1, <2>3, <2>4, <2>5, <2>6, Quiet
<1> QED
    BY <1>1, <1>2

\* A thread that moves itself keeps the types.
LEMMA LocalStep ==
    ASSUME IInv, NEW t \in Threads,
           NEW where \in Points, NEW status \in LockerStatus,
           pc' = [pc EXCEPT ![t] = where], own' = [own EXCEPT ![t] = status],
           blocker' \subseteq Threads, shareBlocker' \subseteq Threads
    PROVE  Local(t) /\ pc'[t] = where /\ own'[t] = status
BY DEF IInv, TypeOK, Local, OnlyMoves

\* lockShared and tryLockShared.
LEMMA SharersGood ==
    ASSUME IInv, NEW t \in Threads, LockShared(t) \/ TryLockShared(t)
    PROVE  Good
<1> USE DEF IInv, TypeOK
<1>1. Standing(t) = "idle"
    BY DEF LockShared, TryLockShared, Passes, Between, CallInv, Standing
<1>2. statusCount < exclusive /\ statusCount' = statusCount + 1 /\ UNCHANGED condvars
    BY DEF LockShared, TryLockShared, Passes, Admits
<1>3. pc' = [pc EXCEPT ![t] = "ready"] /\ own' = [own EXCEPT ![t] = "sharedLocked"]
    <2>1. CASE LockShared(t)
        BY <2>1 DEF LockShared, Return, Goto, Become
    <2>2. CASE TryLockShared(t)
        BY <2>2 DEF TryLockShared, Between, Become
    <2> QED
        BY <2>1, <2>2
<1>4. Local(t) /\ pc'[t] = "ready" /\ own'[t] = "sharedLocked"
    BY <1>2, <1>3, LocalStep DEF condvars, LockerStatus, Points
<1> QED
    BY <1>1, <1>2, <1>4, ShareGood

\* orderLock, orderUpgrade and their try forms.
LEMMA OrderersGood ==
    ASSUME IInv, NEW t \in Threads,
           OrderLock(t) \/ OrderUpgrade(t) \/ TryOrderLock(t) \/ TryOrderUpgrade(t)
    PROVE  Good
<1> USE DEF IInv, TypeOK
<1>1. CASE OrderLock(t) \/ TryOrderLock(t)
    <2>1. Standing(t) = "idle" /\ PreferExclusive
        BY <1>1 DEF OrderLock, TryOrderLock, Passes, Between, CallInv, Standing
    <2>2. statusCount < exclusive /\ statusCount' = statusCount + exclusive /\ UNCHANGED condvars
        BY <1>1 DEF OrderLock, TryOrderLock, Passes, Admits
    <2>3. pc' = [pc EXCEPT ![t] = "ready"] /\ own' = [own EXCEPT ![t] = "lockOrdered"]
        BY <1>1 DEF OrderLock, TryOrderLock, Between, Return, Goto, Become
    <2>4. Local(t) /\ pc'[t] = "ready" /\ own'[t] = "lockOrdered"
        BY <2>2, <2>3, LocalStep DEF condvars, LockerStatus, Points
    <2>5. Standing(t)' = "lockOrdered"
        BY <2>4 DEF Standing
    <2> QED
        BY <2>1, <2>2, <2>4, <2>5, OrderGood
<1>2. CASE OrderUpgrade(t) \/ TryOrderUpgrade(t)
    <2>1. Standing(t) = "sharedLocked" /\ PreferExclusive
        BY <1>2 DEF OrderUpgrade, TryOrderUpgrade, Passes, Between, CallInv, Standing
    <2>2. statusCount < exclusive /\ statusCount' = statusCount + (exclusive - 1) /\ UNCHANGED condvars
        BY <1>2 DEF OrderUpgrade, TryOrderUpgrade, Passes, Admits
    <2>3. pc' = [pc EXCEPT ![t] = "ready"] /\ own' = [own EXCEPT ![t] = "upgradeOrdered"]
        BY <1>2 DEF OrderUpgrade, TryOrderUpgrade, Between, Return, Goto, Become
    <2>4. Local(t) /\ pc'[t] = "ready" /\ own'[t] = "upgradeOrdered"
        BY <2>2, <2>3, LocalStep DEF condvars, LockerStatus, Points
    <2>5. Standing(t)' = "upgradeOrdered"
        BY <2>4 DEF Standing
    <2> QED
        BY <2>1, <2>2, <2>4, <2>5, OrderGood
<1> QED
    BY <1>1, <1>2

\* What the count tells a thread that takes exclusive ownership.
LEMMA AloneNow ==
    ASSUME IInv, NEW t \in Threads,
           \/ statusCount = 0
           \/ statusCount = 1 /\ Stand[t] = "sharedLocked"
           \/ statusCount = exclusive /\ Stand[t] \in Ordered
    PROVE  \A u \in Threads \ {t} : Stand[u] = "idle"
BY AtZero, OnlySharer, OrderAlone DEF IInv

\* Taking exclusive ownership, in one step or at the end of an order.
LEMMA LockersGood ==
    ASSUME IInv, NEW t \in Threads, statusCount' = exclusive, UNCHANGED condvars,
           pc' = [pc EXCEPT ![t] = "ready"], own' = [own EXCEPT ![t] = "locked"],
           \/ statusCount = 0 /\ Standing(t) = "idle"
           \/ statusCount = 1 /\ Standing(t) = "sharedLocked"
           \/ statusCount = exclusive /\ Standing(t) \in Ordered
    PROVE  Good
<1>1. Stand[t] = Standing(t)
    BY DEF Stand
<1>2. \A u \in Threads \ {t} : Stand[u] = "idle"
    BY <1>1, AloneNow
<1>3. Local(t) /\ pc'[t] = "ready" /\ own'[t] = "locked"
    BY LocalStep DEF condvars, LockerStatus, IInv, TypeOK, Points
<1>4. Standing(t) # "locked"
    BY DEF Ordered
<1> QED
    BY <1>2, <1>3, <1>4, LockGood

\* tryLock, tryUpgrade, and the end of every order.
LEMMA TakersGood ==
    ASSUME IInv, NEW t \in Threads,
           TryLock(t) \/ TryUpgrade(t) \/ FinishOrder(t) \/ TryCompleteOrder(t)
    PROVE  Good
<1> USE DEF IInv, TypeOK
<1>1. own' = [own EXCEPT ![t] = "locked"] /\ pc' = [pc EXCEPT ![t] = "ready"]
    BY DEF TryLock, TryUpgrade, FinishOrder, TryCompleteOrder, Between, Return, Goto, Become
<1>2. UNCHANGED condvars /\ statusCount' = exclusive
    BY DEF TryLock, TryUpgrade, FinishOrder, TryCompleteOrder, Passes, Admits
<1>3. CASE TryLock(t) \/ TryUpgrade(t)
    <2>1. \/ statusCount = 0 /\ Standing(t) = "idle"
          \/ statusCount = 1 /\ Standing(t) = "sharedLocked"
        BY <1>3 DEF TryLock, TryUpgrade, Between, Standing
    <2> QED
        BY <1>1, <1>2, <2>1, LockersGood
<1>4. CASE FinishOrder(t) \/ TryCompleteOrder(t)
    <2>1. statusCount = exclusive
        BY <1>4 DEF FinishOrder, TryCompleteOrder, Passes, Admits
    <2>2. Standing(t) \in Ordered
        BY <1>4 DEF FinishOrder, TryCompleteOrder, Passes, Between, Standing, CallInv, Ordered
    <2> QED
        BY <1>1, <1>2, <2>1, <2>2, LockersGood
<1> QED
    BY <1>3, <1>4

\* lock and upgrade with exclusives preferred.
LEMMA PlaceGood ==
    ASSUME IInv, NEW t \in Threads, PreferExclusive, statusCount < exclusive,
           NEW w, NEW placed, PlaceOrWait(t, w, placed), pc[t] \in {"lock", "upgrade"},
           \/ own[t] = "idle" /\ placed = "lockPlaced" /\ w = exclusive
           \/ own[t] = "sharedLocked" /\ placed = "upgradePlaced" /\ w = exclusive - 1
    PROVE  Good
<1> USE MaxShareAssumption DEF exclusive, IInv, TypeOK
<1>1. Standing(t) = own[t] /\ statusCount' = statusCount + w
    BY DEF Standing, PlaceOrWait
<1>2. CASE statusCount' = exclusive
    <2>1. \/ statusCount = 0 /\ Standing(t) = "idle"
          \/ statusCount = 1 /\ Standing(t) = "sharedLocked"
        BY <1>1, <1>2
    <2>2. UNCHANGED condvars
        BY <1>2 DEF PlaceOrWait, condvars
    <2>3. own' = [own EXCEPT ![t] = "locked"] /\ pc' = [pc EXCEPT ![t] = "ready"]
        BY <1>2 DEF PlaceOrWait, Return, Goto, Become
    <2> QED
        BY <1>2, <2>1, <2>2, <2>3, LockersGood
<1>3. CASE statusCount' # exclusive
    <2>1. pc' = [pc EXCEPT ![t] = placed] /\ own' = own
        BY <1>3 DEF PlaceOrWait, Goto
    <2>2. own' = [own EXCEPT ![t] = own[t]]
        BY <2>1
    <2>3. blocker' \subseteq Threads /\ shareBlocker' \subseteq Threads
        BY <1>3 DEF PlaceOrWait
    <2>4. placed \in Waits /\ own[t] \in LockerStatus
        BY DEF Waits
    <2>5. Local(t) /\ pc'[t] = placed /\ own'[t] = own[t]
        BY <2>1, <2>2, <2>3, <2>4, LocalStep DEF Points
    <2>6. Standing(t)' = IF placed = "lockPlaced" THEN "lockOrdered" ELSE "upgradeOrdered"
        BY <2>5 DEF Standing
    <2> QED
        BY <1>1, <2>5, <2>6, OrderGood
<1> QED
    BY <1>2, <1>3

LEMMA ExclusivesGood ==
    ASSUME IInv, NEW t \in Threads, Lock(t) \/ Upgrade(t)
    PROVE  Good
<1> USE DEF IInv, TypeOK
<1>1. /\ pc[t] \in {"lock", "upgrade"}
      /\ Lock(t) => pc[t] = "lock" /\ own[t] = "idle"
      /\ Upgrade(t) => pc[t] = "upgrade" /\ own[t] = "sharedLocked"
    BY DEF Lock, Upgrade, Passes, CallInv
<1>2. CASE PreferExclusive
    <2>1. statusCount < exclusive
        BY <1>2 DEF Lock, Upgrade, Passes, Admits
    <2>2. CASE Lock(t)
        BY <1>1, <1>2, <2>1, <2>2, PlaceGood DEF Lock
    <2>3. CASE Upgrade(t)
        BY <1>1, <1>2, <2>1, <2>3, PlaceGood DEF Upgrade
    <2> QED
        BY <2>2, <2>3
<1>3. CASE ~PreferExclusive
    <2>1. /\ statusCount' = exclusive /\ UNCHANGED condvars
          /\ own' = [own EXCEPT ![t] = "locked"] /\ pc' = [pc EXCEPT ![t] = "ready"]
        BY <1>3 DEF Lock, Upgrade, Return, Goto, Become
    <2>2. Standing(t) = own[t]
        BY <1>1 DEF Standing
    <2>3. \/ statusCount = 0 /\ Standing(t) = "idle"
          \/ statusCount = 1 /\ Standing(t) = "sharedLocked"
        BY <1>1, <1>3, <2>2 DEF Lock, Upgrade, Passes, Admits
    <2> QED
        BY <2>1, <2>3, LockersGood
<1> QED
    BY <1>2, <1>3

\* unlock, unlockShared, downgrade and the cancels.
LEMMA GiversGood ==
    ASSUME IInv, NEW t \in Threads, GiveBack(t)
    PROVE  Good
<1> USE DEF IInv, TypeOK
<1>1. PICK where \in {"ready"} \cup Signals, status \in {"idle", "sharedLocked"} :
          /\ pc' = [pc EXCEPT ![t] = where] /\ own' = [own EXCEPT ![t] = status]
          /\ \/ own[t] = "locked" /\ status = "idle" /\ statusCount' = 0
             \/ own[t] = "locked" /\ status = "sharedLocked" /\ statusCount' = 1
             \/ own[t] = "sharedLocked" /\ status = "idle" /\ statusCount' = statusCount - 1
             \/ own[t] = "lockOrdered" /\ status = "idle" /\ statusCount' = statusCount - exclusive
             \/ own[t] = "upgradeOrdered" /\ status = "sharedLocked"
                /\ statusCount' = statusCount - (exclusive - 1)
    <2> USE DEF Between, Goto, Become, Signals
    <2>1. CASE Unlock(t)
        BY <2>1 DEF Unlock
    <2>2. CASE UnlockShared(t)
        BY <2>2 DEF UnlockShared, SharedSignal
    <2>3. CASE Downgrade(t)
        BY <2>3 DEF Downgrade
    <2>4. CASE CancelLockOrder(t)
        BY <2>4 DEF CancelLockOrder
    <2>5. CASE CancelUpgradeOrder(t)
        BY <2>5 DEF CancelUpgradeOrder
    <2> QED
        BY <2>1, <2>2, <2>3, <2>4, <2>5 DEF GiveBack
<1>2. pc[t] = "ready" /\ UNCHANGED condvars
    BY DEF GiveBack, Unlock, UnlockShared, Downgrade, CancelLockOrder, CancelUpgradeOrder, Between
<1>3. Local(t) /\ pc'[t] = where /\ own'[t] = status
    BY <1>1, <1>2, LocalStep DEF condvars, LockerStatus, Points
<1> QED
    BY <1>1, <1>2, <1>3, GiveBackGood

\* Every step keeps the invariant and is a step of the contract or stutters.
LEMMA NextGood ==
    ASSUME IInv, [Next]_vars
    PROVE  Good
<1>1. CASE UNCHANGED vars
    <2>1. Stand' = Stand
        BY <1>1 DEF vars, Stand, Standing
    <2>2. TypeOK' /\ CallInv'
        BY <1>1 DEF vars, IInv, TypeOK, CallInv, Standing
    <2>3. Consistent(Stand, statusCount)'
        BY <1>1, <2>1 DEF vars, IInv, Consistent, Weighs, OneClaim, Room, ShareCount,
                          SharersOf, HoldersOf, UpgradersOf
    <2> QED
        BY <2>1, <2>2, <2>3 DEF Good, IInv
<1>2. ASSUME NEW t \in Threads,
             \/ Call(t) /\ UNCHANGED condvars
             \/ Proceed(t) \/ Try(t) \/ GiveBack(t) \/ SpuriousWake(t)
      PROVE  Good
    <2>1. CASE Call(t) /\ UNCHANGED condvars
        BY <2>1, CallGood
    <2>2. CASE Proceed(t)
        BY <2>2, SleepersGood, ExclusivesGood, TakersGood, SharersGood, OrderersGood DEF Proceed
    <2>3. CASE Try(t)
        BY <2>3, TakersGood, SharersGood, OrderersGood DEF Try
    <2>4. CASE GiveBack(t)
        BY <2>4, GiversGood
    <2>5. CASE SpuriousWake(t)
        BY <2>5, SleepersGood
    <2> QED
        BY <1>2, <2>1, <2>2, <2>3, <2>4, <2>5
<1> QED
    BY <1>1, <1>2 DEF Next
-----------------------------------------------------------------------------
(***************************************************************************)
(* The theorems.                                                           *)
(***************************************************************************)

\* The invariant holds in every reachable state: whatever calls the threads
\* make in whatever order, the count agrees with what they own.
THEOREM Invariance == Spec => []IInv
<1>1. IInv /\ [Next]_vars => IInv'
    BY NextGood DEF Good
<1> QED
    BY <1>1, InitInv, PTL DEF Spec

\* Types: the counter is a natural number (it is unsigned in the code and no
\* call takes it below zero), and only existing threads sleep.
THEOREM TypeCorrect == Spec => []TypeOK
<1>1. IInv => TypeOK
    BY DEF IInv
<1> QED
    BY <1>1, Invariance, PTL

\* What the invariant says of the owners.
LEMMA OwnersFromInv ==
    ASSUME IInv
    PROVE  MutualExclusion /\ OneOrder
<1>1. Consistent(Stand, statusCount) /\ \A t \in Threads : Stand[t] = Standing(t)
    BY DEF IInv, Stand
<1>2. OneClaim(Stand)
    BY <1>1 DEF Consistent
<1>3. MutualExclusion
    <2> SUFFICES ASSUME NEW t \in Threads, Standing(t) = "locked", NEW u \in Threads \ {t}
                 PROVE  Standing(u) = "idle"
        BY DEF MutualExclusion, ExclusiveOwners
    <2> QED
        BY <1>1, <1>2 DEF OneClaim
<1>4. OneOrder
    <2> SUFFICES ASSUME NEW t \in Threads, NEW u \in Threads,
                        Standing(t) \in Ordered, Standing(u) \in Ordered
                 PROVE  t = u
        BY DEF OneOrder, Orders
    <2> QED
        BY <1>1, <1>2 DEF OneClaim, Ordered
<1> QED
    BY <1>3, <1>4

\* Mutual exclusion: an exclusive owner is alone.
THEOREM MutualExclusionHolds == Spec => []MutualExclusion
BY Invariance, OwnersFromInv, PTL

\* At most one thread at a time has ordered exclusive ownership.
THEOREM OneOrderHolds == Spec => []OneOrder
BY Invariance, OwnersFromInv, PTL

\* What the invariant says of the size of the count.
LEMMA FitsFromInv ==
    ASSUME IInv
    PROVE  CountFits
<1> DEFINE n == ShareCount(Stand)
<1> USE MaxShareAssumption DEF exclusive
<1>1. Consistent(Stand, statusCount) /\ n \in Nat
    BY SharersFinite DEF IInv
<1>2. /\ statusCount = n + (IF HoldersOf(Stand) = {} THEN 0 ELSE exclusive)
                         + (IF UpgradersOf(Stand) = {} THEN 0 ELSE exclusive - 1)
      /\ OneClaim(Stand) /\ Room(Stand)
    BY <1>1 DEF Consistent, Weighs
<1>3. n <= MaxShare
    BY <1>2 DEF Room
<1>4. ASSUME PreferExclusive PROVE statusCount <= maxStatus
    <2>1. maxStatus = exclusive + (exclusive - 1)
        BY <1>4 DEF maxStatus
    <2>2. CASE HoldersOf(Stand) = {} /\ UpgradersOf(Stand) = {}
        BY <1>1, <1>2, <1>3, <2>1, <2>2
    <2>3. CASE \E t \in Threads : Stand[t] \in Ordered
        <3>1. n < MaxShare
            BY <1>2, <2>3 DEF Room
        <3>2. HoldersOf(Stand) = {} \/ UpgradersOf(Stand) = {}
            BY <1>2 DEF OneClaim, HoldersOf, UpgradersOf
        <3> QED
            BY <1>1, <1>2, <2>1, <3>1, <3>2
    <2>4. CASE \E t \in Threads : Stand[t] = "locked"
        <3>1. statusCount = exclusive
            BY <1>1, <2>4, LockedAlone
        <3> QED
            BY <1>3, <2>1, <3>1
    <2> QED
        BY <2>2, <2>3, <2>4 DEF HoldersOf, UpgradersOf, Ordered
<1>5. ASSUME ~PreferExclusive PROVE statusCount <= maxStatus
    <2>1. \A t \in Threads : Stand[t] \notin Ordered
        BY <1>5 DEF IInv, CallInv, Stand
    <2>2. maxStatus = exclusive
        BY <1>5 DEF maxStatus
    <2>3. CASE \E t \in Threads : Stand[t] = "locked"
        <3>1. statusCount = exclusive
            BY <1>1, <2>3, LockedAlone
        <3> QED
            BY <1>3, <2>2, <3>1
    <2>4. CASE \A t \in Threads : Stand[t] # "locked"
        <3>1. HoldersOf(Stand) = {} /\ UpgradersOf(Stand) = {}
            BY <2>1, <2>4 DEF HoldersOf, UpgradersOf, Ordered
        <3> QED
            BY <1>1, <1>2, <1>3, <2>2, <3>1
    <2> QED
        BY <2>3, <2>4
<1>6. statusCount <= maxStatus
    BY <1>4, <1>5
<1> QED
    BY <1>3, <1>6 DEF CountFits

\* The counter never exceeds maxStatusValue_, from which the code chooses the
\* width of StatusCount_, and no more than maxShare threads share the mutex.
THEOREM CountFitsHolds == Spec => []CountFits
BY Invariance, FitsFromInv, PTL

\* The condition-variable Mutex implements the contract: every step changes
\* what the threads own as one call of the contract may, or not at all.
THEOREM Implements == Spec => ContractSpec
<1>1. Init => Contract!Init
    BY DEF Init, StateInit, Contract!Init, Stand, Standing
<1>2. IInv /\ [Next]_vars => [Contract!Next]_Stand
    BY NextGood DEF Good
<1> QED
    BY <1>1, <1>2, Invariance, PTL DEF Spec, ContractSpec, Contract!Spec

\* A contract step beside a standing order gives nobody a new share.
LEMMA ContractBlocks ==
    ASSUME Contract!Next, Orders # {}
    PROVE  SharedOwners' \subseteq SharedOwners \cup ExclusiveOwners
<1>1. Contract!Orderers # {}
    BY DEF Orders, Ordered, Contract!Orderers, Contract!Those, Stand
<1>2. PICK t \in Threads, b \in LockerStatus :
          /\ Stand' = [Stand EXCEPT ![t] = b]
          /\ b \in Shared => Stand[t] \in Shared \cup {"locked"}
    BY <1>1 DEF Contract!Next, Contract!AcquireShared, Contract!AcquireExclusive,
        Contract!PlaceLockOrder, Contract!PlaceUpgradeOrder, Contract!UpgradeNow,
        Contract!CompleteOrder, Contract!CancelOrder, Contract!Release, Contract!Become,
        LockerStatus, Shared
<1>3. \A u \in Threads : Stand[u] = Standing(u)
    BY DEF Stand
<1>4. ASSUME NEW u \in Threads, Stand'[u] \in Shared
      PROVE  Stand[u] \in Shared \cup {"locked"}
    <2>1. DOMAIN Stand = Threads
        BY DEF Stand
    <2> QED
        BY <1>2, <1>4, <2>1
<1> QED
    BY <1>3, <1>4 DEF SharedOwners, SharersOf, ExclusiveOwners

\* While an order stands, no thread becomes a shared owner: the order keeps
\* its priority against every call of every other thread.
THEOREM OrderBlocksReadersHolds == Spec => OrderBlocksReaders
<1>1. IInv /\ [Next]_vars =>
          [Orders # {} => SharedOwners' \subseteq SharedOwners \cup ExclusiveOwners]_vars
    <2> SUFFICES ASSUME IInv, [Next]_vars, Orders # {}
                 PROVE  SharedOwners' \subseteq SharedOwners \cup ExclusiveOwners
        OBVIOUS
    <2>1. CASE Contract!Next
        BY <2>1, ContractBlocks
    <2>2. CASE Stand' = Stand
        BY <2>2 DEF SharedOwners, SharersOf
    <2> QED
        BY <2>1, <2>2, NextGood DEF Good
<1> QED
    BY <1>1, Invariance, PTL DEF Spec, OrderBlocksReaders
-----------------------------------------------------------------------------
(***************************************************************************)
(* The timed calls, where exclusives are not preferred: there a call waits *)
(* before it has changed anything.                                         *)
(***************************************************************************)

\* Nobody waits with an order placed.
LEMMA NoOrderPlaced ==
    ASSUME IInv, ~PreferExclusive, NEW t \in Threads
    PROVE  pc[t] \notin {"lockPlaced", "upgradePlaced"}
BY DEF IInv, CallInv, Standing, Ordered

\* Entering a call with a deadline.
LEMMA CallUntilGood ==
    ASSUME IInv, NEW t \in Threads, CallUntil(t)
    PROVE  Good
<1> USE DEF IInv, TypeOK, condvars
<1>1. PICK where \in {"lock", "lockSharedUntil", "upgrade"} :
          /\ Goto(t, where)
          /\ where \in {"lock", "lockSharedUntil"} => own[t] = "idle"
          /\ where = "upgrade" => own[t] = "sharedLocked"
    BY DEF CallUntil, CallTryLockUntil, CallTryLockSharedUntil, CallTryUpgradeUntil, Between
<1>2. pc[t] = "ready" /\ UNCHANGED <<statusCount, own, condvars>>
    BY DEF CallUntil, CallTryLockUntil, CallTryLockSharedUntil, CallTryUpgradeUntil, Between
<1>3. pc' = [pc EXCEPT ![t] = where]
    BY <1>1 DEF Goto
<1>4. TypeOK'
    BY <1>2, <1>3 DEF Waits, Points
<1>5. OnlyMoves(t) /\ pc'[t] = where /\ own'[t] = own[t]
    BY <1>2, <1>3 DEF OnlyMoves
<1>6. Standing(t)' = Standing(t)
    BY <1>2, <1>5 DEF Standing
<1>7. CallInv'
    BY <1>1, <1>5, <1>6, CallStep DEF CallInv
<1> QED
    BY <1>2, <1>4, <1>5, <1>6, <1>7, Quiet

\* tryLockSharedUntil.
LEMMA SharersUntilGood ==
    ASSUME IInv, NEW t \in Threads, SleepSharedUntil(t) \/ LockSharedUntil(t)
    PROVE  Good
<1> USE DEF IInv, TypeOK
<1>1. CASE SleepSharedUntil(t)
    <2>1. UNCHANGED <<statusCount, own, pc>>
        BY <1>1 DEF SleepSharedUntil
    <2>2. TypeOK'
        BY <1>1, <2>1 DEF SleepSharedUntil
    <2>3. CallInv' /\ OnlyMoves(t) /\ Standing(t)' = Standing(t)
        BY <2>1 DEF CallInv, OnlyMoves, Standing
    <2> QED
        BY <2>1, <2>2, <2>3, Quiet
<1>2. CASE LockSharedUntil(t)
    <2>1. Standing(t) = "idle"
        BY <1>2 DEF LockSharedUntil, CallInv, Standing
    <2>2. statusCount < exclusive /\ statusCount' = statusCount + 1 /\ UNCHANGED condvars
        BY <1>2 DEF LockSharedUntil
    <2>3. pc' = [pc EXCEPT ![t] = "ready"] /\ own' = [own EXCEPT ![t] = "sharedLocked"]
        BY <1>2 DEF LockSharedUntil, Return, Goto, Become
    <2>4. Local(t) /\ pc'[t] = "ready" /\ own'[t] = "sharedLocked"
        BY <2>2, <2>3, LocalStep DEF condvars, LockerStatus, Points
    <2> QED
        BY <2>1, <2>2, <2>4, ShareGood
<1> QED
    BY <1>1, <1>2

\* A call that gives up owns what it owned before.
LEMMA TimeOutGood ==
    ASSUME IInv, ~PreferExclusive, NEW t \in Threads, TimeOut(t)
    PROVE  Good
<1> USE DEF IInv, TypeOK
<1>1. pc' = [pc EXCEPT ![t] = "ready"] /\ UNCHANGED <<statusCount, own>>
    BY DEF TimeOut, Goto
<1>2. blocker' \subseteq blocker /\ shareBlocker' = shareBlocker
    BY DEF TimeOut
<1>3. TypeOK'
    BY <1>1, <1>2 DEF Points
<1>4. OnlyMoves(t) /\ pc'[t] = "ready" /\ own'[t] = own[t]
    BY <1>1 DEF OnlyMoves
<1>5. Standing(t)' = Standing(t)
    BY <1>4, NoOrderPlaced DEF Standing
<1>6. CallInv'
    BY <1>4, <1>5, CallStep DEF CallInv
<1> QED
    BY <1>1, <1>3, <1>4, <1>5, <1>6, Quiet

LEMMA TimedGood ==
    ASSUME IInv, ~PreferExclusive, [TimedNext]_timedVars
    PROVE  Good
<1>1. CASE [Next]_vars
    BY <1>1, NextGood
<1>2. ASSUME NEW t \in Threads,
             CallUntil(t) \/ SleepSharedUntil(t) \/ LockSharedUntil(t) \/ TimeOut(t)
      PROVE  Good
    BY <1>2, CallUntilGood, SharersUntilGood, TimeOutGood
<1> QED
    BY <1>1, <1>2 DEF TimedNext, timedVars

\* A deadline that races a notification, a release or another deadline leaves the count equal to
\* what the threads own (tryLockUntil, tryLockSharedUntil, tryUpgradeUntil).
LEMMA TimedInvariance ==
    ASSUME ~PreferExclusive
    PROVE  TimedSpec => []IInv
<1>1. TimedInit => IInv
    BY InitInv DEF TimedInit
<1>2. IInv /\ [TimedNext]_timedVars => IInv'
    BY TimedGood DEF Good
<1> QED
    BY <1>1, <1>2, PTL DEF TimedSpec

\* The count equals the shares plus the weight of the exclusive owner, deadlines included.
THEOREM TimedCountHolds ==
    ASSUME ~PreferExclusive
    PROVE  TimedSpec => []CountInv
<1>1. IInv => CountInv
    BY DEF IInv, Consistent, CountInv
<1> QED
    BY <1>1, TimedInvariance, PTL

\* With its timed calls the Mutex still implements the contract: a call that gives up changes
\* what nobody owns.
THEOREM TimedImplements ==
    ASSUME ~PreferExclusive
    PROVE  TimedSpec => ContractSpec
<1>1. TimedInit => Contract!Init
    BY DEF TimedInit, Init, StateInit, Contract!Init, Stand, Standing
<1>2. IInv /\ [TimedNext]_timedVars => [Contract!Next]_Stand
    BY TimedGood DEF Good
<1> QED
    BY <1>1, <1>2, TimedInvariance, PTL DEF TimedSpec, ContractSpec, Contract!Spec
-----------------------------------------------------------------------------
(***************************************************************************)
(* Wakeups.                                                                *)
(*                                                                         *)
(* NoLostWakeup is not inductive: the thread that is still awake has to    *)
(* notify the right condition variable.  Three stronger facts name the     *)
(* notification.  SharersNoticed is about shareBlocker_: it holds where    *)
(* the threads are at most one more than maxShare, so that the one         *)
(* notification unlockShared sends when it leaves a full mutex is enough.  *)
(* LockersNoticed is about any number of threads in lock, where exclusives *)
(* are not preferred and nobody upgrades.  BlockersNoticed is about every  *)
(* wait on blocker_: it needs that one thread at a time is in such a call, *)
(* and a mutex that never fills.                                           *)
(***************************************************************************)
Spacious == MaxShare > 1 /\ Cardinality(Threads) <= MaxShare + 1
Roomy    == Cardinality(Threads) < MaxShare

\* Who sleeps where.
Sleepers ==
    /\ \A s \in blocker : pc[s] \in Waits \ {"lockShared"}
    /\ \A s \in shareBlocker : pc[s] = "lockShared"
    /\ \A s \in Threads : pc[s] = "upgrade" => Upgradeable

WaitInv   == IInv /\ Sleepers
ReaderInv == WaitInv /\ SharersNoticed

\* One step of thread t.
Step(t) ==
    \/ Call(t) /\ UNCHANGED condvars
    \/ Proceed(t) \/ Try(t) \/ GiveBack(t) \/ SpuriousWake(t)
\* The calls that take something, and those that end an order.
Takes(t) ==
    \/ Lock(t) \/ Upgrade(t) \/ LockShared(t) \/ OrderLock(t) \/ OrderUpgrade(t)
    \/ TryLock(t) \/ TryLockShared(t) \/ TryUpgrade(t) \/ TryOrderLock(t) \/ TryOrderUpgrade(t)
Ends(t) == FinishOrder(t) \/ TryCompleteOrder(t)

\* The orders that a thread in this wait has placed.
PlacedWaits == {"lockPlaced", "upgradePlaced", "completeOrder"}

\* What each wait is for.
LEMMA AdmitsWhat ==
    /\ Admits("lock") <=> IF PreferExclusive THEN statusCount < exclusive ELSE statusCount = 0
    /\ Admits("upgrade") <=> IF PreferExclusive THEN statusCount < exclusive ELSE statusCount = 1
    /\ \A w \in {"lockShared", "orderLock", "orderUpgrade"} : Admits(w) <=> statusCount < exclusive
    /\ \A w \in PlacedWaits : Admits(w) <=> statusCount = exclusive
<1>1. Admits("lock") <=> IF PreferExclusive THEN statusCount < exclusive ELSE statusCount = 0
    BY DEF Admits
<1>2. Admits("upgrade") <=> IF PreferExclusive THEN statusCount < exclusive ELSE statusCount = 1
    BY DEF Admits
<1>3. ASSUME NEW w \in {"lockShared", "orderLock", "orderUpgrade"}
      PROVE  Admits(w) <=> statusCount < exclusive
    BY <1>3 DEF Admits
<1>4. ASSUME NEW w \in PlacedWaits PROVE Admits(w) <=> statusCount = exclusive
    BY <1>4 DEF Admits, PlacedWaits
<1> QED
    BY <1>1, <1>2, <1>3, <1>4

\* With an order or an exclusive owner the count is not below exclusive_, and a share counts.
LEMMA OrdersWeigh ==
    ASSUME IInv, NEW s \in Threads
    PROVE  /\ pc[s] \in PlacedWaits => PreferExclusive /\ statusCount >= exclusive
           /\ pc[s] = "upgrade" => statusCount >= 1 /\ own[s] = "sharedLocked"
<1> USE MaxShareAssumption DEF exclusive
<1>1. Consistent(Stand, statusCount) /\ CallInv /\ Stand[s] = Standing(s) /\ statusCount \in Nat
    BY DEF IInv, TypeOK, Stand
<1>2. ASSUME pc[s] \in PlacedWaits PROVE PreferExclusive /\ statusCount >= exclusive
    <2>1. Standing(s) \in Ordered
        BY <1>1, <1>2 DEF CallInv, PlacedWaits, Standing, Ordered
    <2>2. ~(statusCount < exclusive)
        BY <1>1, <2>1, BelowExclusive DEF Ordered
    <2> QED
        BY <1>1, <2>1, <2>2 DEF CallInv
<1>3. ASSUME pc[s] = "upgrade" PROVE statusCount >= 1 /\ own[s] = "sharedLocked"
    <2>1. own[s] = "sharedLocked" /\ Stand[s] = "sharedLocked"
        BY <1>1, <1>3 DEF CallInv, Standing
    <2>2. statusCount # 0
        BY <1>1, <2>1, AtZero
    <2> QED
        BY <1>1, <2>1, <2>2
<1> QED
    BY <1>2, <1>3

\* The types of a step.
LEMMA WakeTypes ==
    ASSUME WaitInv
    PROVE  /\ statusCount \in Nat /\ blocker \subseteq Threads /\ shareBlocker \subseteq Threads
           /\ pc \in [Threads -> Points] /\ own \in [Threads -> LockerStatus]
           /\ \A s \in Threads : pc[s] \in Waits => pc[s] \notin Signals \cup {"ready"}
           /\ \A s \in Asleep : pc[s] \in Waits
           /\ exclusive \in Nat \ {0}
BY MaxShareAssumption DEF WaitInv, IInv, TypeOK, Waits, Signals, Sleepers, Asleep, exclusive

\* A step of t that leaves it asleep only where it waits.
LEMMA SleepersStay ==
    ASSUME WaitInv, NEW t \in Threads, OnlyMoves(t),
           blocker' \subseteq blocker \cup {t}, shareBlocker' \subseteq shareBlocker \cup {t},
           t \in blocker' => pc'[t] \in Waits \ {"lockShared"},
           t \in shareBlocker' => pc'[t] = "lockShared",
           pc'[t] = "upgrade" => Upgradeable
    PROVE  Sleepers'
<1>1. ASSUME NEW s \in blocker' PROVE pc'[s] \in Waits \ {"lockShared"}
    BY <1>1, WakeTypes DEF OnlyMoves, WaitInv, Sleepers
<1>2. ASSUME NEW s \in shareBlocker' PROVE pc'[s] = "lockShared"
    BY <1>2, WakeTypes DEF OnlyMoves, WaitInv, Sleepers
<1>3. ASSUME NEW s \in Threads, pc'[s] = "upgrade" PROVE Upgradeable
    BY <1>3 DEF OnlyMoves, WaitInv, Sleepers
<1> QED
    BY <1>1, <1>2, <1>3 DEF Sleepers

\* Entering a call.
LEMMA CallMoves ==
    ASSUME WaitInv, NEW t \in Threads, Call(t), UNCHANGED condvars
    PROVE  /\ OnlyMoves(t) /\ t \notin Asleep /\ pc[t] \notin Signals
           /\ UNCHANGED <<statusCount, condvars>>
           /\ pc'[t] = "upgrade" => Upgradeable
<1>1. pc[t] = "ready" /\ UNCHANGED <<statusCount, own>>
    BY DEF Call, CallLock, CallLockShared, CallOrderLock, CallUpgrade, CallOrderUpgrade,
           CallCompleteOrder, Between
<1>2. PICK where : pc' = [pc EXCEPT ![t] = where] /\ (where = "upgrade" => Upgradeable)
    BY DEF Call, CallLock, CallLockShared, CallOrderLock, CallUpgrade, CallOrderUpgrade,
           CallCompleteOrder, Goto
<1>3. OnlyMoves(t) /\ pc'[t] = where
    BY <1>1, <1>2, WakeTypes DEF OnlyMoves
<1>4. t \notin Asleep /\ pc[t] \notin Signals
    BY <1>1, WakeTypes DEF Signals
<1> QED
    BY <1>1, <1>2, <1>3, <1>4

\* Whoever takes something found room and leaves no more of it.
LEMMA TakesWhat ==
    ASSUME WaitInv, MaxShare > 1, NEW t \in Threads, Takes(t)
    PROVE  /\ OnlyMoves(t) /\ t \notin Asleep /\ pc[t] \notin Signals
           /\ statusCount < exclusive /\ statusCount' \in Nat
           /\ statusCount' >= statusCount /\ statusCount' >= 1
           /\ shareBlocker' = shareBlocker
           /\ \/ blocker' = blocker /\ pc'[t] = "ready"
              \/ /\ blocker' = blocker \cup {t} /\ statusCount' # exclusive
                 /\ pc'[t] \in {"lockPlaced", "upgradePlaced"}
<1>1. statusCount \in Nat /\ exclusive \in Nat \ {0, 1}
    BY MaxShareAssumption DEF WaitInv, IInv, TypeOK, exclusive
<1>2. t \notin Asleep /\ pc[t] \notin Signals
    BY WakeTypes DEF Takes, Lock, Upgrade, LockShared, OrderLock, OrderUpgrade, TryLock, TryLockShared,
       TryUpgrade, TryOrderLock, TryOrderUpgrade, Passes, Between, Signals, Waits
<1>3. CASE Lock(t) \/ Upgrade(t)
    <2>1. IF PreferExclusive THEN statusCount < exclusive ELSE statusCount \in {0, 1}
        BY <1>3 DEF Lock, Upgrade, Passes, Admits
    <2>2. CASE PreferExclusive
        <3>1. PICK w \in {exclusive, exclusive - 1}, placed \in {"lockPlaced", "upgradePlaced"} :
                  PlaceOrWait(t, w, placed)
            BY <1>3, <2>2 DEF Lock, Upgrade
        <3>2. statusCount' = statusCount + w /\ shareBlocker' = shareBlocker
            BY <3>1 DEF PlaceOrWait
        <3>3. statusCount' \in Nat /\ statusCount' >= statusCount /\ statusCount' >= 1
            BY <1>1, <3>1, <3>2
        <3>4. CASE statusCount' = exclusive
            <4>1. blocker' = blocker /\ pc'[t] = "ready" /\ OnlyMoves(t)
                BY <3>1, <3>4, WakeTypes DEF PlaceOrWait, Return, Goto, Become, OnlyMoves
            <4> QED
                BY <1>2, <2>1, <2>2, <3>2, <3>3, <4>1
        <3>5. CASE statusCount' # exclusive
            <4>1. blocker' = blocker \cup {t} /\ pc'[t] = placed /\ OnlyMoves(t)
                BY <3>1, <3>5, WakeTypes DEF PlaceOrWait, Goto, OnlyMoves
            <4> QED
                BY <1>2, <2>1, <2>2, <3>1, <3>2, <3>3, <3>5, <4>1
        <3> QED
            BY <3>4, <3>5
    <2>3. CASE ~PreferExclusive
        <3>1. statusCount' = exclusive /\ UNCHANGED condvars /\ pc'[t] = "ready" /\ OnlyMoves(t)
            BY <1>3, <2>3, WakeTypes DEF Lock, Upgrade, Return, Goto, Become, OnlyMoves
        <3>2. statusCount < exclusive /\ statusCount' >= statusCount /\ statusCount' >= 1
            BY <1>1, <2>1, <2>3, <3>1
        <3> QED
            BY <1>1, <1>2, <3>1, <3>2 DEF condvars
    <2> QED
        BY <2>2, <2>3
<1>4. CASE \/ LockShared(t) \/ OrderLock(t) \/ OrderUpgrade(t)
           \/ TryLock(t) \/ TryLockShared(t) \/ TryUpgrade(t) \/ TryOrderLock(t) \/ TryOrderUpgrade(t)
    <2>1. UNCHANGED condvars /\ pc'[t] = "ready" /\ OnlyMoves(t)
        BY <1>4, WakeTypes DEF LockShared, OrderLock, OrderUpgrade, TryLock, TryLockShared, TryUpgrade,
           TryOrderLock, TryOrderUpgrade, Between, Return, Goto, Become, OnlyMoves
    <2>2. statusCount < exclusive \/ statusCount \in {0, 1}
        BY <1>4 DEF LockShared, OrderLock, OrderUpgrade, TryLock, TryLockShared, TryUpgrade,
           TryOrderLock, TryOrderUpgrade, Passes, Admits
    <2>3. statusCount < exclusive
        BY <1>1, <2>2
    <2>4. statusCount' \in {exclusive, statusCount + 1, statusCount + exclusive, statusCount + (exclusive - 1)}
        BY <1>4 DEF LockShared, OrderLock, OrderUpgrade, TryLock, TryLockShared, TryUpgrade,
           TryOrderLock, TryOrderUpgrade
    <2>5. statusCount' \in Nat /\ statusCount' >= statusCount /\ statusCount' >= 1
        BY <1>1, <2>3, <2>4
    <2> QED
        BY <1>2, <2>1, <2>3, <2>5 DEF condvars
<1> QED
    BY <1>3, <1>4 DEF Takes

\* Completing an order that nobody is in the way of any more.
LEMMA EndsWhat ==
    ASSUME WaitInv, NEW t \in Threads, Ends(t)
    PROVE  /\ OnlyMoves(t) /\ pc'[t] = "ready" /\ UNCHANGED <<statusCount, condvars>>
           /\ t \notin Asleep /\ pc[t] \notin Signals
BY WakeTypes DEF Ends, FinishOrder, TryCompleteOrder, Between, Passes, Return, Goto, Become, OnlyMoves, Signals

\* The thread that gives something back was not about to notify, and nobody else moves.
LEMMA GivesOnly ==
    ASSUME WaitInv, NEW t \in Threads, GiveBack(t)
    PROVE  /\ OnlyMoves(t) /\ pc[t] = "ready" /\ pc'[t] \in {"ready"} \cup Signals
           /\ UNCHANGED condvars /\ t \notin Asleep
           /\ \A u \in Threads : pc[u] \in Signals => pc'[u] = pc[u]
           /\ \A s \in blocker \cup shareBlocker : s \in Threads /\ pc'[s] = pc[s]
<1>1. pc[t] = "ready" /\ UNCHANGED condvars
    BY DEF GiveBack, Unlock, UnlockShared, Downgrade, CancelLockOrder, CancelUpgradeOrder, Between
<1>2. \E where \in {"ready"} \cup Signals, status \in LockerStatus :
          pc' = [pc EXCEPT ![t] = where] /\ own' = [own EXCEPT ![t] = status]
    BY DEF GiveBack, Unlock, UnlockShared, Downgrade, CancelLockOrder, CancelUpgradeOrder, Goto, Become,
       SharedSignal, Signals, LockerStatus
<1>3. OnlyMoves(t) /\ pc'[t] \in {"ready"} \cup Signals
    BY <1>2, WakeTypes DEF OnlyMoves
<1>4. t \notin Asleep
    BY <1>1, WakeTypes
<1>5. \A s \in blocker \cup shareBlocker : s \in Threads /\ pc'[s] = pc[s]
    BY <1>3, <1>4, WakeTypes DEF OnlyMoves, Asleep
<1> QED
    BY <1>1, <1>3, <1>4, <1>5 DEF OnlyMoves, Signals

\* What each kind of give-back notifies.
LEMMA GivesWhat ==
    ASSUME WaitInv, NEW t \in Threads, GiveBack(t)
    PROVE  \/ pc'[t] = "signalBoth"
           \/ Downgrade(t) /\ ~PreferExclusive /\ pc'[t] = "signalShareAll" /\ statusCount' = 1
           \/ /\ UnlockShared(t) /\ statusCount' = statusCount - 1
              /\ pc'[t] = SharedSignal(statusCount') /\ own[t] = "sharedLocked" /\ pc[t] = "ready"
BY WakeTypes DEF GiveBack, Unlock, UnlockShared, Downgrade, CancelLockOrder, CancelUpgradeOrder, Goto, Between

\* The notifications.
LEMMA NotifiesWhat ==
    ASSUME WaitInv, NEW t \in Threads, NotifyBlocker(t) \/ NotifySharers(t)
    PROVE  /\ OnlyMoves(t) /\ t \notin Asleep /\ UNCHANGED statusCount
           /\ \/ /\ pc[t] = "signalBoth" /\ pc'[t] = "signalShareAll" /\ shareBlocker' = shareBlocker
              \/ /\ pc[t] = "signalBlocker" /\ pc'[t] = "ready" /\ shareBlocker' = shareBlocker
              \/ /\ pc[t] \in {"signalShareOne", "signalShareAll"} /\ pc'[t] = "ready" /\ blocker' = blocker
           /\ pc[t] \in {"signalBoth", "signalBlocker"} =>
                 IF blocker = {} THEN blocker' = {} ELSE \E w \in blocker : blocker' = blocker \ {w}
           /\ pc[t] = "signalShareAll" => shareBlocker' = {}
           /\ pc[t] = "signalShareOne" =>
                 IF shareBlocker = {} THEN shareBlocker' = {} ELSE \E w \in shareBlocker : shareBlocker' = shareBlocker \ {w}
<1>1. t \notin Asleep
    BY WakeTypes DEF NotifyBlocker, NotifySharers, Signals
<1>2. CASE NotifyBlocker(t)
    BY <1>1, <1>2, WakeTypes DEF NotifyBlocker, Goto, OnlyMoves
<1>3. CASE NotifySharers(t)
    BY <1>1, <1>3, WakeTypes DEF NotifySharers, Goto, OnlyMoves
<1> QED
    BY <1>2, <1>3

\* Whoever sleeps is in a wait.
LEMMA SleepersHold ==
    ASSUME WaitInv, MaxShare > 1, NEW t \in Threads, Step(t)
    PROVE  OnlyMoves(t) /\ Sleepers'
<1>1. CASE Call(t) /\ UNCHANGED condvars
    BY <1>1, CallMoves, SleepersStay DEF condvars, Asleep
<1>2. CASE Takes(t)
    BY <1>2, TakesWhat, SleepersStay DEF Asleep, Waits
<1>3. CASE Ends(t)
    BY <1>3, EndsWhat, SleepersStay DEF Asleep, condvars
<1>4. CASE GiveBack(t)
    BY <1>4, GivesOnly, SleepersStay DEF Asleep, condvars, Signals
<1>5. CASE NotifyBlocker(t) \/ NotifySharers(t)
    <2>1. blocker' \subseteq blocker /\ shareBlocker' \subseteq shareBlocker
        BY <1>5 DEF NotifyBlocker, NotifySharers
    <2>2. OnlyMoves(t) /\ t \notin Asleep /\ pc'[t] # "upgrade"
        BY <1>5, NotifiesWhat
    <2> QED
        BY <2>1, <2>2, SleepersStay DEF Asleep
<1>6. CASE Sleep(t) \/ SpuriousWake(t)
    <2>1. OnlyMoves(t) /\ pc'[t] = pc[t]
        BY <1>6 DEF Sleep, SpuriousWake, OnlyMoves
    <2>2. pc[t] = "upgrade" => Upgradeable
        BY DEF WaitInv, Sleepers
    <2>3. CASE Sleep(t)
        BY <2>1, <2>2, <2>3, SleepersStay DEF Sleep, Asleep
    <2>4. CASE SpuriousWake(t)
        BY <2>1, <2>2, <2>4, SleepersStay DEF SpuriousWake
    <2> QED
        BY <1>6, <2>3, <2>4
<1> QED
    BY <1>1, <1>2, <1>3, <1>4, <1>5, <1>6 DEF Step, Proceed, Try, Takes, Ends

-----------------------------------------------------------------------------
(***************************************************************************)
(* The readers.                                                            *)
(***************************************************************************)
\* A step that lets nobody in who was not admitted, and is not a notification.
LEMMA ReadersKeep ==
    ASSUME ReaderInv, NEW t \in Threads, OnlyMoves(t), pc[t] \notin Signals,
           shareBlocker' \subseteq shareBlocker, statusCount' < exclusive => statusCount < exclusive
    PROVE  SharersNoticed'
<1> SUFFICES ASSUME shareBlocker' # {}, statusCount' < exclusive PROVE SharersNoticed'
    BY DEF SharersNoticed, exclusive
<1>1. shareBlocker # {} /\ statusCount < exclusive
    OBVIOUS
<1>2. \A u \in Threads : pc[u] \in Signals => pc'[u] = pc[u]
    BY DEF OnlyMoves
<1> QED
    BY <1>1, <1>2 DEF ReaderInv, SharersNoticed, Signals

\* When the mutex is full of shared owners, all threads but one own a share.
LEMMA OneOutside ==
    ASSUME WaitInv, Spacious, NEW t \in Threads, Stand[t] = "sharedLocked", statusCount = exclusive
    PROVE  \A s, r \in shareBlocker : s = r
<1>1. Consistent(Stand, exclusive) /\ CallInv
    BY DEF WaitInv, IInv
<1>2. \A u \in Threads : Stand[u] # "locked"
    BY <1>1, LockedAlone
<1>3. \A u \in Threads : Stand[u] \notin Ordered
    BY <1>1, OrderAlone DEF Ordered
<1>4. HoldersOf(Stand) = {} /\ UpgradersOf(Stand) = {}
    BY <1>2, <1>3 DEF HoldersOf, UpgradersOf, Ordered
<1>5. ShareCount(Stand) = MaxShare
    BY <1>1, <1>4, SharersFinite DEF Consistent, Weighs, exclusive
<1>6. SharersOf(Stand) \subseteq Threads /\ IsFiniteSet(SharersOf(Stand))
    BY SharersFinite DEF SharersOf
<1>7. ASSUME NEW s \in shareBlocker PROVE s \in Threads /\ s \notin SharersOf(Stand)
    <2>1. s \in Threads /\ pc[s] = "lockShared"
        BY WakeTypes DEF WaitInv, Sleepers
    <2>2. Stand[s] = "idle"
        BY <1>1, <2>1 DEF CallInv, Stand, Standing
    <2> QED
        BY <2>1, <2>2 DEF SharersOf, Shared
<1> SUFFICES ASSUME NEW s \in shareBlocker, NEW r \in shareBlocker, s # r PROVE FALSE
    OBVIOUS
<1> DEFINE more == SharersOf(Stand) \cup {s}
           most == more \cup {r}
<1>8. IsFiniteSet(more) /\ Cardinality(more) = MaxShare + 1
    BY <1>5, <1>6, <1>7, FS_AddElement DEF ShareCount
<1>9. IsFiniteSet(most) /\ Cardinality(most) = MaxShare + 2
    <2>1. r \notin more
        BY <1>7
    <2> HIDE DEF more
    <2> QED
        BY <1>8, <2>1, MaxShareAssumption, FS_AddElement
<1>10. most \subseteq Threads
    BY <1>6, <1>7
<1> HIDE DEF most, more
<1>11. Cardinality(most) <= Cardinality(Threads) /\ Cardinality(Threads) \in Nat
    BY <1>10, ThreadsAssumption, FS_Subset, FS_CardinalityType
<1> QED
    BY <1>9, <1>11, MaxShareAssumption DEF Spacious

\* What is given back is told to the readers, if they can use it.
LEMMA GivesTell ==
    ASSUME ReaderInv, Spacious, NEW t \in Threads, GiveBack(t)
    PROVE  SharersNoticed'
<1>1. WaitInv
    BY DEF ReaderInv
<1>2. CASE pc'[t] \in {"signalBoth", "signalShareAll"}
    BY <1>2 DEF SharersNoticed
<1>3. CASE /\ UnlockShared(t) /\ statusCount' = statusCount - 1
           /\ pc'[t] = SharedSignal(statusCount') /\ own[t] = "sharedLocked" /\ pc[t] = "ready"
    <2>1. OnlyMoves(t) /\ pc[t] \notin Signals /\ UNCHANGED condvars
        BY <1>1, GivesOnly DEF Signals
    <2>2. statusCount \in Nat /\ exclusive \in Nat \ {0, 1}
        BY <1>1, MaxShareAssumption, WakeTypes DEF Spacious, exclusive
    <2>3. CASE statusCount = exclusive
        <3>1. pc'[t] = "signalShareOne"
            BY <1>3, <2>2, <2>3 DEF SharedSignal
        <3>2. Stand[t] = "sharedLocked"
            BY <1>3 DEF Stand, Standing
        <3>3. \A s, r \in shareBlocker : s = r
            BY <1>1, <2>3, <3>2, OneOutside
        <3> QED
            BY <2>1, <3>1, <3>3 DEF SharersNoticed, condvars
    <2>4. CASE statusCount # exclusive
        <3>1. statusCount' < exclusive => statusCount < exclusive
            BY <1>3, <2>2, <2>4
        <3> QED
            BY <2>1, <3>1, ReadersKeep DEF condvars
    <2> QED
        BY <2>3, <2>4
<1> QED
    BY <1>1, <1>2, <1>3, GivesWhat

\* A notification of shareBlocker_ reaches all it is meant for.
LEMMA NotifiesTell ==
    ASSUME ReaderInv, NEW t \in Threads, NotifyBlocker(t) \/ NotifySharers(t)
    PROVE  SharersNoticed'
<1>1. WaitInv
    BY DEF ReaderInv
<1>2. OnlyMoves(t) /\ UNCHANGED statusCount
    BY <1>1, NotifiesWhat
<1> SUFFICES ASSUME shareBlocker' # {}, statusCount' < exclusive PROVE SharersNoticed'
    BY DEF SharersNoticed, exclusive
<1>3. CASE pc[t] = "signalBoth"
    <2>1. pc'[t] = "signalShareAll"
        BY <1>1, <1>3, NotifiesWhat
    <2> QED
        BY <2>1 DEF SharersNoticed
<1>4. CASE pc[t] = "signalBlocker"
    <2>1. shareBlocker' = shareBlocker
        BY <1>1, <1>4, NotifiesWhat
    <2> QED
        BY <1>2, <1>4, <2>1 DEF ReaderInv, SharersNoticed, OnlyMoves, exclusive
<1>5. CASE pc[t] = "signalShareAll"
    BY <1>1, <1>5, NotifiesWhat
<1>6. CASE pc[t] = "signalShareOne"
    <2>1. PICK w \in shareBlocker : shareBlocker' = shareBlocker \ {w}
        BY <1>1, <1>6, NotifiesWhat
    <2>2. PICK s \in shareBlocker : s # w
        BY <2>1
    <2>3. PICK u \in Threads : pc[u] \in {"signalBoth", "signalShareAll"}
        BY <1>2, <2>1, <2>2 DEF ReaderInv, SharersNoticed, exclusive
    <2>4. pc'[u] = pc[u]
        BY <1>2, <1>6, <2>3 DEF OnlyMoves
    <2> QED
        BY <2>3, <2>4 DEF SharersNoticed
<1> QED
    BY <1>1, <1>3, <1>4, <1>5, <1>6, NotifiesWhat

LEMMA NextTells ==
    ASSUME Spacious, ReaderInv, [Next]_vars
    PROVE  ReaderInv'
<1>1. IInv' /\ WaitInv
    BY NextGood DEF Good, ReaderInv, WaitInv
<1>2. CASE UNCHANGED vars
    BY <1>1, <1>2 DEF ReaderInv, WaitInv, Sleepers, SharersNoticed, vars, exclusive
<1>3. CASE Next
    <2>1. PICK t \in Threads : Step(t)
        BY <1>3 DEF Next, Step
    <2>2. OnlyMoves(t) /\ Sleepers'
        BY <1>1, <2>1, SleepersHold DEF Spacious
    <2>3. CASE Call(t) /\ UNCHANGED condvars
        <3>1. pc[t] \notin Signals /\ UNCHANGED <<statusCount, condvars>>
            BY <1>1, <2>3, CallMoves
        <3>2. SharersNoticed'
            BY <2>2, <3>1, ReadersKeep DEF condvars
        <3> QED
            BY <1>1, <2>2, <3>2 DEF ReaderInv, WaitInv
    <2>4. CASE Takes(t)
        <3>1. pc[t] \notin Signals /\ statusCount < exclusive /\ shareBlocker' = shareBlocker
            BY <1>1, <2>4, TakesWhat DEF Spacious
        <3>2. SharersNoticed'
            BY <2>2, <3>1, ReadersKeep
        <3> QED
            BY <1>1, <2>2, <3>2 DEF ReaderInv, WaitInv
    <2>5. CASE Ends(t)
        <3>1. pc[t] \notin Signals /\ UNCHANGED <<statusCount, condvars>>
            BY <1>1, <2>5, EndsWhat
        <3>2. SharersNoticed'
            BY <2>2, <3>1, ReadersKeep DEF condvars
        <3> QED
            BY <1>1, <2>2, <3>2 DEF ReaderInv, WaitInv
    <2>6. CASE GiveBack(t) \/ NotifyBlocker(t) \/ NotifySharers(t)
        BY <1>1, <2>2, <2>6, GivesTell, NotifiesTell DEF ReaderInv, WaitInv
    <2>7. CASE SpuriousWake(t)
        <3>1. t \in Asleep /\ UNCHANGED statusCount /\ shareBlocker' \subseteq shareBlocker
            BY <2>7 DEF SpuriousWake
        <3>2. pc[t] \notin Signals
            BY <1>1, <3>1, WakeTypes
        <3>3. SharersNoticed'
            BY <2>2, <3>1, <3>2, ReadersKeep
        <3> QED
            BY <1>1, <2>2, <3>3 DEF ReaderInv, WaitInv
    <2>8. CASE Sleep(t)
        <3>1. pc[t] \in Waits /\ ~Admits(pc[t]) /\ UNCHANGED statusCount
            BY <2>8 DEF Sleep
        <3>2. pc[t] \notin Signals
            BY <1>1, <3>1, WakeTypes
        <3>3. CASE pc[t] = "lockShared"
            <4>1. ~(statusCount' < exclusive)
                BY <3>1, <3>3, AdmitsWhat
            <4> QED
                BY <1>1, <2>2, <4>1 DEF ReaderInv, WaitInv, SharersNoticed, exclusive
        <3>4. CASE pc[t] # "lockShared"
            <4>1. shareBlocker' = shareBlocker
                BY <2>8, <3>4 DEF Sleep
            <4>2. SharersNoticed'
                BY <2>2, <3>1, <3>2, <4>1, ReadersKeep
            <4> QED
                BY <1>1, <2>2, <4>2 DEF ReaderInv, WaitInv
        <3> QED
            BY <3>3, <3>4
    <2> QED
        BY <2>1, <2>3, <2>4, <2>5, <2>6, <2>7, <2>8 DEF Step, Proceed, Try, Takes, Ends
<1> QED
    BY <1>2, <1>3

LEMMA InitWaits ==
    ASSUME Init
    PROVE  ReaderInv /\ blocker = {} /\ \A t \in Threads : pc[t] = "ready"
<1>1. blocker = {} /\ shareBlocker = {} /\ \A t \in Threads : pc[t] = "ready"
    BY DEF Init, StateInit
<1>2. IInv
    BY InitInv
<1> QED
    BY <1>1, <1>2 DEF ReaderInv, WaitInv, Sleepers, SharersNoticed, Waits

\* Where maxShare is not 1: readers asleep on a mutex that has room again are being woken, in every behaviour of at most
\* maxShare + 1 threads: the mutex may fill, and any number of threads may be in any calls.
THEOREM SharersReached ==
    ASSUME Spacious
    PROVE  Spec => []SharersNoticed
<1>1. Init => ReaderInv
    BY InitWaits
<1>2. ReaderInv /\ [Next]_vars => ReaderInv'
    BY NextTells
<1>3. ReaderInv => SharersNoticed
    BY DEF ReaderInv
<1> QED
    BY <1>1, <1>2, <1>3, PTL DEF Spec
-----------------------------------------------------------------------------
(***************************************************************************)
(* The threads in lock, where exclusives are not preferred and nobody      *)
(* upgrades: they all wait for the same thing, so that it does not matter  *)
(* which of them a notification reaches.                                   *)
(***************************************************************************)
LockersNoticed ==
    blocker # {} /\ statusCount = 0 =>
        \E u \in Threads : \/ pc[u] \in {"signalBoth", "signalBlocker"}
                           \/ pc[u] = "lock" /\ u \notin blocker
LockerInv == WaitInv /\ LockersNoticed

LEMMA OnlyLock ==
    ASSUME WaitInv, ~PreferExclusive, ~Upgradeable, NEW t \in Threads, pc[t] \in Waits
    PROVE  pc[t] \in {"lock", "lockShared"}
<1>1. CallInv
    BY DEF WaitInv, IInv
<1>2. pc[t] # "upgrade"
    BY DEF WaitInv, Sleepers
<1>3. pc[t] \notin {"orderLock", "orderUpgrade"} /\ Standing(t) \notin Ordered
    BY <1>1 DEF CallInv
<1>4. pc[t] \notin PlacedWaits
    BY <1>1, <1>3 DEF CallInv, PlacedWaits, Standing, Ordered
<1> QED
    BY <1>2, <1>3, <1>4 DEF Waits, PlacedWaits

\* A step after which nobody new sleeps on blocker_, by a thread that was not about to take the
\* mutex or to notify.
LEMMA LockersKeep ==
    ASSUME LockerInv, NEW t \in Threads, OnlyMoves(t), UNCHANGED <<statusCount, blocker>>,
           pc[t] \notin {"signalBoth", "signalBlocker", "lock"} \/ pc'[t] = pc[t]
    PROVE  LockersNoticed'
BY DEF LockerInv, LockersNoticed, OnlyMoves

LEMMA NextReaches ==
    ASSUME MaxShare > 1, ~PreferExclusive, ~Upgradeable, LockerInv, [Next]_vars
    PROVE  LockerInv'
<1>1. IInv' /\ WaitInv
    BY NextGood DEF Good, LockerInv, WaitInv
<1>2. CASE UNCHANGED vars
    BY <1>1, <1>2 DEF LockerInv, WaitInv, Sleepers, LockersNoticed, vars
<1>3. CASE Next
    <2>1. PICK t \in Threads : Step(t)
        BY <1>3 DEF Next, Step
    <2>2. OnlyMoves(t) /\ Sleepers'
        BY <1>1, <2>1, SleepersHold
    <2> SUFFICES LockersNoticed'
        BY <1>1, <2>2 DEF LockerInv, WaitInv
    <2>3. CASE Call(t) /\ UNCHANGED condvars
        <3>1. UNCHANGED <<statusCount, blocker>> /\ pc[t] \notin Signals
            BY <1>1, <2>3, CallMoves DEF condvars
        <3>2. pc[t] # "lock"
            BY <2>3 DEF Call, CallLock, CallLockShared, CallOrderLock, CallUpgrade, CallOrderUpgrade,
               CallCompleteOrder, Between
        <3> QED
            BY <2>2, <3>1, <3>2, LockersKeep DEF Signals
    <2>4. CASE Takes(t)
        <3>1. statusCount' \in Nat /\ statusCount' >= 1
            BY <1>1, <2>4, TakesWhat
        <3> QED
            BY <3>1 DEF LockersNoticed
    <2>5. CASE Ends(t)
        <3>1. UNCHANGED <<statusCount, blocker>> /\ pc[t] \notin Signals
            BY <1>1, <2>5, EndsWhat DEF condvars
        <3>2. pc[t] # "lock"
            BY <2>5 DEF Ends, FinishOrder, TryCompleteOrder, Between, Passes
        <3> QED
            BY <2>2, <3>1, <3>2, LockersKeep DEF Signals
    <2>6. CASE GiveBack(t)
        <3>1. CASE pc'[t] = "signalBoth"
            BY <3>1 DEF LockersNoticed
        <3>2. CASE Downgrade(t) /\ statusCount' = 1
            BY <3>2 DEF LockersNoticed
        <3>3. CASE pc'[t] = SharedSignal(statusCount')
            <4>1. statusCount' = 0 => pc'[t] = "signalBlocker"
                BY <3>3 DEF SharedSignal
            <4> QED
                BY <4>1 DEF LockersNoticed
        <3> QED
            BY <1>1, <2>6, <3>1, <3>2, <3>3, GivesWhat
    <2>7. CASE NotifyBlocker(t) \/ NotifySharers(t)
        <3>1. CASE pc[t] \in {"signalBoth", "signalBlocker"}
            <4>1. IF blocker = {} THEN blocker' = {} ELSE \E w \in blocker : blocker' = blocker \ {w}
                BY <1>1, <2>7, <3>1, NotifiesWhat
            <4>2. CASE blocker = {}
                BY <4>1, <4>2 DEF LockersNoticed
            <4>3. CASE blocker # {}
                <5>1. PICK w \in blocker : blocker' = blocker \ {w}
                    BY <4>1, <4>3
                <5>2. w \in Threads /\ pc[w] \in Waits \ {"lockShared"}
                    BY <1>1, WakeTypes DEF WaitInv, Sleepers
                <5>3. pc[w] = "lock" /\ w # t
                    BY <1>1, <3>1, <5>2, OnlyLock
                <5>4. pc'[w] = "lock"
                    BY <2>2, <5>2, <5>3 DEF OnlyMoves
                <5> QED
                    BY <5>1, <5>2, <5>4 DEF LockersNoticed
            <4> QED
                BY <4>2, <4>3
        <3>2. CASE pc[t] \in {"signalShareOne", "signalShareAll"}
            <4>1. UNCHANGED <<statusCount, blocker>>
                BY <1>1, <2>7, <3>2, NotifiesWhat
            <4> QED
                BY <2>2, <3>2, <4>1, LockersKeep
        <3> QED
            BY <1>1, <2>7, <3>1, <3>2, NotifiesWhat
    <2>8. CASE SpuriousWake(t)
        <3>1. UNCHANGED <<statusCount, pc>> /\ blocker' = blocker \ {t}
            BY <2>8 DEF SpuriousWake
        <3>2. CASE t \in blocker
            <4>1. pc[t] = "lock"
                BY <1>1, <3>2, OnlyLock DEF WaitInv, Sleepers
            <4> QED
                BY <3>1, <4>1 DEF LockersNoticed
        <3>3. CASE t \notin blocker
            BY <2>2, <3>1, <3>3, LockersKeep
        <3> QED
            BY <3>2, <3>3
    <2>9. CASE Sleep(t)
        <3>1. pc[t] \in Waits /\ ~Admits(pc[t]) /\ UNCHANGED <<statusCount, pc>>
            BY <2>9 DEF Sleep
        <3>2. pc[t] \in {"lock", "lockShared"}
            BY <1>1, <3>1, OnlyLock
        <3>3. CASE pc[t] = "lock"
            <4>1. statusCount' # 0
                BY <3>1, <3>3, AdmitsWhat
            <4> QED
                BY <4>1 DEF LockersNoticed
        <3>4. CASE pc[t] = "lockShared"
            <4>1. blocker' = blocker
                BY <2>9, <3>4 DEF Sleep
            <4> QED
                BY <2>2, <3>1, <4>1, LockersKeep
        <3> QED
            BY <3>2, <3>3, <3>4
    <2> QED
        BY <2>1, <2>3, <2>4, <2>5, <2>6, <2>7, <2>8, <2>9 DEF Step, Proceed, Try, Takes, Ends
<1> QED
    BY <1>2, <1>3

\* Where exclusives are not preferred and nobody upgrades, and of at most maxShare + 1 threads any
\* number are in lock: a thread asleep although its condition holds is never the last word.
THEOREM NoLockerForgotten ==
    ASSUME Spacious, ~PreferExclusive, ~Upgradeable
    PROVE  Spec => [](LockersNoticed /\ NoLostWakeup)
<1>1. Init => LockerInv /\ ReaderInv
    BY InitWaits DEF LockerInv, LockersNoticed, ReaderInv
<1>2. LockerInv /\ ReaderInv /\ [Next]_vars => LockerInv' /\ ReaderInv'
    BY NextReaches, NextTells DEF Spacious
<1>3. LockerInv /\ ReaderInv => LockersNoticed /\ NoLostWakeup
    <2> SUFFICES ASSUME LockerInv, ReaderInv, NEW t \in Asleep, Admits(pc[t])
                 PROVE  \E u \in Threads \ {t} : Stirring(u)
        BY DEF NoLostWakeup, LockerInv
    <2>1. WaitInv /\ t \in Threads
        BY WakeTypes DEF LockerInv, Asleep
    <2>2. pc[t] \in Waits
        BY <2>1, WakeTypes
    <2>3. CASE t \in blocker
        <3>1. pc[t] = "lock"
            BY <2>1, <2>2, <2>3, OnlyLock DEF WaitInv, Sleepers
        <3>2. statusCount = 0
            BY <3>1, AdmitsWhat
        <3>3. PICK u \in Threads : pc[u] \in {"signalBoth", "signalBlocker"} \/ (pc[u] = "lock" /\ u \notin blocker)
            BY <2>3, <3>2 DEF LockerInv, LockersNoticed
        <3>4. u # t /\ pc[u] # "ready" /\ u \notin shareBlocker /\ u \notin blocker
            BY <2>1, <2>3, <3>1, <3>3, WakeTypes DEF WaitInv, Sleepers, Signals, Asleep
        <3> QED
            BY <3>4 DEF Stirring, Asleep
    <2>4. CASE t \in shareBlocker
        <3>1. pc[t] = "lockShared"
            BY <2>1, <2>4 DEF WaitInv, Sleepers
        <3>2. statusCount < exclusive
            BY <3>1, AdmitsWhat
        <3>3. PICK u \in Threads : pc[u] \in Signals
            BY <2>4, <3>2 DEF ReaderInv, SharersNoticed, Signals
        <3>4. u \notin Asleep /\ pc[u] # "ready"
            BY <2>1, <3>3, WakeTypes DEF Signals
        <3> QED
            BY <2>4, <3>4 DEF Stirring, Asleep
    <2> QED
        BY <2>3, <2>4 DEF Asleep
<1> QED
    BY <1>1, <1>2, <1>3, PTL DEF Spec
-----------------------------------------------------------------------------
(***************************************************************************)
(* All waits on blocker_, one thread at a time in them.                    *)
(***************************************************************************)
BlockerNoticed(s) ==
    Admits(pc[s]) => \E u \in Threads : pc[u] \in {"signalBoth", "signalBlocker"}
BlockersNoticed == \A s \in blocker : BlockerNoticed(s)
WakeInv == WaitInv /\ OneWaiter /\ BlockersNoticed

\* A step of a thread that is not about to notify, after which whoever is admitted was so before.
LEMMA BlockersKeep ==
    ASSUME WakeInv, NEW t \in Threads, OnlyMoves(t), pc[t] \notin Signals, t \notin blocker',
           blocker' \subseteq blocker,
           \A s \in blocker : Admits(pc[s])' => Admits(pc[s])
    PROVE  BlockersNoticed'
<1> SUFFICES ASSUME NEW s \in blocker', Admits(pc[s])'
             PROVE  \E u \in Threads : pc'[u] \in {"signalBoth", "signalBlocker"}
    BY DEF BlockersNoticed, BlockerNoticed
<1>1. s \in blocker /\ Admits(pc[s])
    OBVIOUS
<1>2. PICK u \in Threads : pc[u] \in {"signalBoth", "signalBlocker"}
    BY <1>1 DEF WakeInv, BlockersNoticed, BlockerNoticed
<1>3. pc'[u] = pc[u]
    BY <1>2 DEF OnlyMoves, Signals
<1> QED
    BY <1>2, <1>3

\* With the count as it was, whoever is admitted was so before.
LEMMA AdmittedBefore ==
    ASSUME WaitInv, NEW t \in Threads, OnlyMoves(t), UNCHANGED statusCount, t \notin blocker
    PROVE  \A s \in blocker : Admits(pc[s])' => Admits(pc[s])
<1> SUFFICES ASSUME NEW s \in blocker PROVE Admits(pc[s])' <=> Admits(pc[s])
    OBVIOUS
<1>1. pc'[s] = pc[s]
    BY WakeTypes DEF OnlyMoves
<1> QED
    BY <1>1 DEF Admits, exclusive

\* Whoever sleeps on blocker_ and is admitted after something was taken was admitted before.
LEMMA TakenBefore ==
    ASSUME WaitInv, NEW t \in Threads, OnlyMoves(t), t \notin blocker,
           statusCount < exclusive, statusCount' \in Nat, statusCount' >= statusCount
    PROVE  \A s \in blocker : Admits(pc[s])' => Admits(pc[s])
<1> SUFFICES ASSUME NEW s \in blocker, Admits(pc[s])' PROVE Admits(pc[s])
    OBVIOUS
<1>1. s \in Threads /\ pc[s] \in Waits \ {"lockShared"} /\ pc'[s] = pc[s]
    BY WakeTypes DEF WaitInv, Sleepers, OnlyMoves
<1>2. statusCount \in Nat /\ exclusive \in Nat /\ exclusive' = exclusive
    BY WakeTypes DEF exclusive
<1>3. /\ pc[s] \in PlacedWaits => statusCount >= exclusive
      /\ pc[s] = "upgrade" => statusCount >= 1
    BY <1>1, OrdersWeigh DEF WaitInv
<1>4. pc[s] \in {"lock", "orderLock", "upgrade", "orderUpgrade"}
    BY <1>1, <1>2, <1>3 DEF Waits, PlacedWaits
<1>5. CASE pc[s] = "lock"
    <2>1. IF PreferExclusive THEN statusCount' < exclusive ELSE statusCount' = 0
        BY <1>1, <1>5, AdmitsWhat DEF Admits, exclusive
    <2> QED
        BY <1>2, <1>5, <2>1, AdmitsWhat
<1>6. CASE pc[s] = "upgrade"
    <2>1. PreferExclusive \/ statusCount' = 1
        BY <1>1, <1>6, AdmitsWhat DEF Admits, exclusive
    <2> QED
        BY <1>2, <1>3, <1>6, <2>1, AdmitsWhat
<1>7. CASE pc[s] \in {"orderLock", "orderUpgrade"}
    BY <1>7, AdmitsWhat
<1> QED
    BY <1>4, <1>5, <1>6, <1>7

LEMMA TakersReach ==
    ASSUME WakeInv, MaxShare > 1, NEW t \in Threads, Takes(t)
    PROVE  BlockersNoticed'
<1>1. WaitInv
    BY DEF WakeInv
<1>2. /\ OnlyMoves(t) /\ t \notin blocker /\ pc[t] \notin Signals
      /\ statusCount < exclusive /\ statusCount' \in Nat /\ statusCount' >= statusCount
    BY <1>1, TakesWhat DEF Asleep
<1>3. \A s \in blocker : Admits(pc[s])' => Admits(pc[s])
    BY <1>1, <1>2, TakenBefore
<1>4. CASE blocker' = blocker
    BY <1>2, <1>3, <1>4, BlockersKeep
<1>5. CASE blocker' = blocker \cup {t} /\ statusCount' # exclusive /\ pc'[t] \in {"lockPlaced", "upgradePlaced"}
    <2> SUFFICES ASSUME NEW s \in blocker', Admits(pc[s])'
                 PROVE  \E u \in Threads : pc'[u] \in {"signalBoth", "signalBlocker"}
        BY DEF BlockersNoticed, BlockerNoticed
    <2>1. s # t
        BY <1>5 DEF Admits, exclusive
    <2>2. PICK u \in Threads : pc[u] \in {"signalBoth", "signalBlocker"}
        BY <1>3, <1>5, <2>1 DEF WakeInv, BlockersNoticed, BlockerNoticed
    <2>3. pc'[u] = pc[u]
        BY <1>2, <2>2 DEF OnlyMoves, Signals
    <2> QED
        BY <2>2, <2>3
<1> QED
    BY <1>1, <1>4, <1>5, TakesWhat

\* Beside a shared owner the count is not exclusive_: an order adds to it, and the shares are too few.
LEMMA NotFull ==
    ASSUME IInv, Roomy, NEW t \in Threads, Stand[t] = "sharedLocked"
    PROVE  statusCount # exclusive
<1> SUFFICES ASSUME statusCount = exclusive PROVE FALSE
    OBVIOUS
<1>1. Consistent(Stand, exclusive)
    BY DEF IInv
<1>2. \A u \in Threads : Stand[u] # "locked"
    BY <1>1, LockedAlone
<1>3. \A u \in Threads : Stand[u] \notin Ordered
    BY <1>1, OrderAlone DEF Ordered
<1>4. HoldersOf(Stand) = {} /\ UpgradersOf(Stand) = {}
    BY <1>2, <1>3 DEF HoldersOf, UpgradersOf, Ordered
<1>5. ShareCount(Stand) = MaxShare
    BY <1>1, <1>4, SharersFinite DEF Consistent, Weighs, exclusive
<1>6. SharersOf(Stand) \subseteq Threads
    BY DEF SharersOf
<1>7. Cardinality(SharersOf(Stand)) <= Cardinality(Threads) /\ Cardinality(Threads) \in Nat
    BY <1>6, ThreadsAssumption, FS_Subset, FS_CardinalityType
<1> QED
    BY <1>5, <1>7, MaxShareAssumption DEF ShareCount, Roomy

\* Where exclusives are not preferred, nobody on blocker_ is admitted next to a shared owner.
LEMMA DowngradeReaches ==
    ASSUME WakeInv, ~PreferExclusive, NEW t \in Threads, Downgrade(t), OnlyMoves(t), statusCount' = 1
    PROVE  BlockersNoticed'
<1> SUFFICES ASSUME NEW s \in blocker' PROVE ~Admits(pc[s])'
    BY DEF BlockersNoticed, BlockerNoticed
<1>1. s \in Threads /\ s # t /\ pc'[s] = pc[s] /\ pc[s] \in Waits \ {"lockShared"}
    BY WakeTypes DEF Downgrade, Between, condvars, Asleep, WakeInv, WaitInv, Sleepers, OnlyMoves
<1>2. pc[s] \notin PlacedWaits \cup {"orderLock", "orderUpgrade"}
    BY <1>1, OrdersWeigh DEF WakeInv, WaitInv, IInv, CallInv
<1>3. pc[s] # "upgrade"
    <2>1. Stand[t] = "locked"
        BY DEF Downgrade, Between, Stand, Standing
    <2>2. Stand[s] = "idle"
        BY <1>1, <2>1, LockedAlone DEF WakeInv, WaitInv, IInv
    <2> QED
        BY <1>1, <2>2, OrdersWeigh DEF WakeInv, WaitInv, Stand, Standing
<1>4. pc[s] = "lock"
    BY <1>1, <1>2, <1>3 DEF Waits, PlacedWaits
<1> QED
    BY <1>1, <1>4 DEF Admits

\* The last share that a thread on blocker_ waits for is given back with a notification of it.
LEMMA UnshareReaches ==
    ASSUME WakeInv, Roomy, MaxShare > 1, NEW t \in Threads, OnlyMoves(t), UNCHANGED condvars, t \notin Asleep,
           statusCount' = statusCount - 1, pc'[t] = SharedSignal(statusCount'),
           own[t] = "sharedLocked", pc[t] = "ready"
    PROVE  BlockersNoticed'
<1>1. WaitInv /\ statusCount \in Nat /\ exclusive \in Nat \ {0, 1} /\ exclusive' = exclusive
    BY WakeTypes, MaxShareAssumption DEF WakeInv, exclusive
<1>2. statusCount # exclusive
    <2>1. Stand[t] = "sharedLocked"
        BY DEF Stand, Standing
    <2> QED
        BY <1>1, <2>1, NotFull DEF WaitInv
<1>3. statusCount' < exclusive => statusCount < exclusive
    BY <1>1, <1>2
<1>4. CASE statusCount' \in {0, lonely}
    <2>1. pc'[t] = "signalBlocker"
        BY <1>1, <1>2, <1>4 DEF SharedSignal
    <2> QED
        BY <2>1 DEF BlockersNoticed, BlockerNoticed
<1>5. CASE statusCount' \notin {0, lonely}
    <2> SUFFICES ASSUME NEW s \in blocker, Admits(pc[s])' PROVE Admits(pc[s])
        BY BlockersKeep DEF condvars, Asleep, Signals
    <2>1. s \in Threads /\ pc'[s] = pc[s] /\ pc[s] \in Waits \ {"lockShared"}
        BY <1>1, WakeTypes DEF OnlyMoves, Asleep, WaitInv, Sleepers
    <2>2. pc[s] \notin PlacedWaits
        <3>1. ASSUME pc[s] \in PlacedWaits PROVE FALSE
            <4>1. lonely = exclusive
                BY <1>1, <2>1, <3>1, OrdersWeigh DEF WaitInv, lonely
            <4>2. statusCount' = exclusive
                BY <2>1, <3>1 DEF Admits, PlacedWaits, exclusive
            <4> QED
                BY <1>5, <4>1, <4>2
        <3> QED
            BY <3>1
    <2>3. pc[s] \in {"lock", "orderLock", "upgrade", "orderUpgrade"}
        BY <2>1, <2>2 DEF Waits, PlacedWaits
    <2>4. CASE pc[s] = "lock"
        <3>1. IF PreferExclusive THEN statusCount' < exclusive ELSE statusCount' = 0
            BY <2>1, <2>4 DEF Admits, exclusive
        <3> QED
            BY <1>3, <1>5, <2>4, <3>1, AdmitsWhat
    <2>5. CASE pc[s] = "upgrade"
        <3>1. IF PreferExclusive THEN statusCount' < exclusive ELSE statusCount' = 1
            BY <2>1, <2>5 DEF Admits, exclusive
        <3>2. ~PreferExclusive => lonely = 1
            BY <1>1, <2>1, <2>5 DEF WaitInv, Sleepers, lonely
        <3> QED
            BY <1>3, <1>5, <2>5, <3>1, <3>2, AdmitsWhat
    <2>6. CASE pc[s] \in {"orderLock", "orderUpgrade"}
        <3>1. statusCount' < exclusive
            BY <2>1, <2>6 DEF Admits, exclusive
        <3> QED
            BY <1>3, <2>6, <3>1, AdmitsWhat
    <2> QED
        BY <2>3, <2>4, <2>5, <2>6
<1> QED
    BY <1>4, <1>5

LEMMA GiversReach ==
    ASSUME WakeInv, Roomy, MaxShare > 1, NEW t \in Threads, GiveBack(t)
    PROVE  BlockersNoticed'
<1>1. WaitInv
    BY DEF WakeInv
<1>2. OnlyMoves(t) /\ UNCHANGED condvars /\ t \notin Asleep
    BY <1>1, GivesOnly
<1>3. CASE pc'[t] = "signalBoth"
    BY <1>3 DEF BlockersNoticed, BlockerNoticed
<1>4. CASE Downgrade(t) /\ ~PreferExclusive /\ statusCount' = 1
    BY <1>2, <1>4, DowngradeReaches
<1>5. CASE /\ statusCount' = statusCount - 1 /\ pc'[t] = SharedSignal(statusCount')
           /\ own[t] = "sharedLocked" /\ pc[t] = "ready"
    BY <1>2, <1>5, UnshareReaches
<1> QED
    BY <1>1, <1>3, <1>4, <1>5, GivesWhat

\* A notification of blocker_ reaches the one thread that sleeps there.
LEMMA NotifiersReach ==
    ASSUME WakeInv, NEW t \in Threads, NotifyBlocker(t) \/ NotifySharers(t)
    PROVE  BlockersNoticed'
<1>1. WaitInv /\ OnlyMoves(t) /\ UNCHANGED statusCount /\ t \notin blocker
    BY NotifiesWhat DEF WakeInv, Asleep
<1>2. CASE pc[t] \in {"signalBoth", "signalBlocker"}
    <2>1. \A s, u \in blocker : s = u
        BY <1>1, WakeTypes DEF WakeInv, WaitInv, Sleepers, OneWaiter, BlockerCalls
    <2>2. IF blocker = {} THEN blocker' = {} ELSE \E w \in blocker : blocker' = blocker \ {w}
        BY <1>1, <1>2, NotifiesWhat
    <2>3. blocker' = {}
        BY <2>1, <2>2
    <2> QED
        BY <2>3 DEF BlockersNoticed
<1>3. CASE pc[t] \in {"signalShareOne", "signalShareAll"}
    <2>1. blocker' = blocker
        BY <1>1, <1>3, NotifiesWhat
    <2>2. \A s \in blocker : Admits(pc[s])' => Admits(pc[s])
        BY <1>1, AdmittedBefore
    <2> QED
        BY <1>1, <1>3, <2>1, <2>2 DEF WakeInv, BlockersNoticed, BlockerNoticed, OnlyMoves
<1> QED
    BY <1>1, <1>2, <1>3, NotifiesWhat

\* A thread that falls asleep has just seen that it is not admitted.
LEMMA SleeperReaches ==
    ASSUME WakeInv, NEW t \in Threads, Sleep(t)
    PROVE  BlockersNoticed'
<1>1. ~Admits(pc[t]) /\ UNCHANGED <<statusCount, pc>> /\ blocker' \subseteq blocker \cup {t}
    BY DEF Sleep
<1>2. \A w : Admits(w)' <=> Admits(w)
    BY <1>1 DEF Admits, exclusive
<1>3. ASSUME NEW s \in blocker' PROVE BlockerNoticed(s)'
    <2>1. CASE s = t
        BY <1>1, <1>2, <2>1 DEF BlockerNoticed
    <2>2. CASE s # t
        BY <1>1, <1>2, <1>3, <2>2 DEF WakeInv, BlockersNoticed, BlockerNoticed
    <2> QED
        BY <2>1, <2>2
<1> QED
    BY <1>3 DEF BlockersNoticed

LEMMA NextWakes ==
    ASSUME Roomy, MaxShare > 1, WakeInv, [Next /\ OneWaiter']_vars
    PROVE  WakeInv'
<1>1. IInv' /\ WaitInv
    BY NextGood DEF Good, WakeInv, WaitInv
<1>2. CASE UNCHANGED vars
    <2>1. OneWaiter' /\ Sleepers'
        BY <1>2 DEF WakeInv, OneWaiter, BlockerCalls, WaitInv, Sleepers, vars
    <2>2. BlockersNoticed'
        BY <1>2 DEF WakeInv, BlockersNoticed, BlockerNoticed, Admits, vars, exclusive
    <2> QED
        BY <1>1, <2>1, <2>2 DEF WakeInv, WaitInv
<1>3. CASE Next /\ OneWaiter'
    <2>1. PICK t \in Threads : Step(t)
        BY <1>3 DEF Next, Step
    <2>2. OnlyMoves(t) /\ Sleepers'
        BY <1>1, <2>1, SleepersHold
    <2> SUFFICES BlockersNoticed'
        BY <1>1, <1>3, <2>2 DEF WakeInv, WaitInv
    <2>3. CASE (Call(t) /\ UNCHANGED condvars) \/ Ends(t)
        <3>1. pc[t] \notin Signals /\ t \notin blocker /\ UNCHANGED <<statusCount, condvars>>
            BY <1>1, <2>3, CallMoves, EndsWhat DEF Asleep
        <3>2. \A s \in blocker : Admits(pc[s])' => Admits(pc[s])
            BY <1>1, <2>2, <3>1, AdmittedBefore
        <3> QED
            BY <2>2, <3>1, <3>2, BlockersKeep DEF condvars
    <2>4. CASE SpuriousWake(t)
        <3>1. UNCHANGED <<statusCount, pc>> /\ blocker' = blocker \ {t} /\ t \in Asleep
            BY <2>4 DEF SpuriousWake
        <3>2. pc[t] \notin Signals
            BY <1>1, <3>1, WakeTypes DEF Asleep
        <3>3. \A s \in blocker : Admits(pc[s])' => Admits(pc[s])
            BY <3>1 DEF Admits, exclusive
        <3> QED
            BY <2>2, <3>1, <3>2, <3>3, BlockersKeep
    <2>5. CASE Takes(t) \/ GiveBack(t) \/ NotifyBlocker(t) \/ NotifySharers(t) \/ Sleep(t)
        BY <2>5, TakersReach, GiversReach, NotifiersReach, SleeperReaches
    <2> QED
        BY <2>1, <2>3, <2>4, <2>5 DEF Step, Proceed, Try, Takes, Ends
<1> QED
    BY <1>2, <1>3

\* While at most one thread is in a call that waits on blocker_ and the mutex never fills: whoever
\* sleeps on a condition variable although its wait is over has a thread about to notify it.
THEOREM WakeupsReach ==
    ASSUME Roomy
    PROVE  OneWaiterSpec => [](BlockersNoticed /\ SharersNoticed /\ NoLostWakeup)
<1>1. Spacious \/ Threads = {}
    <2>1. Cardinality(Threads) \in Nat /\ (Cardinality(Threads) = 0 => Threads = {})
        BY ThreadsAssumption, FS_CardinalityType, FS_EmptySet
    <2> QED
        BY <2>1, MaxShareAssumption DEF Roomy, Spacious
<1>2. Init => WakeInv /\ ReaderInv
    BY InitWaits DEF WakeInv, BlockersNoticed, ReaderInv, OneWaiter, BlockerCalls, Waits
<1>3. WakeInv /\ ReaderInv /\ [Next /\ OneWaiter']_vars => WakeInv' /\ ReaderInv'
    <2> SUFFICES ASSUME WakeInv, ReaderInv, [Next /\ OneWaiter']_vars PROVE WakeInv' /\ ReaderInv'
        OBVIOUS
    <2>1. [Next]_vars
        OBVIOUS
    <2>2. CASE Spacious
        BY <2>1, <2>2, NextWakes, NextTells DEF Spacious
    <2>3. CASE Threads = {}
        <3>1. UNCHANGED vars
            BY <2>3, <2>1 DEF Next
        <3>2. IInv'
            BY <2>1, NextGood DEF Good, WakeInv, WaitInv
        <3> QED
            BY <3>1, <3>2 DEF WakeInv, WaitInv, ReaderInv, Sleepers, SharersNoticed, OneWaiter, BlockerCalls,
               BlockersNoticed, BlockerNoticed, Admits, vars, exclusive
    <2> QED
        BY <1>1, <2>2, <2>3
<1>4. WakeInv /\ ReaderInv => BlockersNoticed /\ SharersNoticed /\ NoLostWakeup
    <2> SUFFICES ASSUME WakeInv, ReaderInv, NEW t \in Asleep, Admits(pc[t])
                 PROVE  \E u \in Threads \ {t} : Stirring(u)
        BY DEF NoLostWakeup, WakeInv, ReaderInv
    <2>1. WaitInv
        BY DEF WakeInv
    <2>2. PICK u \in Threads : pc[u] \in Signals
        <3>1. CASE t \in blocker
            BY <3>1 DEF WakeInv, BlockersNoticed, BlockerNoticed, Signals
        <3>2. CASE t \in shareBlocker
            <4>1. pc[t] = "lockShared"
                BY <2>1, <3>2 DEF WaitInv, Sleepers
            <4>2. statusCount < exclusive
                BY <4>1, AdmitsWhat
            <4> QED
                BY <3>2, <4>2 DEF ReaderInv, SharersNoticed, Signals
        <3> QED
            BY <3>1, <3>2 DEF Asleep
    <2>3. u \notin Asleep /\ pc[u] # "ready"
        BY <2>1, <2>2, WakeTypes DEF Signals
    <2> QED
        BY <2>3 DEF Stirring
<1> QED
    BY <1>2, <1>3, <1>4, PTL DEF OneWaiterSpec
=============================================================================
