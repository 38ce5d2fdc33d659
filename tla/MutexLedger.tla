---------------------------- MODULE MutexLedger ----------------------------
(***************************************************************************)
(* The arithmetic both implementations of Mutex rest on, as lemmas about a *)
(* ledger: what every thread owns (st) and the counter (n) that encodes    *)
(* it.  Each lemma takes a consistent ledger and one change a call makes,  *)
(* and shows that the test the call does on the counter is enough for the  *)
(* changed ledger to be consistent again.                                  *)
(***************************************************************************)
EXTENDS MutexState, FiniteSetTheorems, TLAPS
-----------------------------------------------------------------------------
\* The shared owners are finitely many.
LEMMA SharersFinite ==
    ASSUME NEW st
    PROVE  IsFiniteSet(SharersOf(st)) /\ ShareCount(st) \in Nat
<1>1. SharersOf(st) \in SUBSET Threads
    BY DEF SharersOf
<1>2. IsFiniteSet(SharersOf(st))
    BY <1>1, ThreadsAssumption, FS_Subset
<1> QED
    BY <1>2, FS_CardinalityType DEF ShareCount

\* A thread that owns a share is counted, and alone if the count is one.
LEMMA SharerCounted ==
    ASSUME NEW st, NEW t \in Threads, st[t] \in Shared
    PROVE  /\ ShareCount(st) >= 1
           /\ ShareCount(st) = 1 => SharersOf(st) = {t}
<1>1. t \in SharersOf(st)
    BY DEF SharersOf
<1>2. IsFiniteSet(SharersOf(st)) /\ ShareCount(st) \in Nat
    BY SharersFinite
<1>3. ShareCount(st) # 0
    BY <1>1, <1>2, FS_EmptySet DEF ShareCount
<1>4. ASSUME ShareCount(st) = 1 PROVE SharersOf(st) = {t}
    <2>1. PICK x : SharersOf(st) = {x}
        BY <1>2, <1>4, FS_Singleton DEF ShareCount
    <2> QED
        BY <2>1, <1>1
<1> QED
    BY <1>2, <1>3, <1>4

\* How the number of shared owners follows one thread's status.
LEMMA ShareChange ==
    ASSUME NEW st \in [Threads -> LockerStatus], NEW t \in Threads, NEW b \in LockerStatus
    PROVE  ShareCount([st EXCEPT ![t] = b]) =
               IF b \in Shared
               THEN IF st[t] \in Shared THEN ShareCount(st) ELSE ShareCount(st) + 1
               ELSE IF st[t] \in Shared THEN ShareCount(st) - 1 ELSE ShareCount(st)
<1> DEFINE new == [st EXCEPT ![t] = b]
<1>1. IsFiniteSet(SharersOf(st))
    BY SharersFinite
<1>2. t \in SharersOf(st) <=> st[t] \in Shared
    BY DEF SharersOf
<1>3. CASE b \in Shared
    <2>1. SharersOf(new) = SharersOf(st) \cup {t}
        BY <1>3 DEF SharersOf
    <2> QED
        BY <1>1, <1>2, <1>3, <2>1, FS_AddElement DEF ShareCount
<1>4. CASE b \notin Shared
    <2>1. SharersOf(new) = SharersOf(st) \ {t}
        BY <1>4 DEF SharersOf
    <2> QED
        BY <1>1, <1>2, <1>4, <2>1, FS_RemoveElement DEF ShareCount
<1> QED
    BY <1>3, <1>4

\* What a count below exclusive_ tells a call: nobody owns the mutex
\* exclusively or has an order on it, and there is room for one more share.
LEMMA BelowExclusive ==
    ASSUME NEW st, NEW n, Consistent(st, n), n < exclusive
    PROVE  /\ \A t \in Threads : st[t] \in {"idle", "sharedLocked"}
           /\ ShareCount(st) = n
<1> USE MaxShareAssumption DEF exclusive
<1>1. ShareCount(st) \in Nat /\ n \in Nat
    BY SharersFinite DEF Consistent
<1>2. HoldersOf(st) = {}
    BY <1>1 DEF Consistent, Weighs
<1>3. UpgradersOf(st) = {}
    <2> SUFFICES ASSUME NEW t \in Threads, st[t] = "upgradeOrdered" PROVE FALSE
        BY DEF UpgradersOf
    <2>1. ShareCount(st) >= 1
        BY SharerCounted DEF Shared
    <2>2. UpgradersOf(st) # {}
        BY DEF UpgradersOf
    <2> QED
        BY <1>1, <1>2, <2>1, <2>2 DEF Consistent, Weighs
<1>4. \A t \in Threads : st[t] \in {"idle", "sharedLocked"}
    BY <1>2, <1>3 DEF HoldersOf, UpgradersOf, Consistent, LockerStatus
<1>5. ShareCount(st) = n
    BY <1>1, <1>2, <1>3 DEF Consistent, Weighs
<1> QED
    BY <1>4, <1>5

\* What a count of zero tells tryLock and lock: nobody owns anything.
LEMMA AtZero ==
    ASSUME NEW st, Consistent(st, 0)
    PROVE  \A t \in Threads : st[t] = "idle"
<1>1. 0 < exclusive
    BY MaxShareAssumption DEF exclusive
<1>2. ShareCount(st) = 0 /\ \A t \in Threads : st[t] \in {"idle", "sharedLocked"}
    BY <1>1, BelowExclusive
<1>3. \A t \in Threads : st[t] # "sharedLocked"
    BY <1>2, SharerCounted DEF Shared
<1> QED
    BY <1>2, <1>3

\* What a count of one tells a shared owner that upgrades: it is alone.
LEMMA OnlySharer ==
    ASSUME NEW st, Consistent(st, 1), NEW t \in Threads, st[t] = "sharedLocked"
    PROVE  \A u \in Threads \ {t} : st[u] = "idle"
<1> USE MaxShareAssumption DEF exclusive
<1>1. ShareCount(st) \in Nat /\ ShareCount(st) >= 1
    BY SharersFinite, SharerCounted DEF Shared
<1>2. HoldersOf(st) = {} /\ ShareCount(st) = 1
    BY <1>1 DEF Consistent, Weighs
<1>3. SharersOf(st) = {t}
    BY <1>2, SharerCounted DEF Shared
<1>4. ASSUME NEW u \in Threads \ {t} PROVE st[u] = "idle"
    <2>1. st[u] \notin {"sharedLocked", "upgradeOrdered"}
        BY <1>3, <1>4 DEF SharersOf, Shared
    <2>2. st[u] \notin {"lockOrdered", "locked"}
        BY <1>2 DEF HoldersOf
    <2> QED
        BY <2>1, <2>2 DEF Consistent, LockerStatus
<1> QED
    BY <1>4

\* What a count of exclusive_ tells the thread with the order: all have left.
LEMMA OrderAlone ==
    ASSUME NEW st, Consistent(st, exclusive), NEW t \in Threads, st[t] \in Ordered
    PROVE  \A u \in Threads \ {t} : st[u] = "idle"
<1> USE MaxShareAssumption DEF exclusive
<1>1. ShareCount(st) \in Nat
    BY SharersFinite
<1>2. \A u \in Threads \ {t} : st[u] \in {"idle", "sharedLocked"}
    BY DEF Consistent, OneClaim, Ordered, LockerStatus
<1>3. CASE st[t] = "lockOrdered"
    <2>1. ShareCount(st) = 0
        BY <1>1, <1>3 DEF Consistent, Weighs, HoldersOf
    <2>2. \A u \in Threads : st[u] \notin Shared
        BY <2>1, SharerCounted
    <2> QED
        BY <1>2, <2>2 DEF Shared
<1>4. CASE st[t] = "upgradeOrdered"
    <2>1. HoldersOf(st) = {} /\ UpgradersOf(st) # {}
        BY <1>2, <1>4 DEF HoldersOf, UpgradersOf
    <2>2. ShareCount(st) = 1
        BY <1>1, <2>1 DEF Consistent, Weighs
    <2>3. SharersOf(st) = {t}
        BY <1>4, <2>2, SharerCounted DEF Shared
    <2> QED
        BY <1>2, <2>3 DEF SharersOf, Shared
<1> QED
    BY <1>3, <1>4 DEF Ordered

\* While one thread owns the mutex exclusively the others own nothing, and the
\* count is exclusive_.
LEMMA LockedAlone ==
    ASSUME NEW st, NEW n, Consistent(st, n), NEW t \in Threads, st[t] = "locked"
    PROVE  (\A u \in Threads \ {t} : st[u] = "idle") /\ n = exclusive /\ ShareCount(st) = 0
<1>1. \A u \in Threads \ {t} : st[u] = "idle"
    BY DEF Consistent, OneClaim, LockerStatus
<1>2. SharersOf(st) = {}
    BY <1>1 DEF SharersOf, Shared
<1>3. ShareCount(st) = 0
    BY <1>2, FS_EmptySet DEF ShareCount
<1>4. UpgradersOf(st) = {} /\ HoldersOf(st) # {}
    BY <1>1 DEF UpgradersOf, HoldersOf
<1>5. n = exclusive
    BY <1>3, <1>4, MaxShareAssumption DEF Consistent, Weighs, exclusive
<1> QED
    BY <1>1, <1>3, <1>5
-----------------------------------------------------------------------------
\* Sharing: lockShared and tryLockShared.
LEMMA ShareOne ==
    ASSUME NEW st, NEW n, Consistent(st, n), NEW t \in Threads,
           st[t] = "idle", n < exclusive
    PROVE  Consistent([st EXCEPT ![t] = "sharedLocked"], n + 1)
<1> DEFINE new == [st EXCEPT ![t] = "sharedLocked"]
<1> USE MaxShareAssumption DEF exclusive
<1>1. ShareCount(st) = n /\ \A u \in Threads : st[u] \in {"idle", "sharedLocked"}
    BY BelowExclusive
<1>2. st \in [Threads -> LockerStatus] /\ n \in Nat
    BY DEF Consistent
<1>3. new \in [Threads -> LockerStatus]
    BY <1>2 DEF LockerStatus
<1>4. ShareCount(new) = n + 1
    BY <1>1, <1>2, ShareChange DEF Shared, LockerStatus
<1>5. \A u \in Threads : new[u] \in {"idle", "sharedLocked"}
    BY <1>1, <1>2
<1>6. HoldersOf(new) = {} /\ UpgradersOf(new) = {}
    BY <1>5 DEF HoldersOf, UpgradersOf
<1>7. Weighs(new, n + 1)
    BY <1>2, <1>4, <1>6 DEF Weighs
<1>8. OneClaim(new)
    BY <1>5 DEF OneClaim
<1>9. Room(new)
    BY <1>2, <1>4, <1>5 DEF Room, Ordered
<1> QED
    BY <1>2, <1>3, <1>7, <1>8, <1>9 DEF Consistent

\* Ordering: lock, orderLock and tryOrderLock by a thread that owns nothing,
\* upgrade, orderUpgrade and tryOrderUpgrade by a shared owner.
LEMMA OrderOne ==
    ASSUME NEW st, NEW n, Consistent(st, n), NEW t \in Threads, n < exclusive,
           NEW b, NEW w,
           \/ st[t] = "idle" /\ b = "lockOrdered" /\ w = exclusive
           \/ st[t] = "sharedLocked" /\ b = "upgradeOrdered" /\ w = exclusive - 1
    PROVE  Consistent([st EXCEPT ![t] = b], n + w)
<1> DEFINE new == [st EXCEPT ![t] = b]
<1> USE MaxShareAssumption DEF exclusive
<1>1. ShareCount(st) = n /\ \A u \in Threads : st[u] \in {"idle", "sharedLocked"}
    BY BelowExclusive
<1>2. st \in [Threads -> LockerStatus] /\ n \in Nat
    BY DEF Consistent
<1>3. b \in LockerStatus /\ new \in [Threads -> LockerStatus]
    BY <1>2 DEF LockerStatus
<1>4. ShareCount(new) = n
    BY <1>1, <1>2, <1>3, ShareChange DEF Shared
<1>5. new[t] = b /\ \A u \in Threads \ {t} : new[u] \in {"idle", "sharedLocked"}
    BY <1>1, <1>2
<1>6. Weighs(new, n + w)
    <2>1. CASE b = "lockOrdered"
        <3>1. HoldersOf(new) # {} /\ UpgradersOf(new) = {}
            BY <1>5, <2>1 DEF HoldersOf, UpgradersOf
        <3>2. w = exclusive
            BY <2>1
        <3> HIDE DEF new
        <3> QED
            BY <1>2, <1>4, <3>1, <3>2 DEF Weighs
    <2>2. CASE b = "upgradeOrdered"
        <3>1. HoldersOf(new) = {} /\ UpgradersOf(new) # {}
            BY <1>5, <2>2 DEF HoldersOf, UpgradersOf
        <3>2. w = exclusive - 1
            BY <2>2
        <3> HIDE DEF new
        <3> QED
            BY <1>2, <1>4, <3>1, <3>2 DEF Weighs
    <2> QED
        BY <2>1, <2>2
<1>7. OneClaim(new)
    BY <1>5 DEF OneClaim
<1>8. Room(new)
    BY <1>2, <1>4 DEF Room
<1> QED
    BY <1>2, <1>3, <1>6, <1>7, <1>8 DEF Consistent

\* A thread with no other owner beside it: exclusive ownership by lock, upgrade
\* or a completed order, and its end by unlock or downgrade.
LEMMA Alone ==
    ASSUME NEW st, NEW n, Consistent(st, n), NEW t \in Threads,
           \A u \in Threads \ {t} : st[u] = "idle",
           NEW b, NEW m,
           \/ b = "locked" /\ m = exclusive
           \/ b = "idle" /\ m = 0
           \/ b = "sharedLocked" /\ m = 1
    PROVE  Consistent([st EXCEPT ![t] = b], m)
<1> DEFINE new == [st EXCEPT ![t] = b]
<1> USE MaxShareAssumption DEF exclusive
<1>1. st \in [Threads -> LockerStatus]
    BY DEF Consistent
<1>2. b \in LockerStatus /\ new \in [Threads -> LockerStatus] /\ m \in Nat
    BY <1>1 DEF LockerStatus
<1>3. new[t] = b /\ \A u \in Threads \ {t} : new[u] = "idle"
    BY <1>1
<1>4. ShareCount(new) = IF b = "sharedLocked" THEN 1 ELSE 0
    <2>1. CASE b = "sharedLocked"
        <3>1. SharersOf(new) = {t}
            BY <1>3, <2>1 DEF SharersOf, Shared
        <3> QED
            BY <2>1, <3>1, FS_Singleton DEF ShareCount
    <2>2. CASE b # "sharedLocked"
        <3>1. SharersOf(new) = {}
            BY <1>3, <2>2 DEF SharersOf, Shared
        <3> QED
            BY <2>2, <3>1, FS_EmptySet DEF ShareCount
    <2> QED
        BY <2>1, <2>2
<1>5. UpgradersOf(new) = {} /\ (HoldersOf(new) = {} <=> b # "locked")
    BY <1>3 DEF UpgradersOf, HoldersOf
<1>6. Weighs(new, m)
    <2> HIDE DEF new
    <2> QED
        BY <1>4, <1>5 DEF Weighs
<1>7. OneClaim(new)
    BY <1>3 DEF OneClaim
<1>8. Room(new)
    BY <1>3, <1>4 DEF Room, Ordered
<1> QED
    BY <1>2, <1>6, <1>7, <1>8 DEF Consistent

\* Cancelling an order: cancelLockOrder and cancelUpgradeOrder.
LEMMA CancelOne ==
    ASSUME NEW st, NEW n, Consistent(st, n), NEW t \in Threads, NEW b, NEW w,
           \/ st[t] = "lockOrdered" /\ b = "idle" /\ w = exclusive
           \/ st[t] = "upgradeOrdered" /\ b = "sharedLocked" /\ w = exclusive - 1
    PROVE  Consistent([st EXCEPT ![t] = b], n - w)
<1> DEFINE new == [st EXCEPT ![t] = b]
<1> USE MaxShareAssumption DEF exclusive
<1>1. st \in [Threads -> LockerStatus] /\ n \in Nat /\ ShareCount(st) \in Nat
    BY SharersFinite DEF Consistent
<1>2. \A u \in Threads \ {t} : st[u] \in {"idle", "sharedLocked"}
    BY <1>1 DEF Consistent, OneClaim, LockerStatus
<1>3. b \in LockerStatus /\ new \in [Threads -> LockerStatus]
    BY <1>1 DEF LockerStatus
<1>4. ShareCount(new) = ShareCount(st)
    BY <1>1, <1>3, ShareChange DEF Shared
<1>5. \A u \in Threads : new[u] \in {"idle", "sharedLocked"}
    BY <1>1, <1>2
<1>6. n - w = ShareCount(st)
    <2>1. CASE st[t] = "lockOrdered"
        <3>1. HoldersOf(st) # {} /\ UpgradersOf(st) = {} /\ w = exclusive
            BY <1>2, <2>1 DEF HoldersOf, UpgradersOf
        <3> QED
            BY <1>1, <3>1 DEF Consistent, Weighs
    <2>2. CASE st[t] = "upgradeOrdered"
        <3>1. HoldersOf(st) = {} /\ UpgradersOf(st) # {} /\ w = exclusive - 1
            BY <1>2, <2>2 DEF HoldersOf, UpgradersOf
        <3> QED
            BY <1>1, <3>1 DEF Consistent, Weighs
    <2> QED
        BY <2>1, <2>2
<1>7. Weighs(new, n - w)
    <2>1. HoldersOf(new) = {} /\ UpgradersOf(new) = {}
        BY <1>5 DEF HoldersOf, UpgradersOf
    <2> HIDE DEF new
    <2> QED
        BY <1>1, <1>4, <1>6, <2>1 DEF Weighs
<1>8. OneClaim(new)
    BY <1>5 DEF OneClaim
<1>9. Room(new)
    BY <1>4, <1>5 DEF Room, Ordered, Consistent
<1> QED
    BY <1>1, <1>3, <1>6, <1>7, <1>8, <1>9 DEF Consistent

\* Giving a share back: unlockShared, whatever the others own or have ordered.
LEMMA UnshareOne ==
    ASSUME NEW st, NEW n, Consistent(st, n), NEW t \in Threads, st[t] = "sharedLocked"
    PROVE  Consistent([st EXCEPT ![t] = "idle"], n - 1)
<1> DEFINE new == [st EXCEPT ![t] = "idle"]
<1> USE MaxShareAssumption DEF exclusive
<1>1. st \in [Threads -> LockerStatus] /\ n \in Nat /\ ShareCount(st) \in Nat
    BY SharersFinite DEF Consistent
<1>2. new \in [Threads -> LockerStatus] /\ "idle" \in LockerStatus
    BY <1>1 DEF LockerStatus
<1>3. new[t] = "idle" /\ \A u \in Threads \ {t} : new[u] = st[u]
    BY <1>1
<1>4. ShareCount(new) = ShareCount(st) - 1 /\ ShareCount(st) >= 1
    BY <1>1, <1>2, ShareChange, SharerCounted DEF Shared
<1>5. HoldersOf(new) = HoldersOf(st) /\ UpgradersOf(new) = UpgradersOf(st)
    BY <1>3 DEF HoldersOf, UpgradersOf
<1>6. Weighs(new, n - 1) /\ n - 1 \in Nat
    <2> HIDE DEF new
    <2> QED
        BY <1>1, <1>4, <1>5 DEF Weighs, Consistent
<1>7. OneClaim(new)
    BY <1>3 DEF OneClaim, Consistent
<1>8. Room(new)
    BY <1>1, <1>3, <1>4 DEF Room, Ordered, Consistent
<1> QED
    BY <1>2, <1>6, <1>7, <1>8 DEF Consistent
-----------------------------------------------------------------------------
(***************************************************************************)
(* From the ledger to the contract: each change of one thread's standing   *)
(* above is a step of SharedMutexContract.                                 *)
(***************************************************************************)

\* A step in which only t moves changes only t's standing.
LEMMA StandChange ==
    ASSUME NEW t \in Threads,
           \A u \in Threads \ {t} : pc'[u] = pc[u] /\ own'[u] = own[u]
    PROVE  Stand' = [Stand EXCEPT ![t] = Standing(t)']
BY DEF Stand, Standing

\* A share taken with the count below exclusive_ is allowed by the contract.
LEMMA ContractShare ==
    ASSUME NEW n, Consistent(Stand, n), n < exclusive, NEW t \in Threads,
           Stand[t] = "idle", Stand' = [Stand EXCEPT ![t] = "sharedLocked"]
    PROVE  Contract!Next
<1>1. \A u \in Threads : Stand[u] \in {"idle", "sharedLocked"}
    BY BelowExclusive
<1>2. Contract!Exclusives = {} /\ Contract!Orderers = {}
    BY <1>1 DEF Contract!Exclusives, Contract!Orderers, Contract!Those
<1>3. Contract!Cardinality(Contract!Owners) < MaxShare
    <2>1. Contract!Owners = SharersOf(Stand)
        BY DEF SharersOf, Shared, Contract!Owners, Contract!Those
    <2>2. \A S : Contract!Cardinality(S) = Cardinality(S)
        BY DEF Contract!Cardinality, Cardinality
    <2> QED
        BY <2>1, <2>2, BelowExclusive DEF ShareCount, exclusive
<1>4. Contract!AcquireShared(t)
    BY <1>2, <1>3 DEF Contract!AcquireShared, Contract!Become
<1> QED
    BY <1>4 DEF Contract!Next

\* So is an order placed with the count below exclusive_.
LEMMA ContractOrder ==
    ASSUME NEW n, Consistent(Stand, n), n < exclusive, NEW t \in Threads, NEW b,
           Stand' = [Stand EXCEPT ![t] = b],
           \/ Stand[t] = "idle" /\ b = "lockOrdered"
           \/ Stand[t] = "sharedLocked" /\ b = "upgradeOrdered"
    PROVE  Contract!Next
<1>1. \A u \in Threads : Stand[u] \in {"idle", "sharedLocked"}
    BY BelowExclusive
<1>2. Contract!Exclusives = {} /\ Contract!Orderers = {}
    BY <1>1 DEF Contract!Exclusives, Contract!Orderers, Contract!Those
<1>3. Contract!PlaceLockOrder(t) \/ Contract!PlaceUpgradeOrder(t)
    BY <1>2 DEF Contract!PlaceLockOrder, Contract!PlaceUpgradeOrder, Contract!Become
<1> QED
    BY <1>3 DEF Contract!Next

\* So is exclusive ownership of a thread that is alone.
LEMMA ContractLock ==
    ASSUME NEW t \in Threads, Stand[t] \in LockerStatus \ {"locked"},
           \A u \in Threads \ {t} : Stand[u] = "idle",
           Stand' = [Stand EXCEPT ![t] = "locked"]
    PROVE  Contract!Next
<1>1. Contract!Exclusives = {} /\ Contract!Owners \subseteq {t} /\ Contract!Orderers \subseteq {t}
    BY DEF Contract!Exclusives, Contract!Owners, Contract!Orderers, Contract!Those
<1>2. CASE Stand[t] = "idle"
    <2>1. Contract!Owners = {} /\ Contract!Orderers = {}
        BY <1>1, <1>2 DEF Contract!Owners, Contract!Orderers, Contract!Those
    <2>2. Contract!AcquireExclusive(t)
        BY <1>1, <1>2, <2>1 DEF Contract!AcquireExclusive, Contract!Become
    <2> QED
        BY <2>2 DEF Contract!Next
<1>3. CASE Stand[t] = "sharedLocked"
    <2>1. Contract!Owners = {t} /\ Contract!Orderers = {}
        BY <1>1, <1>3 DEF Contract!Owners, Contract!Orderers, Contract!Those
    <2>2. Contract!UpgradeNow(t)
        BY <1>1, <1>3, <2>1 DEF Contract!UpgradeNow, Contract!Become
    <2> QED
        BY <2>2 DEF Contract!Next
<1>4. CASE Stand[t] \in Ordered
    <2>1. t \in Contract!Orderers
        BY <1>4 DEF Ordered, Contract!Orderers, Contract!Those
    <2>2. Contract!CompleteOrder(t)
        BY <1>1, <2>1 DEF Contract!CompleteOrder, Contract!Become
    <2> QED
        BY <2>2 DEF Contract!Next
<1> QED
    BY <1>2, <1>3, <1>4 DEF LockerStatus, Ordered

\* So is everything a thread gives back or cancels.
LEMMA ContractGiveBack ==
    ASSUME NEW t \in Threads, NEW b,
           \/ Stand[t] = "lockOrdered" /\ b = "idle"
           \/ Stand[t] = "upgradeOrdered" /\ b = "sharedLocked"
           \/ Stand[t] = "locked" /\ b \in {"idle", "sharedLocked"}
           \/ Stand[t] = "sharedLocked" /\ b = "idle",
           Stand' = [Stand EXCEPT ![t] = b]
    PROVE  Contract!Next
<1>1. Contract!CancelOrder(t) \/ Contract!Release(t)
    BY DEF Contract!CancelOrder, Contract!Release, Contract!Become
<1> QED
    BY <1>1 DEF Contract!Next
=============================================================================
