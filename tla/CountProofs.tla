----------------------------- MODULE CountProofs -----------------------------
(***************************************************************************)
(* For any finite set of threads, any number of permits and any latches:   *)
(* Semaphore and Latch implement CountContract, and no wakeup of theirs is *)
(* lost, as long as one semaphore is asked for one amount only.            *)
(*                                                                         *)
(* That no wakeup is lost is not inductive.  While a thread sleeps, every  *)
(* permit that is released adds a thread that notifies, and with it one    *)
(* that will look at the count; and a look that takes permits takes the n  *)
(* that are asked for.  So there are never more than n permits for each of *)
(* these threads, but for the n - 1 that are too few for the next one.     *)
(***************************************************************************)
EXTENDS MCCountWaiting, FiniteSetTheorems, TLAPS

\* Where a thread is in its call, and what it has found out there.
CallInv ==
    /\ kind \in {"semaphore", "latch"} /\ amounts \subseteq Nat
    /\ \A t \in Threads :
        /\ pc[t] = "exchange" => kind = "semaphore" /\ old[t] >= need[t]
        /\ pc[t] \in {"load", "exchange", "block", "woken"} => build = "atomic"
        /\ pc[t] = "test" => build = "monitor"
        /\ build = "atomic" /\ pc[t] \in {"block", "woken", "asleep"} =>
                IF kind = "semaphore" THEN old[t] < need[t] ELSE old[t] # 0

Admitted(t) == IF kind = "semaphore" THEN Admits(t) ELSE Open

Patiences == {"never", "deadline", "forever"}

\* The steps of both kinds, sorted by what they do to the call of t.
Begins(t) == \E n \in Nat, p \in Patiences : (kind = "semaphore" => n \in amounts) /\ Enter(t, n, p)
Waits(t) == Sleep(t, Admitted(t)) \/ Block(t) \/ WakeUnasked(t) \/ LoadToBlock(t, Admitted(t))
Passes(t) ==
    \/ kind = "semaphore" /\ (Take(t) \/ Exchange(t))
    \/ kind = "latch" /\ (Leave(t) \/ LoadToReturn(t, Open))
Refuses(t) == GiveUp(t, Admitted(t)) \/ LoadToReturn(t, ~Admitted(t) /\ patience[t] = "never")
Tries(t) == kind = "semaphore" /\ (LoadToExchange(t, Admits(t)) \/ ExchangeFail(t))
Adds(t) == kind = "semaphore" /\ (Release(t) \/ \E n \in amounts : ReleaseMany(t, n))
Arrives(t) == kind = "latch" /\ \E n \in 1 .. count : CountDown(t, n) \/ ArriveAndWait(t, n)

LEMMA Sorted ==
    ASSUME TypeOK, CallInv, Next
    PROVE  /\ UNCHANGED <<kind, amounts>>
           /\ \E t \in Threads :
                \/ Begins(t) \/ Waits(t) \/ Passes(t) \/ Refuses(t) \/ Tries(t)
                \/ Adds(t) \/ Arrives(t) \/ NotifyOne(t) \/ NotifyAll(t)
<1>1. CASE kind = "semaphore" /\ SemaphoreNext
  <2>1. PICK t \in Threads :
            \/ SemaphoreWork(t)
            \/ SemaphoreCalls(t) /\ UNCHANGED amounts
            \/ (ExchangeFail(t) \/ WakeUnasked(t)) /\ UNCHANGED amounts
    BY <1>1 DEF SemaphoreNext
  <2>2. CASE SemaphoreWork(t)
    BY <1>1, <2>2 DEF Next, SemaphoreWork, WaitingStep, LoadPermits,
       Waits, Passes, Refuses, Tries, Admitted
  <2>3. CASE SemaphoreCalls(t) /\ UNCHANGED amounts
    <3>1. CASE Release(t) \/ \E n \in amounts : ReleaseMany(t, n)
      BY <1>1, <2>3, <3>1 DEF Next, Adds
    <3>2. CASE \E n \in amounts : Acquire(t, n) \/ TryAcquire(t, n) \/ TryAcquireUntil(t, n)
      BY <1>1, <2>3, <3>2 DEF Next, CallInv, Begins, Acquire, TryAcquire, TryAcquireUntil, Patiences
    <3>3. CASE 1 \in amounts /\ \E n \in amounts : TryAcquireFor(t, n)
      BY <1>1, <2>3, <3>3 DEF Next, Begins, TryAcquireFor, Patiences
    <3> QED
      BY <2>3, <3>1, <3>2, <3>3 DEF SemaphoreCalls
  <2>4. CASE (ExchangeFail(t) \/ WakeUnasked(t)) /\ UNCHANGED amounts
    BY <1>1, <2>4 DEF Next, Waits, Tries
  <2> QED
    BY <2>1, <2>2, <2>3, <2>4
<1>2. CASE kind = "latch" /\ LatchNext /\ UNCHANGED amounts
  <2>1. PICK t \in Threads : LatchWork(t) \/ LatchCalls(t) \/ WakeUnasked(t)
    BY <1>2 DEF LatchNext
  <2>2. CASE LatchWork(t)
    <3>1. LoadToReturn(t, Open \/ patience[t] = "never") =>
              LoadToReturn(t, Open) \/ LoadToReturn(t, ~Open /\ patience[t] = "never")
      BY DEF LoadToReturn
    <3> QED
      BY <1>2, <2>2, <3>1 DEF Next, LatchWork, WaitingStep, LoadArrivals,
         Waits, Passes, Refuses, Admitted
  <2>3. CASE LatchCalls(t)
    <3>1. CASE Wait(t) \/ TryWait(t) \/ TryWaitUntil(t)
      BY <1>2, <3>1 DEF Next, Begins, Wait, TryWait, TryWaitUntil, Patiences
    <3> QED
      BY <1>2, <2>3, <3>1 DEF Next, LatchCalls, Arrives, ArriveAndTryWait
  <2>4. CASE WakeUnasked(t)
    BY <1>2, <2>4 DEF Next, Waits
  <2> QED
    BY <2>1, <2>2, <2>3, <2>4
<1> QED
  BY <1>1, <1>2 DEF Next

\* What NotifyAll does to each thread.
LEMMA NotifiesAll ==
    ASSUME TypeOK, NEW t \in Threads, NotifyAll(t)
    PROVE  /\ pc[t] = "notifyAll" /\ pc' \in [Threads -> Points] /\ pc'[t] = "out"
           /\ \A s \in Threads \ {t} : pc'[s] = IF pc[s] = "asleep" THEN Awake ELSE pc[s]
<1>1. \A s \in Threads : pc'[s] = IF s = t THEN "out" ELSE IF s \in Sleepers THEN Awake ELSE pc[s]
  BY DEF NotifyAll
<1> QED
  BY <1>1 DEF NotifyAll, TypeOK, Points, Awake, Sleepers
-----------------------------------------------------------------------------
(***************************************************************************)
(* The types, and the calls.                                               *)
(***************************************************************************)
SafeInv == TypeOK /\ CallInv

LEMMA Starts == Init => SafeInv
<1> SUFFICES ASSUME Init PROVE SafeInv
  OBVIOUS
<1>1. InitWaiting /\ count \in Nat /\ amounts \subseteq Nat /\ kind \in {"semaphore", "latch"}
  <2>1. ASSUME kind = "semaphore", SemaphoreInit PROVE InitWaiting /\ count \in Nat /\ amounts \subseteq Nat
    BY <2>1, MixesAssumption, MaxPermitsAssumption DEF SemaphoreInit
  <2>2. ASSUME kind = "latch", LatchInit, amounts = {} PROVE InitWaiting /\ count \in Nat /\ amounts \subseteq Nat
    BY <2>2, ExpectedAssumption DEF LatchInit
  <2> QED
    BY <2>1, <2>2 DEF Init
<1>2. CallInv
  BY <1>1 DEF InitWaiting, CallInv
<1>3. TypeOK
  BY <1>1 DEF InitWaiting, TypeOK, Points
<1> QED
  BY <1>2, <1>3 DEF SafeInv

LEMMA Safe ==
    ASSUME SafeInv, NEW t \in Threads, UNCHANGED <<kind, amounts>>,
           \/ Begins(t) \/ Waits(t) \/ Passes(t) \/ Refuses(t) \/ Tries(t)
           \/ Adds(t) \/ Arrives(t) \/ NotifyOne(t) \/ NotifyAll(t)
    PROVE  SafeInv'
<1> USE DEF SafeInv
<1>1. CASE Begins(t)
  <2>1. PICK n \in Nat, p \in Patiences : Enter(t, n, p)
    BY <1>1 DEF Begins
  <2> QED
    BY <2>1, BuildsAssumption DEF Enter, Go, TypeOK, CallInv, Points, Patiences
<1>2. CASE Waits(t)
  <2>1. CASE Sleep(t, Admitted(t))
    BY <2>1 DEF Sleep, Go, TypeOK, CallInv, Points
  <2>2. CASE Block(t)
    BY <2>2 DEF Block, TypeOK, CallInv, Points
  <2>3. CASE WakeUnasked(t)
    BY <2>3, BuildsAssumption DEF WakeUnasked, Awake, Go, TypeOK, CallInv, Points
  <2>4. CASE LoadToBlock(t, Admitted(t))
    BY <2>4 DEF LoadToBlock, Admitted, Admits, Open, Go, TypeOK, CallInv, Points
  <2> QED
    BY <1>2, <2>1, <2>2, <2>3, <2>4 DEF Waits
<1>3. CASE Passes(t)
  <2>1. CASE kind = "semaphore" /\ Take(t)
    BY <2>1 DEF Take, Admits, Forget, Go, TypeOK, CallInv, Points
  <2>2. CASE kind = "semaphore" /\ Exchange(t)
    BY <2>2 DEF Exchange, Forget, Go, TypeOK, CallInv, Points
  <2>3. CASE Leave(t)
    BY <2>3 DEF Leave, Forget, Go, TypeOK, CallInv, Points
  <2>4. CASE LoadToReturn(t, Open)
    BY <2>4 DEF LoadToReturn, Forget, Go, TypeOK, CallInv, Points
  <2> QED
    BY <1>3, <2>1, <2>2, <2>3, <2>4 DEF Passes
<1>4. CASE Refuses(t)
  BY <1>4 DEF Refuses, GiveUp, LoadToReturn, Forget, Go, TypeOK, CallInv, Points
<1>5. CASE Tries(t)
  BY <1>5 DEF Tries, LoadToExchange, ExchangeFail, Admits, Go, TypeOK, CallInv, Points
<1>6. CASE Adds(t)
  <2>1. PICK n \in Nat, then \in {"notifyOne", "notifyAll"} : AddPermits(t, n, then)
    BY <1>6 DEF Adds, Release, ReleaseMany, CallInv
  <2> QED
    BY <2>1 DEF AddPermits, Go, TypeOK, CallInv, Points
<1>7. CASE Arrives(t)
  <2>1. PICK n \in 1 .. count : CountDown(t, n) \/ ArriveAndWait(t, n)
    BY <1>7 DEF Arrives
  <2>2. CASE CountDown(t, n)
    BY <2>1, <2>2 DEF CountDown, Fits, Go, TypeOK, CallInv, Points
  <2>3. CASE ArriveAndWait(t, n) /\ ~CountDown(t, n)
    BY <1>7, <2>1, <2>3, BuildsAssumption DEF Arrives, ArriveAndWait, Fits, Go, TypeOK, CallInv, Points
  <2> QED
    BY <2>1, <2>2, <2>3
<1>8. CASE NotifyOne(t)
  BY <1>8, BuildsAssumption DEF NotifyOne, Sleepers, Awake, TypeOK, CallInv, Points
<1>9. CASE NotifyAll(t)
  <2>1. UNCHANGED <<build, count, need, old, patience>>
    BY <1>9 DEF NotifyAll
  <2> QED
    BY <1>9, <2>1, NotifiesAll, BuildsAssumption DEF Awake, TypeOK, CallInv, Points
<1> QED
  BY <1>1, <1>2, <1>3, <1>4, <1>5, <1>6, <1>7, <1>8, <1>9

LEMMA SafeAlways == Spec => []SafeInv
<1>1. SafeInv /\ [Next]_vars => SafeInv'
  <2>1. SafeInv /\ Next => SafeInv'
    BY Sorted, Safe DEF SafeInv
  <2>2. SafeInv /\ UNCHANGED vars => SafeInv'
    BY DEF SafeInv, TypeOK, CallInv, vars, machine
  <2> QED
    BY <2>1, <2>2
<1> QED
  BY <1>1, Starts, PTL DEF Spec
-----------------------------------------------------------------------------
(***************************************************************************)
(* The contract: a call begins, passes, gives up, or changes the count.    *)
(* Everything else is about how a thread waits, and a stutter.             *)
(***************************************************************************)
seen == <<kind, count, Asking, need, patience>>

LEMMA Promises ==
    ASSUME SafeInv, NEW t \in Threads, UNCHANGED <<kind, amounts>>,
           \/ Begins(t) \/ Waits(t) \/ Passes(t) \/ Refuses(t) \/ Tries(t)
           \/ Adds(t) \/ Arrives(t) \/ NotifyOne(t) \/ NotifyAll(t)
    PROVE  Contract!Next \/ UNCHANGED seen
<1> USE DEF SafeInv
<1>1. CASE Begins(t)
  <2>1. PICK n \in Nat, p \in Patiences : Enter(t, n, p)
    BY <1>1 DEF Begins
  <2>2. t \notin Asking /\ Asking' = Asking \cup {t}
    BY <2>1, BuildsAssumption DEF Enter, Go, TypeOK, Asking
  <2>3. need' = [need EXCEPT ![t] = need'[t]] /\ need'[t] \in Nat /\ patience' = [patience EXCEPT ![t] = p]
    BY <2>1 DEF Enter, TypeOK
  <2>4. Contract!Ask(t)
    BY <2>2, <2>3 DEF Contract!Ask, Patiences
  <2> QED
    BY <2>1, <2>4 DEF Enter, Contract!Begin, Contract!Next
<1>2. CASE Waits(t)
  <2>1. UNCHANGED <<count, need, patience>>
    BY <1>2 DEF Waits, Sleep, Block, WakeUnasked, LoadToBlock
  <2>2. UNCHANGED Asking
    BY <1>2, BuildsAssumption
    DEF Waits, Sleep, Block, WakeUnasked, LoadToBlock, Go, Awake, Asking, TypeOK
  <2> QED
    BY <2>1, <2>2 DEF seen
<1>3. ASSUME Forget(t), pc[t] \in {"test", "load", "exchange"}, pc' = [pc EXCEPT ![t] = "out"]
      PROVE  t \in Asking /\ Contract!End(t)
  <2>1. t \in Asking /\ Asking' = Asking \ {t}
    BY <1>3 DEF Asking, TypeOK
  <2>2. need' = [need EXCEPT ![t] = need'[t]] /\ need'[t] \in Nat
        /\ \E p \in Patiences : patience' = [patience EXCEPT ![t] = p]
    BY <1>3 DEF Forget, TypeOK, Patiences
  <2> QED
    BY <2>1, <2>2 DEF Contract!End, Patiences
<1>4. CASE Passes(t)
  <2>1. Contract!End(t) /\ t \in Asking
    BY <1>3, <1>4 DEF Passes, Take, Exchange, Leave, LoadToReturn, Go
  <2>2. Contract!Admitted(t) /\ count' = IF kind = "semaphore" THEN count - need[t] ELSE count
    BY <1>4 DEF Passes, Take, Exchange, Leave, LoadToReturn, Go, Admits, Open, CallInv, Contract!Admitted
  <2> QED
    BY <2>1, <2>2 DEF Contract!Pass, Contract!Next
<1>5. CASE Refuses(t)
  <2>1. Contract!End(t) /\ t \in Asking
    BY <1>3, <1>5 DEF Refuses, GiveUp, LoadToReturn, Go
  <2>2. ~Contract!Admitted(t) /\ patience[t] # "forever" /\ UNCHANGED count
    BY <1>5 DEF Refuses, GiveUp, LoadToReturn, Admitted, Admits, Open, TypeOK, Contract!Admitted
  <2> QED
    BY <2>1, <2>2 DEF Contract!GiveUp, Contract!Next
<1>6. CASE Tries(t)
  <2>1. UNCHANGED <<count, need, patience>> /\ UNCHANGED Asking
    BY <1>6 DEF Tries, LoadToExchange, ExchangeFail, Go, Asking, TypeOK
  <2> QED
    BY <2>1 DEF seen
<1>7. CASE Adds(t)
  <2>1. PICK n \in Nat, then \in {"notifyOne", "notifyAll"} : AddPermits(t, n, then)
    BY <1>7 DEF Adds, Release, ReleaseMany, CallInv
  <2>2. t \notin Asking /\ UNCHANGED <<Asking, need, patience>>
    BY <2>1 DEF AddPermits, Go, Asking, TypeOK
  <2>3. CASE n = 0
    BY <2>1, <2>2, <2>3 DEF AddPermits, TypeOK, seen
  <2>4. CASE n # 0
    <3>1. count' \in Nat /\ count' # count /\ count' > count /\ kind = "semaphore"
      BY <1>7, <2>1, <2>4 DEF AddPermits, Adds, TypeOK
    <3> QED
      BY <2>2, <3>1 DEF Contract!Change, Contract!Next
  <2> QED
    BY <2>3, <2>4
<1>8. CASE Arrives(t)
  <2>1. PICK n \in 1 .. count : CountDown(t, n) \/ ArriveAndWait(t, n)
    BY <1>8 DEF Arrives
  <2>2. count' = count - n /\ count' \in Nat /\ count' # count /\ ~(count' > count) /\ kind = "latch"
    BY <1>8, <2>1 DEF Arrives, CountDown, ArriveAndWait, TypeOK
  <2>3. t \notin Asking
    BY <2>1 DEF CountDown, ArriveAndWait, Go, Asking
  <2>4. CASE CountDown(t, n)
    <3>1. UNCHANGED <<Asking, need, patience>>
      BY <2>4 DEF CountDown, Go, Asking, TypeOK
    <3> QED
      BY <2>2, <2>3, <3>1 DEF Contract!Change, Contract!Next
  <2>5. CASE ~CountDown(t, n)
    <3>1. Asking' = Asking \cup {t} /\ count' # 0
      BY <2>1, <2>2, <2>5 DEF ArriveAndWait, Go, Asking, TypeOK
    <3>2. need' = [need EXCEPT ![t] = need'[t]] /\ need'[t] \in Nat
          /\ patience' = [patience EXCEPT ![t] = patience[t]] /\ patience[t] \in Patiences
      BY <2>1, <2>5 DEF ArriveAndWait, TypeOK, Patiences
    <3>3. Contract!Ask(t)
      BY <2>3, <3>1, <3>2 DEF Contract!Ask, Patiences
    <3> QED
      BY <2>2, <2>3, <3>1, <3>3 DEF Contract!Change, Contract!Next
  <2> QED
    BY <2>4, <2>5
<1>9. CASE NotifyOne(t)
  <2>1. UNCHANGED <<count, need, patience>> /\ UNCHANGED Asking
    BY <1>9 DEF NotifyOne, Sleepers, Awake, Asking, TypeOK
  <2> QED
    BY <2>1 DEF seen
<1>10. CASE NotifyAll(t)
  <2>1. UNCHANGED <<count, need, patience>> /\ UNCHANGED Asking
    BY <1>10, NotifiesAll DEF NotifyAll, Awake, Asking
  <2> QED
    BY <2>1 DEF seen
<1> QED
  BY <1>1, <1>2, <1>4, <1>5, <1>6, <1>7, <1>8, <1>9, <1>10

\* In both builds a semaphore and a latch keep what they promise: no permit is taken twice or
\* without being there, nobody passes a latch before the last arrival, and nobody gives up while
\* it could pass.
THEOREM CountsAsPromised == Spec => ImplementsContract
<1>1. SafeInv /\ Init => Contract!Init
  BY DEF Init, SafeInv, TypeOK, CallInv, Contract!Init, SemaphoreInit, LatchInit, InitWaiting, Asking
<1>2. SafeInv /\ [Next]_vars => [Contract!Next]_seen
  <2>1. SafeInv /\ Next => Contract!Next \/ UNCHANGED seen
    BY Sorted, Promises DEF SafeInv
  <2>2. UNCHANGED vars => UNCHANGED seen
    BY DEF vars, machine, seen, Asking
  <2> QED
    BY <2>1, <2>2
<1>3. Contract!vars = seen
  BY DEF Contract!vars, seen
<1>4. [Contract!Next]_seen => [Contract!Next]_(Contract!vars)
  BY DEF Contract!vars, seen
<1> QED
  BY <1>1, <1>2, <1>4, SafeAlways, PTL DEF Spec, ImplementsContract, Contract!Spec
-----------------------------------------------------------------------------
(***************************************************************************)
(* Wakeups.  Permits are counted against the threads that will look.       *)
(***************************************************************************)

\* Whoever asks this semaphore for permits asks for as many as the others.
OneAmount == \A mix \in Mixes : \E n \in Nat : mix \subseteq {n}

\* The threads that will look at the count, or wake one that will.
Active == {t \in Threads : WillLook(t) \/ pc[t] = "notifyOne"}

\* As many permits as those in S can take, and not enough for one more.
Few(permits, S, n) == permits < (Cardinality(S) + 1) * n

Watched(n) ==
    \/ Sleepers = {}
    \/ \E t \in Threads : pc[t] = "notifyAll"
    \/ Few(count, Active, n)

SemaphoreInv(n) ==
    /\ amounts \subseteq {n}
    /\ \A t \in Asking : need[t] = n
    /\ Watched(n)

WakeInv ==
    /\ SafeInv
    /\ kind = "semaphore" => \E n \in Nat : SemaphoreInv(n)
    /\ kind = "latch" => OpeningNoticed

LEMMA Sizes ==
    ASSUME NEW S, S \subseteq Threads
    PROVE  IsFiniteSet(S) /\ Cardinality(S) \in Nat
  BY ThreadsAssumption, FS_Subset, FS_CardinalityType

LEMMA TooFew ==
    ASSUME NEW S, S \subseteq Threads, NEW n \in Nat, NEW c \in Nat, c < n
    PROVE  Few(c, S, n)
<1> DEFINE k == Cardinality(S)
<1>1. k \in Nat
  BY Sizes
<1>2. k * n \in Nat /\ (k + 1) * n = k * n + n
  BY <1>1
<1> QED
  BY <1>2 DEF Few

LEMMA NoMore ==
    ASSUME NEW S, NEW T, S \subseteq T, T \subseteq Threads,
           NEW n \in Nat, NEW c \in Nat, NEW d \in Nat, d <= c, Few(c, S, n)
    PROVE  Few(d, T, n)
<1> DEFINE j == Cardinality(S)
           k == Cardinality(T)
<1>1. j \in Nat /\ k \in Nat /\ j <= k
  BY Sizes, FS_Subset
<1> DEFINE i == k - j
<1>2. i \in Nat /\ k = j + i
  BY <1>1
<1> HIDE DEF i, j, k
<1>3. (k + 1) * n = (j + 1) * n + i * n /\ i * n \in Nat /\ (j + 1) * n \in Nat
  BY <1>1, <1>2
<1> QED
  BY <1>3 DEF Few, j, k

LEMMA OneMore ==
    ASSUME NEW S, NEW T, NEW t \in T, t \notin S, S \subseteq T, T \subseteq Threads,
           NEW n \in Nat, NEW c \in Nat, Few(c, S, n)
    PROVE  Few(c + 1, T, n)
<1> DEFINE j == Cardinality(S)
<1>1. S \cup {t} \subseteq Threads /\ IsFiniteSet(S) /\ j \in Nat /\ Cardinality(S \cup {t}) = j + 1
  BY Sizes, FS_AddElement
<1>2. (j + 1) * n \in Nat /\ (j + 2) * n = (j + 1) * n + n
  BY <1>1
<1>3. c < (j + 1) * n
  BY DEF Few
<1>4. n # 0
  BY <1>1, <1>3
<1>5. c + 1 < (j + 2) * n
  BY <1>2, <1>3, <1>4
<1>6. Few(c + 1, S \cup {t}, n)
  BY <1>1, <1>5 DEF Few
<1> QED
  BY <1>1, <1>6, NoMore

LEMMA Taken ==
    ASSUME NEW S, NEW T, NEW t \in S, S \ {t} \subseteq T, S \subseteq Threads, T \subseteq Threads,
           NEW n \in Nat, NEW c \in Nat, c >= n, Few(c, S, n)
    PROVE  Few(c - n, T, n)
<1> DEFINE j == Cardinality(S)
<1>1. IsFiniteSet(S) /\ j \in Nat /\ Cardinality(S \ {t}) = j - 1 /\ Cardinality(S \ {t}) \in Nat
  BY Sizes, FS_RemoveElement
<1>2. (j + 1) * n = j * n + n /\ j * n \in Nat
  BY <1>1
<1>3. c - n < j * n
  BY <1>2 DEF Few
<1>4. Few(c - n, S \ {t}, n)
  BY <1>1, <1>3 DEF Few
<1> QED
  BY <1>4, NoMore

LEMMA Replaced ==
    ASSUME NEW S, NEW T, NEW t \in S, NEW s \in T, s \notin S, S \ {t} \subseteq T,
           S \subseteq Threads, T \subseteq Threads,
           NEW n \in Nat, NEW c \in Nat, Few(c, S, n)
    PROVE  Few(c, T, n)
<1> DEFINE R == (S \ {t}) \cup {s}
<1>1. IsFiniteSet(S) /\ Cardinality(S \ {t}) = Cardinality(S) - 1 /\ IsFiniteSet(S \ {t})
      /\ Cardinality(S) \in Nat
  BY Sizes, FS_RemoveElement
<1>2. Cardinality(R) = Cardinality(S \ {t}) + 1
  BY <1>1, FS_AddElement
<1>3. Cardinality(R) = Cardinality(S)
  BY <1>1, <1>2
<1>4. Few(c, R, n)
  BY <1>3 DEF Few
<1> QED
  BY <1>4, NoMore

LEMMA Watches ==
    ASSUME SafeInv, SafeInv', kind = "semaphore", NEW n \in Nat, SemaphoreInv(n), NEW t \in Threads,
           UNCHANGED <<kind, amounts>>,
           \/ Begins(t) \/ Waits(t) \/ Passes(t) \/ Refuses(t) \/ Tries(t)
           \/ Adds(t) \/ NotifyOne(t) \/ NotifyAll(t)
    PROVE  SemaphoreInv(n)'
<1> DEFINE Opens == Begins(t) \/ Waits(t) \/ Tries(t)
           Ends == Passes(t) \/ Refuses(t)
<1> USE DEF SafeInv
<1>1. /\ UNCHANGED build /\ count \in Nat /\ count' \in Nat
      /\ pc \in [Threads -> Points] /\ pc' \in [Threads -> Points]
      /\ Active \subseteq Threads /\ Active' \subseteq Threads
  BY DEF TypeOK, Active, Begins, Waits, Passes, Refuses, Tries, Adds, NotifyOne, NotifyAll, Enter, Sleep,
     Block, WakeUnasked, LoadToBlock, Take, Exchange, Leave, LoadToReturn, GiveUp, LoadToExchange,
     ExchangeFail, Release, ReleaseMany, AddPermits
<1>2. ASSUME NEW s \in Threads, s # t
      PROVE  /\ need'[s] = need[s] /\ old'[s] = old[s]
             /\ pc[s] # "asleep" => pc'[s] = pc[s]
             /\ pc[s] = "asleep" => pc'[s] \in {"asleep", Awake}
  <2>1. CASE Opens
    BY <1>2, <2>1 DEF TypeOK, Begins, Waits, Tries, Enter, Sleep, Block, WakeUnasked, LoadToBlock,
       LoadToExchange, ExchangeFail, Go
  <2>2. CASE Ends
    BY <1>2, <2>2 DEF TypeOK, Passes, Refuses, Take, Exchange, Leave, LoadToReturn, GiveUp, Forget, Go
  <2>3. CASE Adds(t)
    BY <1>2, <2>3 DEF TypeOK, Adds, Release, ReleaseMany, AddPermits, Go
  <2>4. CASE NotifyOne(t)
    BY <1>2, <2>4 DEF TypeOK, NotifyOne, Sleepers
  <2>5. CASE NotifyAll(t)
    BY <1>2, <2>5, NotifiesAll DEF NotifyAll
  <2> QED
    BY <2>1, <2>2, <2>3, <2>4, <2>5
<1>3. ASSUME NEW s \in Asking' PROVE need'[s] = n
  <2>1. CASE s # t
    BY <1>2, <1>3, <2>1 DEF SemaphoreInv, Asking
  <2>2. CASE s = t
    <3>1. CASE Begins(t)
      BY <3>1, <2>2 DEF Begins, Enter, TypeOK, SemaphoreInv
    <3>2. CASE ~Begins(t)
      <4>1. t \in Asking /\ need'[t] = need[t]
        BY <1>1, <1>3, <2>2, <3>2, NotifiesAll
        DEF TypeOK, Asking, Waits, Passes, Refuses, Tries, Adds, NotifyOne, NotifyAll, Sleep,
            Block, WakeUnasked, LoadToBlock, Take, Exchange, Leave, LoadToReturn, GiveUp, LoadToExchange,
            ExchangeFail, Release, ReleaseMany, AddPermits, Go, Points
      <4> QED
        BY <4>1, <2>2 DEF SemaphoreInv
    <3> QED
      BY <3>1, <3>2
  <2> QED
    BY <2>1, <2>2
<1>4. ASSUME NEW s \in Threads, s \in Asking, ~Admits(s) PROVE count < n
  BY <1>4, <1>1 DEF SemaphoreInv, Admits, TypeOK
<1>5. ASSUME NEW s \in Active, s # t, s \notin Active' PROVE count' < n
  <2>1. s \in Threads /\ pc'[s] = pc[s] /\ pc[s] \in {"block", "woken"} /\ old'[s] = count'
    BY <1>2, <1>5 DEF Active, WillLook
  <2>2. old[s] < need[s] /\ need[s] = n
    BY <2>1 DEF CallInv, SemaphoreInv, Asking
  <2> QED
    BY <2>1, <2>2, <1>2, <1>5
<1>6. ASSUME count' < n PROVE Watched(n)'
  BY <1>1, <1>6, TooFew DEF Watched, Few
<1>7. ASSUME ~(count' < n) PROVE Watched(n)'
  <2>1. Active \ {t} \subseteq Active'
    BY <1>5, <1>7
  <2>2. ASSUME NEW s \in Threads \ {t}, pc[s] = "notifyAll" PROVE Watched(n)'
    BY <1>2, <2>2 DEF Watched
  <2>3. CASE Begins(t) \/ Tries(t)
    <3>1. t \in Active' /\ Active \subseteq Active' /\ pc'[t] # "asleep" /\ UNCHANGED count
          /\ pc[t] # "notifyAll"
      BY <2>1, <2>3, BuildsAssumption
      DEF Begins, Tries, Enter, LoadToExchange, ExchangeFail, Go, Active, WillLook, TypeOK
    <3>2. Sleepers' \subseteq Sleepers
      BY <1>1, <1>2, <3>1, <2>3 DEF Sleepers, Awake
    <3> QED
      BY <1>1, <2>2, <3>1, <3>2, NoMore DEF SemaphoreInv, Watched
  <2>4. CASE Waits(t)
    <3>1. ~Sleep(t, Admitted(t)) /\ ~LoadToBlock(t, Admitted(t))
      BY <1>4, <1>7 DEF Sleep, LoadToBlock, Go, Admitted, Asking
    <3>2. ~(pc[t] \in {"block", "woken"} /\ count = old[t] /\ Block(t))
      BY <1>7 DEF Block, CallInv, SemaphoreInv, Asking
    <3>3. Active \subseteq Active' /\ pc'[t] # "asleep" /\ UNCHANGED count /\ pc[t] # "notifyAll"
      BY <1>1, <2>1, <2>4, <3>1, <3>2 DEF Waits, Block, WakeUnasked, Go, Awake, Active, WillLook
    <3>4. Sleepers' \subseteq Sleepers
      BY <1>1, <1>2, <3>3 DEF Sleepers
    <3> QED
      BY <1>1, <2>2, <3>3, <3>4, NoMore DEF SemaphoreInv, Watched
  <2>5. CASE Passes(t)
    <3>1. /\ t \in Active /\ t \in Asking /\ pc'[t] = "out" /\ pc[t] # "notifyAll"
          /\ count' = count - need[t] /\ count >= need[t]
      BY <1>1, <2>5 DEF Passes, Take, Exchange, Go, Active, WillLook, Admits, Asking, CallInv
    <3>2. need[t] = n /\ Sleepers' \subseteq Sleepers
      BY <1>1, <1>2, <3>1 DEF SemaphoreInv, Sleepers
    <3> QED
      BY <1>1, <2>1, <2>2, <3>1, <3>2, Taken DEF SemaphoreInv, Watched
  <2>6. CASE Refuses(t)
    BY <1>4, <1>7, <2>6 DEF Refuses, GiveUp, LoadToReturn, Go, Admitted, Asking
  <2>7. CASE Adds(t)
    <3>1. PICK m \in Nat, then \in {"notifyOne", "notifyAll"} :
              AddPermits(t, m, then) /\ (then = "notifyOne" => m = 1)
      BY <2>7 DEF Adds, Release, ReleaseMany, CallInv
    <3>2. /\ t \notin Active /\ pc[t] # "notifyAll" /\ Sleepers' \subseteq Sleepers
          /\ pc'[t] = then /\ count' = count + m
      BY <1>1, <1>2, <3>1 DEF AddPermits, Go, Active, WillLook, Sleepers
    <3>3. CASE then = "notifyAll"
      BY <3>2, <3>3 DEF Watched
    <3>4. CASE then = "notifyOne"
      <4>1. t \in Active' /\ Active \subseteq Active' /\ count' = count + 1
        BY <2>1, <3>1, <3>2, <3>4 DEF Active
      <4> QED
        BY <1>1, <2>2, <3>2, <4>1, OneMore DEF SemaphoreInv, Watched
    <3> QED
      BY <3>3, <3>4
  <2>8. CASE NotifyOne(t)
    <3>1. t \in Active /\ pc'[t] = "out" /\ UNCHANGED count
      BY <1>1, <2>8 DEF NotifyOne, Active, Sleepers
    <3>2. CASE Sleepers = {}
      <4>1. Sleepers' = {}
        BY <1>1, <1>2, <3>1, <3>2 DEF Sleepers
      <4> QED
        BY <4>1 DEF Watched
    <3>3. CASE Sleepers # {}
      <4>1. PICK s \in Sleepers : pc' = [pc EXCEPT ![t] = "out", ![s] = Awake]
        BY <2>8, <3>3 DEF NotifyOne
      <4>2. s \in Threads /\ s # t /\ s \notin Active /\ pc'[s] = Awake
        BY <1>1, <2>8, <4>1 DEF Sleepers, NotifyOne, Active, WillLook
      <4>3. build = "monitor" \/ old[s] # count
        BY <1>7, <3>1, <4>1, <4>2, BuildsAssumption DEF CallInv, TypeOK, Sleepers, SemaphoreInv, Asking
      <4>4. s \in Active'
        BY <1>1, <1>2, <3>1, <4>2, <4>3 DEF Active, WillLook, Awake
      <4>5. Few(count, Active, n) => Few(count, Active', n)
        BY <1>1, <2>1, <3>1, <4>2, <4>4, Replaced
      <4>6. Few(count, Active, n) => Watched(n)'
        BY <3>1, <4>5 DEF Watched
      <4>7. pc[t] # "notifyAll"
        BY <2>8 DEF NotifyOne
      <4> QED
        BY <2>2, <3>3, <4>6, <4>7 DEF SemaphoreInv, Watched
    <3> QED
      BY <3>2, <3>3
  <2>9. CASE NotifyAll(t)
    <3>1. Sleepers' = {}
      BY <1>1, <2>9, NotifiesAll DEF Sleepers, Awake
    <3> QED
      BY <3>1 DEF Watched
  <2> QED
    BY <2>3, <2>4, <2>5, <2>6, <2>7, <2>8, <2>9
<1> QED
  BY <1>3, <1>6, <1>7 DEF SemaphoreInv

\* A latch that is open stays open, and its sleepers have been woken or will be.
LEMMA Opened ==
    ASSUME SafeInv, kind = "latch", OpeningNoticed, NEW t \in Threads,
           UNCHANGED <<kind, amounts>>,
           \/ Begins(t) \/ Waits(t) \/ Passes(t) \/ Refuses(t)
           \/ Arrives(t) \/ NotifyOne(t) \/ NotifyAll(t)
    PROVE  OpeningNoticed'
<1> USE DEF SafeInv
<1> SUFFICES ASSUME count' = 0 PROVE Sleepers' = {} \/ \E s \in Threads : pc'[s] = "notifyAll"
  BY DEF OpeningNoticed, Open
<1>1. CASE Arrives(t)
  <2>1. PICK n \in 1 .. count : CountDown(t, n) \/ ArriveAndWait(t, n)
    BY <1>1 DEF Arrives
  <2>2. n = count /\ CountDown(t, n)
    BY <2>1 DEF TypeOK, CountDown, ArriveAndWait
  <2> QED
    BY <2>2 DEF CountDown, Go, TypeOK
<1>2. CASE NotifyAll(t)
  BY <1>2, NotifiesAll DEF Sleepers, Awake
<1>3. CASE ~Arrives(t) /\ ~NotifyAll(t)
  <2>1. UNCHANGED count /\ (Sleepers = {} \/ \E s \in Threads : pc[s] = "notifyAll")
    BY <1>3 DEF OpeningNoticed, Open, Begins, Waits, Passes, Refuses, NotifyOne, Enter, Sleep, Block,
       WakeUnasked, LoadToBlock, Leave, LoadToReturn, GiveUp
  <2>2. pc[t] # "notifyAll" /\ (pc'[t] = "asleep" => pc[t] = "asleep")
    BY <1>3, <2>1 DEF TypeOK, CallInv, Begins, Waits, Passes, Refuses, NotifyOne, Sleepers, Awake, Enter, Sleep,
       Block, WakeUnasked, LoadToBlock, Leave, LoadToReturn, GiveUp, Go, Admitted, Open
  <2>3. ASSUME NEW s \in Threads, s # t
        PROVE  pc'[s] = pc[s] \/ (pc[s] = "asleep" /\ pc'[s] = Awake)
    BY <1>3, <2>3 DEF TypeOK, Begins, Waits, Passes, Refuses, NotifyOne, Sleepers, Enter, Sleep,
       Block, WakeUnasked, LoadToBlock, Leave, LoadToReturn, GiveUp, Go
  <2>4. Sleepers = {} => Sleepers' = {}
    BY <2>2, <2>3 DEF Sleepers, Awake
  <2>5. ASSUME NEW s \in Threads, pc[s] = "notifyAll" PROVE pc'[s] = "notifyAll"
    BY <2>2, <2>3, <2>5
  <2> QED
    BY <2>1, <2>4, <2>5
<1> QED
  BY <1>1, <1>2, <1>3

LEMMA WakeStarts == OneAmount /\ Init => WakeInv
<1> SUFFICES ASSUME OneAmount, Init PROVE WakeInv
  OBVIOUS
<1>1. SafeInv
  BY Starts
<1>2. pc = [t \in Threads |-> "out"]
  BY DEF Init, SemaphoreInit, LatchInit, InitWaiting
<1>3. Sleepers = {} /\ Asking = {}
  BY <1>2 DEF Sleepers, Asking
<1>4. ASSUME kind = "semaphore" PROVE \E n \in Nat : amounts \subseteq {n}
  BY <1>4 DEF Init, SemaphoreInit, OneAmount
<1> QED
  BY <1>1, <1>3, <1>4 DEF WakeInv, SemaphoreInv, Watched, OpeningNoticed

LEMMA WakeSteps == WakeInv /\ [Next]_vars => WakeInv'
<1>1. ASSUME WakeInv, Next PROVE WakeInv'
  <2>1. SafeInv /\ UNCHANGED <<kind, amounts>>
    BY <1>1, Sorted DEF WakeInv, SafeInv
  <2>2. PICK t \in Threads :
            \/ Begins(t) \/ Waits(t) \/ Passes(t) \/ Refuses(t) \/ Tries(t)
            \/ Adds(t) \/ Arrives(t) \/ NotifyOne(t) \/ NotifyAll(t)
    BY <1>1, <2>1, Sorted DEF SafeInv
  <2>3. SafeInv'
    BY <2>1, <2>2, Safe
  <2>4. ASSUME kind = "semaphore", NEW n \in Nat, SemaphoreInv(n) PROVE SemaphoreInv(n)'
    BY <2>1, <2>2, <2>3, <2>4, Watches DEF Arrives
  <2>5. ASSUME kind = "latch" PROVE OpeningNoticed'
    BY <1>1, <2>1, <2>2, <2>5, Opened DEF Tries, Adds, WakeInv
  <2>6. kind = "semaphore" => \E n \in Nat : SemaphoreInv(n)'
    BY <1>1, <2>4 DEF WakeInv
  <2> QED
    BY <2>1, <2>3, <2>5, <2>6 DEF WakeInv
<1>2. ASSUME WakeInv, UNCHANGED vars PROVE WakeInv'
  <2>1. SafeInv'
    BY <1>2 DEF WakeInv, SafeInv, TypeOK, CallInv, vars, machine
  <2>2. UNCHANGED Active /\ UNCHANGED Sleepers /\ UNCHANGED Asking
    BY <1>2 DEF Active, WillLook, Sleepers, Asking, vars, machine
  <2>3. ASSUME NEW n \in Nat, SemaphoreInv(n) PROVE SemaphoreInv(n)'
    BY <1>2, <2>2, <2>3 DEF SemaphoreInv, Watched, Few, vars, machine
  <2>4. OpeningNoticed => OpeningNoticed'
    BY <1>2, <2>2 DEF OpeningNoticed, Open, vars, machine
  <2> QED
    BY <1>2, <2>1, <2>3, <2>4 DEF WakeInv, vars
<1> QED
  BY <1>1, <1>2

LEMMA Noticed == WakeInv => NoWakeupLost
<1> SUFFICES ASSUME WakeInv PROVE NoWakeupLost
  OBVIOUS
<1>1. ASSUME kind = "semaphore", NEW t \in Sleepers, Admits(t)
      PROVE  \E s \in Threads : WillLook(s) \/ pc[s] \in {"notifyOne", "notifyAll"}
  <2>1. PICK n \in Nat : SemaphoreInv(n)
    BY <1>1 DEF WakeInv
  <2>2. count >= n /\ count \in Nat
    BY <1>1, <2>1 DEF Sleepers, Asking, SemaphoreInv, Admits, WakeInv, SafeInv, TypeOK
  <2>3. CASE \E s \in Threads : pc[s] = "notifyAll"
    BY <2>3
  <2>4. CASE Few(count, Active, n)
    <3>1. Active # {}
      <4>1. SUFFICES ASSUME Active = {} PROVE FALSE
        OBVIOUS
      <4>2. Cardinality(Active) = 0
        BY <4>1, FS_EmptySet
      <4>3. count < (0 + 1) * n
        BY <2>4, <4>2 DEF Few
      <4> QED
        BY <2>2, <4>3
    <3> QED
      BY <3>1 DEF Active
  <2> QED
    BY <1>1, <2>1, <2>3, <2>4 DEF SemaphoreInv, Watched
<1> QED
  BY <1>1 DEF WakeInv, SafeInv, NoWakeupLost, PermitsNoticed

\* No wakeup of a semaphore that is asked for one amount only, or of a latch, is lost: a thread
\* sleeps while the count would let it through only as long as another is about to notify, or to
\* look at the count itself (release, countDown and the waits of both builds).
THEOREM WakeupsReach ==
    ASSUME OneAmount PROVE Spec => []NoWakeupLost
<1>1. Init => WakeInv
  BY WakeStarts
<1> QED
  BY <1>1, WakeSteps, Noticed, PTL DEF Spec
=============================================================================
