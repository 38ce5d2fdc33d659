---------------------------- MODULE ServicesProofs ----------------------------
(***************************************************************************)
(* For every set of callers and every number of failures, IInv is an       *)
(* invariant of OnceInvoker, and OnceInvoker implements OnceContract.  For *)
(* every period, TimerInv is an invariant of QuickTimer.                   *)
(***************************************************************************)
EXTENDS OnceInvoker, QuickTimer, SequenceTheorems, TLAPS

LEMMA FlagFacts ==
    ASSUME TypeOK
    PROVE  /\ Len(flag) \in Nat \ {0} /\ DOMAIN flag = 1 .. Len(flag)
           /\ \A i \in 1 .. Len(flag) : flag[i] \in Messages
  BY EmptySeq, LenProperties, ElementOfSeq DEF TypeOK

\* What a caller reads it may read, and what it has seen then is a view.
LEMMA ReadsAreViews ==
    ASSUME TypeOK, NEW c \in Callers, NEW i \in Readable(c)
    PROVE  /\ i \in 1 .. Len(flag)
           /\ Acquire(c, i) \in Views
           /\ Relaxed(c, i) \in Views
<1>1. view[c] \in Views /\ Len(flag) \in Nat
  BY FlagFacts DEF TypeOK
<1>2. i \in 1 .. Len(flag)
  BY <1>1 DEF Readable, Views
<1>3. flag[i] \in Messages
  BY <1>2, FlagFacts
<1>. QED
  BY <1>1, <1>2, <1>3 DEF Acquire, Relaxed, Views, Messages

\* A step of a caller outside of the critical part that changes nothing but what it has seen.
LEMMA QuietStep ==
    ASSUME IInv, NEW c \in Callers, ~Inside(c),
           NEW p \in {"idle", "load", "exchange", "lock"},
           strategy = "regular" => p # "exchange",
           strategy = "busy" => p # "lock",
           NEW v \in Views,
           pc' = [pc EXCEPT ![c] = p],
           view' = [view EXCEPT ![c] = v],
           UNCHANGED <<strategy, flag, holder, passed, ended>>
    PROVE  IInv'
<1>1. TypeOK'
  BY DEF IInv, TypeOK, Points, Views, Messages
<1>2. \A d \in Callers : Inside(d)' <=> Inside(d)
  BY DEF IInv, TypeOK, Inside
<1>3. OneInside'
  BY <1>2 DEF IInv, OneInside
<1>4. InsideSees'
  BY <1>2 DEF IInv, TypeOK, InsideSees, Inside, Everything, Newest
<1>5. DoneIsLast'
  BY DEF IInv, DoneIsLast
<1>6. strategy' = "regular" => RegularInv'
  BY <1>2 DEF IInv, TypeOK, RegularInv, Everything
<1>7. strategy' = "busy" => BusyInv'
  BY <1>2 DEF IInv, TypeOK, BusyInv, Newest
<1>. QED
  BY <1>1, <1>3, <1>4, <1>5, <1>6, <1>7 DEF IInv

LEMMA AfterLoadIsOutside ==
    ASSUME IInv, NEW i \in DOMAIN flag
    PROVE  /\ AfterLoad(flag[i].value) \in {"idle", "load", "exchange", "lock"}
           /\ strategy = "regular" => AfterLoad(flag[i].value) # "exchange"
           /\ strategy = "busy" => AfterLoad(flag[i].value) # "lock"
<1>. flag[i].value \in Values
  BY FlagFacts DEF IInv, Messages
<1>. QED
  BY DEF AfterLoad, Values

LEMMA LoadPreserves ==
    ASSUME IInv, NEW c \in Callers, NEW i \in 1 .. Len(flag),
           Done(c, i) \/ Load(c, i) \/ ExchangeFail(c, i)
    PROVE  IInv'
<1>1. i \in Readable(c) /\ Acquire(c, i) \in Views
  BY ReadsAreViews DEF IInv, Done, Load, ExchangeFail
<1>2. i \in DOMAIN flag
  BY FlagFacts DEF IInv
<1>3. ~Inside(c)
  BY DEF Done, Load, ExchangeFail, Move, Inside
<1>4. CASE Done(c, i)
  <2>. pc' = [pc EXCEPT ![c] = "idle"]
    BY <1>4 DEF Done, IInv, TypeOK
  <2>. QED
    BY <1>1, <1>3, <1>4, QuietStep DEF Done, See
<1>5. CASE Load(c, i) \/ ExchangeFail(c, i)
  <2>. DEFINE p == AfterLoad(flag[i].value)
  <2>1. /\ p \in {"idle", "load", "exchange", "lock"}
        /\ strategy = "regular" => p # "exchange"
        /\ strategy = "busy" => p # "lock"
    BY <1>2, AfterLoadIsOutside
  <2>2. pc' = [pc EXCEPT ![c] = p]
    BY <1>5 DEF Load, ExchangeFail, Move
  <2>. HIDE DEF p
  <2>. QED
    BY <1>1, <1>3, <1>5, <2>1, <2>2, QuietStep DEF Load, ExchangeFail, See
<1>. QED
  BY <1>4, <1>5

LEMMA CallPreserves ==
    ASSUME IInv, NEW c \in Callers, Call(c)
    PROVE  IInv'
<1>. ~Inside(c) /\ view[c] \in Views /\ view' = [view EXCEPT ![c] = view[c]]
  BY DEF IInv, TypeOK, Call, Move, Inside
<1>. QED
  BY QuietStep DEF Call, Move

\* The newest value, after a release store at the end of the modification order.
LEMMA Stored ==
    ASSUME TypeOK, NEW value \in Values, NEW v \in Views,
           flag' = Release(value, v), UNCHANGED ended
    PROVE  /\ flag' \in Seq(Messages) /\ flag' # <<>>
           /\ Len(flag') = Len(flag) + 1
           /\ DOMAIN flag' = 1 .. Len(flag) + 1
           /\ \A i \in 1 .. Len(flag) : flag'[i] = flag[i]
           /\ flag'[Len(flag')] = [value |-> value, effects |-> v.effects]
<1>. DEFINE m == [value |-> value, effects |-> v.effects]
<1>1. m \in Messages
  BY DEF Messages, Views
<1>2. flag \in Seq(Messages)
  BY DEF TypeOK
<1>3. flag' = Append(flag, m)
  BY DEF Release
<1>. HIDE DEF m
<1>. QED
  BY <1>1, <1>2, <1>3, AppendProperties DEF m

LEMMA ExchangePreserves ==
    ASSUME IInv, NEW c \in Callers, Exchange(c)
    PROVE  IInv'
<1>. DEFINE seen == Acquire(c, Len(flag))
<1>1. /\ strategy = "busy" /\ BusyInv
      /\ Newest = "idle"
      /\ \A d \in Callers : ~Inside(d)
  BY StrategiesAssumption DEF IInv, TypeOK, RegularInv, BusyInv, Exchange, Move, Newest
<1>2. seen = Everything /\ Everything \in Views
  <2>1. Len(flag) \in Nat \ {0} /\ flag[Len(flag)].effects = 1 .. ended
    BY <1>1, FlagFacts DEF IInv, BusyInv
  <2>2. view[c].effects \cup 1 .. ended = 1 .. ended
    BY DEF IInv, TypeOK, Views
  <2>3. Acquire(c, Len(flag)) = [at |-> Len(flag), effects |-> 1 .. ended]
    BY <2>1, <2>2 DEF Acquire
  <2>4. Len(flag) \in 1 .. Len(flag) /\ 1 .. ended \in SUBSET (1 .. ended)
    BY <2>1
  <2>. QED
    BY <2>3, <2>4 DEF Everything, Views
<1>3. /\ flag' \in Seq(Messages) /\ flag' # <<>>
      /\ Len(flag) \in Nat \ {0} /\ Len(flag') = Len(flag) + 1
      /\ DOMAIN flag' = 1 .. Len(flag) + 1 /\ DOMAIN flag = 1 .. Len(flag)
      /\ \A i \in 1 .. Len(flag) : flag'[i] = flag[i]
      /\ flag'[Len(flag')] = [value |-> "invoking", effects |-> 1 .. ended]
  <2>. HIDE DEF seen
  <2>. flag' = Release("invoking", Everything)
    BY <1>2 DEF Exchange, seen
  <2>. QED
    BY <1>2, Stored, FlagFacts DEF IInv, Values, Exchange, Everything
<1>4. view' = [view EXCEPT ![c] = Everything']
  <2>1. [Everything EXCEPT !.at = Len(flag) + 1] = Everything'
    BY <1>3 DEF Exchange, Everything
  <2>2. view' = [view EXCEPT ![c] = [seen EXCEPT !.at = Len(flag) + 1]]
    BY DEF Exchange, See
  <2>. HIDE DEF seen
  <2>. QED
    BY <1>2, <2>1, <2>2
<1>5. Everything' \in Views' /\ Views \subseteq Views' /\ Messages' = Messages
  BY <1>3 DEF Everything, Views, Messages, Exchange, IInv, TypeOK
<1>6. TypeOK'
  BY <1>3, <1>4, <1>5 DEF IInv, TypeOK, Exchange, Move, Points
<1>7. \A d \in Callers : Inside(d)' <=> d = c
  BY <1>1 DEF IInv, TypeOK, Inside, Exchange, Move
<1>8. OneInside'
  BY <1>7 DEF OneInside
<1>9. InsideSees'
  BY <1>1, <1>3, <1>4, <1>7 DEF InsideSees, IInv, TypeOK, Newest, Exchange, Inside, Move
<1>10. DoneIsLast'
  <2>1. \A i \in DOMAIN flag : flag[i].value # "done"
    BY <1>1 DEF IInv, DoneIsLast, Newest
  <2>. QED
    BY <1>3, <2>1 DEF DoneIsLast
<1>11. BusyInv'
  BY <1>1, <1>3, <1>7 DEF BusyInv, Exchange, Move, Newest, IInv, TypeOK
<1>. QED
  BY <1>1, <1>6, <1>8, <1>9, <1>10, <1>11 DEF IInv, Exchange

LEMMA LockPreserves ==
    ASSUME IInv, NEW c \in Callers, Lock(c)
    PROVE  IInv'
<1>1. /\ strategy = "regular" /\ RegularInv
      /\ \A d \in Callers : ~Inside(d)
      /\ passed = Everything
  BY StrategiesAssumption DEF IInv, TypeOK, RegularInv, BusyInv, Lock, Move
<1>2. view' = [view EXCEPT ![c] = Everything] /\ Everything \in Views
  <2>1. view[c] \in Views /\ Len(flag) \in Nat \ {0}
    BY FlagFacts DEF IInv, TypeOK
  <2>2. view[c].effects \cup 1 .. ended = 1 .. ended
    BY <2>1 DEF Views
  <2>3. (IF view[c].at < Len(flag) THEN Len(flag) ELSE view[c].at) = Len(flag)
    BY <2>1 DEF Views
  <2>4. Join(view[c], passed) = Everything
    BY <1>1, <2>2, <2>3 DEF Join, Everything
  <2>. QED
    BY <2>1, <2>4 DEF Lock, See, Everything, Views
<1>3. TypeOK'
  BY <1>2 DEF IInv, TypeOK, Lock, Move, Points, Views, Messages
<1>4. \A d \in Callers : Inside(d)' <=> d = c
  BY <1>1 DEF IInv, TypeOK, Inside, Lock, Move
<1>5. OneInside'
  BY <1>4 DEF OneInside
<1>6. InsideSees'
  BY <1>2, <1>4 DEF InsideSees, IInv, TypeOK, Newest, Lock, Move, Inside, Everything
<1>7. DoneIsLast'
  BY DEF IInv, DoneIsLast, Lock
<1>8. RegularInv'
  BY <1>1, <1>4 DEF RegularInv, Lock, Move, IInv, TypeOK
<1>. QED
  BY <1>1, <1>3, <1>5, <1>6, <1>7, <1>8 DEF IInv, Lock

\* Under the mutex a caller can read nothing but the newest value.
LEMMA CheckReadsNewest ==
    ASSUME IInv, NEW c \in Callers, NEW i \in Readable(c), pc[c] = "check"
    PROVE  /\ i = Len(flag)
           /\ Relaxed(c, i) = Everything
           /\ Everything \in Views
           /\ strategy = "regular" /\ RegularInv
           /\ holder = {c}
<1>1. strategy = "regular" /\ RegularInv /\ holder = {c}
  BY StrategiesAssumption DEF IInv, TypeOK, RegularInv, BusyInv, Inside
<1>2. view[c] = Everything /\ Everything \in Views
  BY DEF IInv, TypeOK, InsideSees, Inside
<1>. QED
  BY <1>1, <1>2, FlagFacts DEF IInv, Readable, Relaxed, Everything

\* The mutex is given back by its owner, which has seen everything.
LEMMA UnlockStep ==
    ASSUME IInv, NEW c \in Callers, strategy = "regular", Inside(c),
           pc' = [pc EXCEPT ![c] = "idle"], view' = view,
           passed' = Everything, holder' = {}, Everything \in Views,
           UNCHANGED <<strategy, flag, ended>>
    PROVE  IInv'
<1>1. TypeOK'
  BY DEF IInv, TypeOK, Points, Views, Messages
<1>2. RegularInv /\ \A d \in Callers : Inside(d) <=> d = c
  BY DEF IInv, OneInside
<1>3. \A d \in Callers : ~Inside(d)'
  BY <1>2 DEF IInv, TypeOK, Inside
<1>4. OneInside' /\ InsideSees'
  BY <1>3 DEF OneInside, InsideSees, Inside
<1>5. DoneIsLast'
  BY DEF IInv, DoneIsLast
<1>6. RegularInv'
  BY <1>2, <1>3 DEF RegularInv, Everything, IInv, TypeOK
<1>. QED
  BY <1>1, <1>4, <1>5, <1>6 DEF IInv

LEMMA CheckDonePreserves ==
    ASSUME IInv, NEW c \in Callers, NEW i \in 1 .. Len(flag), CheckDone(c, i)
    PROVE  IInv'
<1>1. Relaxed(c, i) = Everything /\ Everything \in Views /\ strategy = "regular"
  BY CheckReadsNewest DEF CheckDone, Move
<1>2. view[c] = Everything /\ Inside(c) /\ view' = view
  BY <1>1 DEF IInv, TypeOK, InsideSees, Inside, CheckDone, Move, See
<1>. QED
  BY <1>1, <1>2, UnlockStep DEF CheckDone, Move

LEMMA UnlockPreserves ==
    ASSUME IInv, NEW c \in Callers, Unlock(c)
    PROVE  IInv'
<1>1. strategy = "regular" /\ Inside(c)
  BY StrategiesAssumption DEF IInv, TypeOK, BusyInv, Unlock, Move, Inside
<1>2. view[c] = Everything /\ Everything \in Views
  BY <1>1 DEF IInv, TypeOK, InsideSees
<1>. QED
  BY <1>1, <1>2, UnlockStep DEF Unlock, Move

LEMMA CheckIdlePreserves ==
    ASSUME IInv, NEW c \in Callers, NEW i \in 1 .. Len(flag), CheckIdle(c, i)
    PROVE  IInv'
<1>1. /\ i = Len(flag) /\ Relaxed(c, i) = Everything /\ Everything \in Views
      /\ strategy = "regular" /\ RegularInv
  BY CheckReadsNewest DEF CheckIdle, Move
<1>2. view' = view /\ Newest = "idle"
  BY <1>1 DEF IInv, TypeOK, InsideSees, Inside, CheckIdle, Move, See, Newest
<1>3. TypeOK'
  BY <1>2 DEF IInv, TypeOK, Points, Views, Messages, CheckIdle, Move
<1>4. \A d \in Callers : Inside(d)' <=> Inside(d)
  BY DEF IInv, TypeOK, Inside, CheckIdle, Move
<1>5. OneInside'
  BY <1>4 DEF IInv, OneInside
<1>6. InsideSees'
  BY <1>1, <1>2, <1>4 DEF IInv, TypeOK, InsideSees, Inside, Everything, Newest, CheckIdle, Move
<1>7. DoneIsLast'
  BY DEF IInv, DoneIsLast, CheckIdle
<1>8. RegularInv'
  BY <1>1, <1>4 DEF RegularInv, Everything, IInv, TypeOK, CheckIdle, Move
<1>. QED
  BY <1>1, <1>3, <1>5, <1>6, <1>7, <1>8 DEF IInv, CheckIdle

LEMMA EndPreserves ==
    ASSUME IInv, NEW c \in Callers, End(c)
    PROVE  IInv'
<1>1. PICK p \in {"storeDone", "storeIdle", "unlock"} :
          /\ EndAt(c, p)
          /\ strategy = "regular" => p # "storeIdle"
          /\ strategy = "busy" => p # "unlock"
  BY DEF End, Return, Throw
<1>2. /\ view[c] = Everything /\ ended \in Nat /\ pc[c] = "invoking"
      /\ Newest = IF strategy = "busy" THEN "invoking" ELSE "idle"
  BY <1>1 DEF IInv, TypeOK, InsideSees, EndAt, Move, Inside
<1>3. 1 .. ended' = 1 .. ended \cup {ended + 1} /\ ended' = ended + 1
  BY <1>1, <1>2 DEF EndAt
<1>4. view' = [view EXCEPT ![c] = Everything'] /\ Everything' \in Views'
  <2>1. [Everything EXCEPT !.effects = 1 .. ended \cup {ended + 1}] = Everything'
    <3>1. \A more : [Everything EXCEPT !.effects = more] = [at |-> Len(flag), effects |-> more]
      BY DEF Everything
    <3>2. Everything' = [at |-> Len(flag), effects |-> 1 .. ended']
      BY <1>1 DEF EndAt, Everything
    <3>. QED
      BY <1>3, <3>1, <3>2
  <2>2. Everything.effects = 1 .. ended
    BY DEF Everything
  <2>3. Len(flag) \in 1 .. Len(flag)
    BY FlagFacts DEF IInv
  <2>4. Everything' \in Views'
    BY <1>1, <2>3 DEF Everything, Views, EndAt
  <2>. QED
    BY <1>1, <1>2, <2>1, <2>2, <2>4 DEF EndAt, See
<1>5. Views \subseteq Views' /\ Messages \subseteq Messages'
  BY <1>1, <1>3 DEF Views, Messages, EndAt
<1>6. TypeOK'
  <2>1. flag' \in Seq(Messages') /\ flag' # <<>>
    BY <1>1, <1>5, FlagFacts, IsASeq DEF IInv, TypeOK, EndAt
  <2>. QED
    BY <1>1, <1>3, <1>4, <1>5, <2>1 DEF IInv, TypeOK, EndAt, Move, Points
<1>7. \A d \in Callers : (Inside(d)' <=> Inside(d)) /\ (Inside(d) <=> d = c)
  BY <1>1, <1>2 DEF IInv, TypeOK, OneInside, Inside, EndAt, Move
<1>8. OneInside'
  BY <1>7 DEF OneInside
<1>9. InsideSees'
  BY <1>1, <1>2, <1>4, <1>7 DEF IInv, TypeOK, InsideSees, Inside, Newest, EndAt, Move
<1>10. \A i \in DOMAIN flag : flag[i].value # "done"
  BY <1>2 DEF IInv, DoneIsLast, Newest
<1>11. DoneIsLast'
  BY <1>1, <1>10 DEF DoneIsLast, EndAt
<1>12. ASSUME strategy = "regular" PROVE RegularInv'
  BY <1>1, <1>2, <1>7, <1>12 DEF RegularInv, IInv, TypeOK, EndAt, Move
<1>13. ASSUME strategy = "busy" PROVE BusyInv'
  BY <1>1, <1>2, <1>7, <1>13 DEF BusyInv, IInv, TypeOK, EndAt, Move, Newest
<1>. QED
  BY <1>1, <1>6, <1>8, <1>9, <1>11, <1>12, <1>13 DEF IInv, EndAt

LEMMA StorePreserves ==
    ASSUME IInv, NEW c \in Callers, StoreDone(c) \/ StoreIdle(c)
    PROVE  IInv'
<1>1. PICK value \in {"done", "idle"} :
          /\ Store(c, IF value = "done" THEN "storeDone" ELSE "storeIdle", value)
          /\ strategy = "regular" => value = "done"
  <2>1. CASE StoreDone(c)
    BY <2>1 DEF StoreDone
  <2>2. CASE StoreIdle(c)
    BY <2>2 DEF StoreIdle, Store, Move, IInv, RegularInv
  <2>. QED
    BY <2>1, <2>2
<1>2. /\ view[c] = Everything /\ Everything \in Views /\ Inside(c)
      /\ pc[c] \in {"storeDone", "storeIdle"}
      /\ Newest = IF strategy = "busy" THEN "invoking" ELSE "idle"
  BY <1>1 DEF IInv, TypeOK, InsideSees, Store, Move, Inside
<1>3. /\ flag' \in Seq(Messages) /\ flag' # <<>>
      /\ Len(flag) \in Nat \ {0} /\ Len(flag') = Len(flag) + 1
      /\ DOMAIN flag' = 1 .. Len(flag) + 1 /\ DOMAIN flag = 1 .. Len(flag)
      /\ \A i \in 1 .. Len(flag) : flag'[i] = flag[i]
      /\ flag'[Len(flag')] = [value |-> value, effects |-> 1 .. ended]
  <2>1. flag' = Release(value, Everything) /\ UNCHANGED ended
    BY <1>1, <1>2 DEF Store
  <2>. QED
    BY <1>2, <2>1, Stored, FlagFacts DEF IInv, Values, Everything
<1>4. view' = [view EXCEPT ![c] = Everything']
  <2>1. [Everything EXCEPT !.at = Len(flag) + 1] = Everything'
    BY <1>1, <1>3 DEF Store, Everything
  <2>. QED
    BY <1>1, <1>2, <2>1 DEF Store, See
<1>5. Everything' \in Views' /\ Views \subseteq Views' /\ Messages' = Messages
  BY <1>1, <1>3 DEF Everything, Views, Messages, Store, IInv, TypeOK
<1>6. TypeOK'
  BY <1>1, <1>3, <1>4, <1>5 DEF IInv, TypeOK, Store, Move, Points
<1>7. \A d \in Callers : (Inside(d) <=> d = c) /\ (Inside(d)' <=> (d = c /\ strategy = "regular"))
  BY <1>1, <1>2, StrategiesAssumption DEF IInv, TypeOK, OneInside, Inside, Store, Move
<1>8. OneInside'
  BY <1>7 DEF OneInside
<1>9. InsideSees'
  <2>. ASSUME NEW d \in Callers PROVE Inside(d)' => view'[d] = Everything'
    BY <1>4, <1>7 DEF IInv, TypeOK
  <2>. ASSUME NEW d \in Callers PROVE pc'[d] \notin {"invoking", "storeDone", "storeIdle"}
    BY <1>1, <1>7 DEF Inside, Store, Move, IInv, TypeOK
  <2>. QED
    BY DEF InsideSees
<1>10. \A i \in DOMAIN flag : flag[i].value # "done"
  BY <1>2 DEF IInv, DoneIsLast, Newest
<1>11. DoneIsLast'
  BY <1>1, <1>3, <1>10 DEF DoneIsLast, Store
<1>12. ASSUME strategy = "regular" PROVE RegularInv'
  <2>1. \A i \in DOMAIN flag' : flag'[i].value # "invoking"
    BY <1>1, <1>3, <1>12 DEF IInv, RegularInv
  <2>2. holder' = {c}
    BY <1>1, <1>7, <1>12 DEF IInv, RegularInv, TypeOK, Store
  <2>. QED
    BY <1>1, <1>7, <1>12, <2>1, <2>2 DEF RegularInv, IInv, TypeOK, Store, Move
<1>13. ASSUME strategy = "busy" PROVE BusyInv'
  BY <1>1, <1>3, <1>7, <1>13 DEF BusyInv, IInv, TypeOK, Store, Move, Newest
<1>. QED
  BY <1>1, <1>6, <1>8, <1>9, <1>11, <1>12, <1>13 DEF IInv, Store

\* IInv holds in every reachable state: in both strategies one caller at a time runs the
\* function, and it sees whatever was done before.
THEOREM Invariance == Spec => []IInv
<1>1. Init => IInv
  <2>. SUFFICES ASSUME Init PROVE IInv
    OBVIOUS
  <2>1. flag \in Seq(Messages) /\ flag # <<>> /\ Len(flag) = 1 /\ DOMAIN flag = {1}
    BY DEF Init, Messages, Values
  <2>2. TypeOK
    BY <2>1 DEF Init, TypeOK, Points, Views
  <2>. QED
    BY <2>1, <2>2
    DEF Init, IInv, OneInside, InsideSees, Inside, DoneIsLast, RegularInv, BusyInv, Newest, Everything
<1>2. IInv /\ [Next]_vars => IInv'
  <2>. SUFFICES ASSUME IInv, [Next]_vars PROVE IInv'
    OBVIOUS
  <2>1. CASE UNCHANGED vars
    BY <2>1
    DEF vars, IInv, TypeOK, OneInside, InsideSees, Inside, DoneIsLast, RegularInv, BusyInv,
        Newest, Everything, Views, Messages
  <2>2. CASE Next
    BY <2>2, CallPreserves, LoadPreserves, ExchangePreserves, LockPreserves, CheckDonePreserves,
       CheckIdlePreserves, EndPreserves, StorePreserves, UnlockPreserves DEF Next, AnyRead
  <2>. QED
    BY <2>1, <2>2
<1>. QED
  BY <1>1, <1>2, PTL DEF Spec

-----------------------------------------------------------------------------
(* The contract                                                            *)

LEMMA Inits == Init => Contract!Init
<1>. SUFFICES ASSUME Init PROVE Contract!Init
  OBVIOUS
<1>1. Newest = "idle" /\ \A c \in Callers : pc[c] = "idle" /\ view[c].effects = {}
  BY DEF Init, Newest
<1>. QED
  BY <1>1 DEF Init, Contract!Init, Stages, Stage, Finished, Sees

\* A caller may see more of what has been done, and nothing else.
LEMMA LearnStep ==
    ASSUME TypeOK, TypeOK', NEW c \in Callers, NEW v \in Views,
           view[c].effects \subseteq v.effects,
           view' = [view EXCEPT ![c] = v],
           UNCHANGED <<Stages, Finished, ended>>
    PROVE  [Contract!Next]_(Contract!vars)
<1>1. Sees' = [Sees EXCEPT ![c] = @ \cup v.effects]
  BY DEF Sees, TypeOK
<1>2. v.effects \in SUBSET (1 .. ended)
  BY DEF Views
<1>. QED
  BY <1>1, <1>2 DEF Contract!Next, Contract!Learn, Contract!Invocations

\* What a load does, in terms of the contract.
LEMMA LoadSteps ==
    ASSUME IInv, IInv', NEW c \in Callers, NEW i \in 1 .. Len(flag),
           Done(c, i) \/ Load(c, i) \/ ExchangeFail(c, i)
    PROVE  [Contract!Next]_(Contract!vars)
<1>1. /\ Acquire(c, i) \in Views /\ view[c].effects \subseteq Acquire(c, i).effects
      /\ view' = [view EXCEPT ![c] = Acquire(c, i)]
      /\ UNCHANGED <<flag, ended>>
  BY ReadsAreViews DEF IInv, Done, Load, ExchangeFail, See, Acquire
<1>2. CASE Done(c, i)
  <2>. UNCHANGED <<Stages, Finished, ended>>
    BY <1>2 DEF Done, Stages, Stage, Finished, Newest
  <2>. QED
    BY <1>1, LearnStep DEF IInv
<1>3. CASE (Load(c, i) \/ ExchangeFail(c, i)) /\ flag[i].value # "done"
  <2>1. /\ pc[c] \in {"load", "exchange"} /\ AfterLoad(flag[i].value) \in {"load", "exchange", "lock"}
        /\ pc' = [pc EXCEPT ![c] = AfterLoad(flag[i].value)]
    BY <1>3, FlagFacts DEF Load, ExchangeFail, Move, AfterLoad, IInv, Messages, Values
  <2>2. UNCHANGED <<Stages, Finished, ended>>
    BY <1>1, <2>1 DEF Stages, Stage, Finished, Newest, IInv, TypeOK
  <2>. QED
    BY <1>1, <2>2, LearnStep DEF IInv
<1>4. CASE (Load(c, i) \/ ExchangeFail(c, i)) /\ flag[i].value = "done"
  <2>1. i = Len(flag) /\ flag[i].effects = 1 .. ended
    BY <1>4, FlagFacts DEF IInv, DoneIsLast
  <2>2. pc[c] \in {"load", "exchange"} /\ pc' = [pc EXCEPT ![c] = "idle"]
    BY <1>4 DEF Load, ExchangeFail, Move, AfterLoad
  <2>3. Finished /\ Finished' /\ UNCHANGED ended
    BY <1>1, <1>4, <2>1 DEF Finished, Newest
  <2>4. Stages[c] = "calling" /\ Stages' = [Stages EXCEPT ![c] = "outside"]
    BY <2>2 DEF Stages, Stage, IInv, TypeOK
  <2>5. view[c].effects \cup 1 .. ended = 1 .. ended
    BY DEF IInv, TypeOK, Views
  <2>6. Sees' = [Sees EXCEPT ![c] = 1 .. ended]
    BY <1>1, <2>1, <2>5 DEF Sees, Acquire, IInv, TypeOK
  <2>. QED
    BY <2>3, <2>4, <2>6 DEF Contract!Next, Contract!Pass, Contract!Invocations, Finished
<1>. QED
  BY <1>2, <1>3, <1>4

\* A call becomes active: nobody else is, and its caller sees everything.
LEMMA BeginStep ==
    ASSUME IInv, NEW c \in Callers, pc[c] \in {"exchange", "check"},
           pc' = [pc EXCEPT ![c] = "invoking"],
           Newest = "idle", Newest' # "done",
           \A d \in Callers : Inside(d) => d = c,
           view'[c].effects = 1 .. ended,
           \A d \in Callers \ {c} : view'[d] = view[d],
           view' \in [Callers -> Views'],
           UNCHANGED ended
    PROVE  Contract!Next
<1>1. \A d \in Callers : pc[d] \notin {"invoking", "storeDone"}
  BY DEF Inside
<1>2. ~Finished /\ ~Finished'
  BY <1>1 DEF Finished, IInv, TypeOK
<1>3. /\ Stages[c] = "calling" /\ Stages' = [Stages EXCEPT ![c] = "active"]
      /\ \A d \in Callers : Stages[d] # "active"
  BY <1>1 DEF Stages, Stage, IInv, TypeOK
<1>4. Sees' = [Sees EXCEPT ![c] = 1 .. ended]
  BY DEF Sees
<1>. QED
  BY <1>2, <1>3, <1>4 DEF Contract!Next, Contract!Begin, Contract!Invocations, Finished

LEMMA ExchangeSteps ==
    ASSUME IInv, IInv', NEW c \in Callers, Exchange(c)
    PROVE  Contract!Next
<1>1. /\ pc[c] = "exchange" /\ pc' = [pc EXCEPT ![c] = "invoking"] /\ Newest = "idle"
      /\ \A d \in Callers : ~Inside(d)
      /\ UNCHANGED ended
  BY StrategiesAssumption DEF IInv, TypeOK, RegularInv, BusyInv, Exchange, Move, Newest
<1>2. \A d \in Callers \ {c} : view'[d] = view[d]
  BY DEF Exchange, See, IInv, TypeOK
<1>3. view'[c].effects = 1 .. ended /\ Newest' # "done" /\ view' \in [Callers -> Views']
  <2>1. pc'[c] = "invoking"
    BY <1>1 DEF IInv, TypeOK
  <2>2. view'[c] = Everything' /\ Newest' # "done"
    BY <2>1 DEF IInv, InsideSees, Inside
  <2>. QED
    BY <1>1, <2>2 DEF Everything, IInv, TypeOK
<1>. QED
  BY <1>1, <1>2, <1>3, BeginStep

LEMMA LockSteps ==
    ASSUME IInv, IInv', NEW c \in Callers, Lock(c)
    PROVE  [Contract!Next]_(Contract!vars)
<1>. DEFINE v == Join(view[c], passed)
<1>1. v \in Views /\ view[c].effects \subseteq v.effects
  BY DEF IInv, TypeOK, Views, Join
<1>2. view' = [view EXCEPT ![c] = v] /\ UNCHANGED ended
  BY DEF Lock, See
<1>3. UNCHANGED <<Stages, Finished>>
  BY DEF Lock, Move, Stages, Stage, Finished, Newest, IInv, TypeOK
<1>. HIDE DEF v
<1>. QED
  BY <1>1, <1>2, <1>3, LearnStep DEF IInv

LEMMA CheckSteps ==
    ASSUME IInv, IInv', NEW c \in Callers, NEW i \in 1 .. Len(flag),
           CheckDone(c, i) \/ CheckIdle(c, i)
    PROVE  Contract!Next
<1>1. /\ pc[c] = "check" /\ i = Len(flag) /\ Relaxed(c, i) = Everything
      /\ view[c] = Everything /\ view' = view /\ UNCHANGED <<flag, ended>>
  <2>1. pc[c] = "check" /\ i \in Readable(c)
    BY DEF CheckDone, CheckIdle, Move
  <2>2. i = Len(flag) /\ Relaxed(c, i) = Everything
    BY <2>1, CheckReadsNewest
  <2>3. view[c] = Everything
    BY <2>1 DEF IInv, InsideSees, Inside
  <2>. QED
    BY <2>1, <2>2, <2>3 DEF CheckDone, CheckIdle, See, IInv, TypeOK
<1>2. \A d \in Callers : Inside(d) => d = c
  BY <1>1 DEF IInv, OneInside, Inside
<1>3. CASE CheckDone(c, i)
  <2>1. Finished /\ Finished'
    BY <1>1, <1>3 DEF CheckDone, Finished, Newest
  <2>2. Stages[c] = "calling" /\ Stages' = [Stages EXCEPT ![c] = "outside"]
    BY <1>3 DEF CheckDone, Move, Stages, Stage, IInv, TypeOK
  <2>3. Sees' = [Sees EXCEPT ![c] = 1 .. ended]
    BY <1>1 DEF Sees, Everything
  <2>. QED
    BY <1>1, <2>1, <2>2, <2>3 DEF Contract!Next, Contract!Pass, Contract!Invocations, Finished
<1>4. CASE CheckIdle(c, i)
  <2>1. Newest = "idle" /\ Newest' # "done" /\ pc' = [pc EXCEPT ![c] = "invoking"]
    BY <1>1, <1>4 DEF CheckIdle, Move, Newest
  <2>2. view'[c].effects = 1 .. ended /\ view' \in [Callers -> Views']
    BY <1>1 DEF Everything, IInv, TypeOK
  <2>. QED
    BY <1>1, <1>2, <2>1, <2>2, BeginStep
<1>. QED
  BY <1>3, <1>4

LEMMA EndSteps ==
    ASSUME IInv, IInv', NEW c \in Callers, End(c)
    PROVE  Contract!Next
<1>1. PICK p \in {"storeDone", "storeIdle", "unlock"} : EndAt(c, p)
  BY DEF End, Return, Throw
<1>2. Stages[c] = "active" /\ Stages' = [Stages EXCEPT ![c] = "outside"] /\ ended' = ended + 1
  BY <1>1 DEF EndAt, Move, Stages, Stage, IInv, TypeOK
<1>3. Sees' = [Sees EXCEPT ![c] = @ \cup {ended + 1}]
  BY <1>1 DEF EndAt, See, Sees, IInv, TypeOK, Views
<1>. QED
  BY <1>2, <1>3 DEF Contract!Next, Contract!End, Finished

\* The stores and the release of the mutex are not visible in the contract.
LEMMA LeaveSteps ==
    ASSUME IInv, IInv', NEW c \in Callers, StoreDone(c) \/ StoreIdle(c) \/ Unlock(c)
    PROVE  UNCHANGED Contract!vars
<1>1. UNCHANGED ended /\ Sees' = Sees
  <2>1. CASE Unlock(c)
    BY <2>1 DEF Unlock, Sees
  <2>2. CASE StoreDone(c) \/ StoreIdle(c)
    <3>1. /\ view' = [view EXCEPT ![c] = [view[c] EXCEPT !.at = Len(flag) + 1]]
          /\ UNCHANGED ended
      BY <2>2 DEF StoreDone, StoreIdle, Store, See
    <3>2. view \in [Callers -> Views] /\ view[c] \in Views
      BY DEF IInv, TypeOK
    <3>3. [view[c] EXCEPT !.at = Len(flag) + 1].effects = view[c].effects
      BY <3>2 DEF Views
    <3>4. \A d \in Callers : view'[d].effects = view[d].effects
      BY <3>1, <3>2, <3>3
    <3>. QED
      BY <3>1, <3>4 DEF Sees
  <2>. QED
    BY <2>1, <2>2
<1>2. Stages' = Stages
  BY DEF StoreDone, StoreIdle, Store, Unlock, Move, Stages, Stage, IInv, TypeOK
<1>3. CASE StoreDone(c)
  <2>1. Newest' = "done"
    <3>1. flag' = Release("done", view[c]) /\ view[c] \in Views
      BY <1>3 DEF StoreDone, Store, IInv, TypeOK
    <3>2. "done" \in Values /\ TypeOK /\ UNCHANGED ended
      BY <1>1 DEF IInv, Values
    <3>3. flag'[Len(flag')] = [value |-> "done", effects |-> view[c].effects]
      BY <3>1, <3>2, Stored
    <3>. QED
      BY <3>3 DEF Newest
  <2>2. Finished /\ Finished'
    BY <1>3, <2>1 DEF Finished, StoreDone, Store, Move
  <2>. QED
    BY <1>1, <1>2, <2>2 DEF Contract!vars, Finished
<1>4. CASE StoreIdle(c)
  <2>1. Newest' = "idle"
    <3>1. flag' = Release("idle", view[c]) /\ view[c] \in Views
      BY <1>4 DEF StoreIdle, Store, IInv, TypeOK
    <3>2. "idle" \in Values /\ TypeOK /\ UNCHANGED ended
      BY <1>1 DEF IInv, Values
    <3>3. flag'[Len(flag')] = [value |-> "idle", effects |-> view[c].effects]
      BY <3>1, <3>2, Stored
    <3>. QED
      BY <3>3 DEF Newest
  <2>2. \A d \in Callers : pc[d] # "storeDone" /\ pc'[d] # "storeDone"
    BY <1>4 DEF StoreIdle, Store, Move, IInv, TypeOK, OneInside, Inside
  <2>3. Newest # "done"
    BY <1>4 DEF StoreIdle, Store, Move, IInv, InsideSees
  <2>. QED
    BY <1>1, <1>2, <2>1, <2>2, <2>3 DEF Contract!vars, Finished
<1>5. CASE Unlock(c)
  <2>. UNCHANGED Finished
    BY <1>5 DEF Unlock, Move, Finished, Newest, IInv, TypeOK
  <2>. QED
    BY <1>1, <1>2 DEF Contract!vars
<1>. QED
  BY <1>3, <1>4, <1>5

LEMMA CallSteps ==
    ASSUME IInv, NEW c \in Callers, Call(c)
    PROVE  Contract!Next
<1>1. Stages[c] = "outside" /\ Stages' = [Stages EXCEPT ![c] = "calling"]
  BY DEF Call, Move, Stages, Stage, IInv, TypeOK
<1>2. UNCHANGED <<Sees, ended, Finished>>
  BY DEF Call, Move, Sees, Finished, Newest, IInv, TypeOK
<1>. QED
  BY <1>1, <1>2 DEF Contract!Next, Contract!Call

\* OnceInvoker implements its contract, in both strategies and for any number of callers: one
\* function runs at a time, none after one has returned, each sees what the ones before it
\* did, and a passive call returns with everything visible.
THEOREM ImplementsOnce == Spec => ImplementsContract
<1>1. Init => Contract!Init
  BY Inits
<1>2. IInv /\ IInv' /\ [Next]_vars => [Contract!Next]_(Contract!vars)
  <2>. SUFFICES ASSUME IInv, IInv', [Next]_vars PROVE [Contract!Next]_(Contract!vars)
    OBVIOUS
  <2>1. CASE UNCHANGED vars
    BY <2>1 DEF vars, Contract!vars, Stages, Stage, Finished, Newest, Sees
  <2>2. CASE Next
    BY <2>2, CallSteps, LoadSteps, ExchangeSteps, LockSteps, CheckSteps, EndSteps, LeaveSteps
    DEF Next, AnyRead
  <2>. QED
    BY <2>1, <2>2
<1>. QED
  BY <1>1, <1>2, Invariance, PTL DEF Spec, ImplementsContract, Contract!Spec

-----------------------------------------------------------------------------
(* QuickTimer                                                              *)

\* The deadline is a period after the last action at the earliest, and after a late action the
\* performer looks at the token again before anything else.
Scheduled ==
    /\ performer \in {"look", "drowsy", "asleep", "awake", "due"} =>
        nextTime = Horizon \/ nextTime >= (begun + 1) * Duration
    /\ performer \in {"awake", "due"} => now >= nextTime
    /\ nextTime >= begun * Duration
    /\ late > 0 => stopRequested /\ performer \in {"look", "acting", "ended", "none"}

TimerIInv == TimerInv /\ Scheduled

\* What n actions take.
LEMMA Periods == \A n \in Nat : n * Duration \in Nat /\ (n + 1) * Duration = n * Duration + Duration
BY DurationAssumption

LEMMA TimerStarts == TimerInit => TimerIInv
<1> SUFFICES ASSUME TimerInit PROVE TimerIInv
  OBVIOUS
<1>1. 0 * Duration = 0 /\ (0 + 1) * Duration = Duration /\ Duration \in Nat
  BY DurationAssumption
<1>2. TimerTypeOK
  <2>1. Duration \in Nat \ {0} /\ Horizon \in Nat /\ Duration <= Horizon
    BY DurationAssumption, HorizonAssumption
  <2>2. quick \in BOOLEAN /\ stopRequested \in BOOLEAN
    BY DEF TimerInit
  <2>3. now \in 0 .. Horizon /\ nextTime \in Duration .. Horizon /\ begun \in Nat /\ late \in Nat
    BY <2>1 DEF TimerInit
  <2> QED
    BY <2>2, <2>3 DEF TimerInit, TimerTypeOK, PerformerPoints, OwnerPoints
<1>3. NeverEarly /\ OneMoreAtMost
  BY <1>1 DEF TimerInit, NeverEarly, OneMoreAtMost
<1>4. Scheduled
  BY <1>1 DEF TimerInit, Scheduled
<1> QED
  BY <1>2, <1>3, <1>4 DEF TimerIInv, TimerInv

LEMMA TimerActs ==
    ASSUME TimerIInv, Act PROVE TimerIInv'
<1> USE DEF TimerIInv, TimerInv, Perform, Act
<1>1. begun \in Nat /\ begun' \in Nat /\ begun' = IF now < Horizon THEN begun + 1 ELSE begun
  BY DEF TimerTypeOK
<1>2. TimerTypeOK'
  BY DEF TimerTypeOK, PerformerPoints
<1>3. NeverEarly' /\ nextTime' >= begun' * Duration
  <2>1. now \in Nat /\ nextTime \in Nat /\ (begun + 1) * Duration \in Nat
    BY Periods, <1>1, HorizonAssumption, DurationAssumption DEF TimerTypeOK
  <2>2. CASE now < Horizon
    <3>1. now >= (begun + 1) * Duration /\ nextTime >= (begun + 1) * Duration
      BY <2>1, <2>2, HorizonAssumption DEF Scheduled
    <3> QED
      BY <1>1, <2>2, <3>1 DEF NeverEarly
  <2>3. CASE ~(now < Horizon)
    BY <1>1, <2>3 DEF NeverEarly, Scheduled
  <2> QED
    BY <2>2, <2>3
<1>4. OneMoreAtMost' /\ Scheduled'
  BY <1>1, <1>3 DEF OneMoreAtMost, Scheduled, TimerTypeOK
<1> QED
  BY <1>2, <1>3, <1>4

LEMMA TimerRepeats ==
    ASSUME TimerIInv, ActionEnds PROVE TimerIInv'
<1> USE DEF TimerIInv, TimerInv, Perform
<1>1. /\ now \in Nat /\ nextTime \in Nat /\ begun \in Nat /\ Duration \in Nat /\ Horizon \in Nat
      /\ now >= begun * Duration /\ nextTime >= begun * Duration
  BY HorizonAssumption, DurationAssumption DEF TimerTypeOK, NeverEarly, Scheduled
<1>2. begun * Duration \in Nat /\ (begun + 1) * Duration = begun * Duration + Duration
  BY <1>1, Periods
<1>3. CASE \E base \in {now, nextTime} : Again(base)
  <2> PICK base \in {now, nextTime} : Again(base)
    BY <1>3
  <2>1. base \in Nat /\ base >= begun * Duration
    BY <1>1
  <2>2. nextTime' = IF base + Duration <= Horizon THEN base + Duration ELSE Horizon
    BY DEF Again, Shown
  <2>3. TimerTypeOK'
    BY <1>1, <2>1, <2>2, HorizonAssumption DEF Again, TimerTypeOK, PerformerPoints
  <2>4. Horizon >= begun * Duration
    BY <1>1, <1>2 DEF TimerTypeOK
  <2>5. (nextTime' = Horizon \/ nextTime' >= (begun + 1) * Duration) /\ nextTime' >= begun * Duration
    BY <1>1, <1>2, <2>1, <2>2, <2>4
  <2> QED
    BY <2>3, <2>5 DEF Again, NeverEarly, OneMoreAtMost, Scheduled
<1>4. CASE Finish
  BY <1>4 DEF Finish, TimerTypeOK, PerformerPoints, NeverEarly, OneMoreAtMost, Scheduled
<1> QED
  BY <1>3, <1>4 DEF ActionEnds

LEMMA TimerTicks ==
    ASSUME TimerIInv, Tick PROVE TimerIInv'
<1>1. begun * Duration \in Nat /\ (begun + 1) * Duration \in Nat /\ Horizon \in Nat /\ Duration \in Nat
  BY Periods, HorizonAssumption, DurationAssumption DEF TimerIInv, TimerInv, TimerTypeOK
<1>2. now \in Nat /\ now < Horizon /\ now' = now + 1
  BY <1>1 DEF Tick, TimerIInv, TimerInv, TimerTypeOK
<1>3. UNCHANGED <<quick, nextTime, stopRequested, performer, owner, begun, late>>
  BY DEF Tick
<1>4. now' \in 0 .. Horizon /\ now' >= now
  BY <1>1, <1>2
<1>5. TimerTypeOK'
  BY <1>3, <1>4 DEF TimerIInv, TimerInv, TimerTypeOK
<1>6. NeverEarly'
  BY <1>1, <1>2, <1>3 DEF TimerIInv, TimerInv, NeverEarly
<1>7. Scheduled'
  <2>1. nextTime \in Nat
    BY <1>1 DEF TimerIInv, TimerInv, TimerTypeOK
  <2> QED
    BY <2>1, <1>1, <1>2, <1>3 DEF TimerIInv, Scheduled
<1> QED
  BY <1>3, <1>5, <1>6, <1>7 DEF TimerIInv, TimerInv, OneMoreAtMost

LEMMA TimerSteps == TimerIInv /\ [TimerNext]_timerVars => TimerIInv'
<1> SUFFICES ASSUME TimerIInv, [TimerNext]_timerVars PROVE TimerIInv'
  OBVIOUS
<1> USE DEF TimerIInv, TimerInv, TimerTypeOK, NeverEarly, OneMoreAtMost, Scheduled, PerformerPoints, OwnerPoints
<1>1. CASE UNCHANGED timerVars
  BY <1>1 DEF timerVars
<1>2. CASE Look \/ Sleep \/ WakeSpuriously
  BY <1>2 DEF Look, Sleep, WakeSpuriously, Perform
<1>3. CASE Deadline \/ LookAgain
  BY <1>3 DEF Deadline, LookAgain, Perform
<1>4. CASE Act
  BY <1>4, TimerActs
<1>5. CASE ActionEnds
  BY <1>5, TimerRepeats
<1>6. CASE Stop \/ Destroy
  BY <1>6 DEF Stop, Destroy, RequestStop, Step
<1>7. CASE StopNotify \/ DestroyNotify
  BY <1>7 DEF StopNotify, DestroyNotify, Notify, Step
<1>8. CASE WaitUntilDone \/ Joined \/ Destroyed
  BY <1>8 DEF WaitUntilDone, Joined, Destroyed, Step, Perform
<1>9. CASE Tick
  BY <1>9, TimerTicks
<1> QED
  BY <1>1, <1>2, <1>3, <1>4, <1>5, <1>6, <1>7, <1>8, <1>9 DEF TimerNext, Performing, Owning

\* For every period: n actions have not begun before n periods have passed, whatever wakes the
\* performer, and after stop at most one still begins (makePerformer_, stop).
THEOREM TimerInvariance == TimerSpec => []TimerInv
<1>1. TimerIInv => TimerInv
  BY DEF TimerIInv
<1> QED
  BY TimerStarts, TimerSteps, <1>1, PTL DEF TimerSpec
=============================================================================
