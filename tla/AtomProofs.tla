----------------------------- MODULE AtomProofs -----------------------------
(***************************************************************************)
(* For any number of threads, any values and stamps of any width: stamps   *)
(* count the updates, and the loops, critical sections and waits of the    *)
(* calls implement AtomContract.                                           *)
(***************************************************************************)
EXTENDS Atom, SharedReferences, FiniteSetTheorems, TLAPS

-----------------------------------------------------------------------------
(* Stamps                                                                  *)

LEMMA Divides ==
    ASSUME NEW n \in Nat, NEW s \in Nat \ {0}
    PROVE  n \div s \in Int /\ n % s \in 0 .. s - 1 /\ n = s * (n \div s) + (n % s)
<1>1. n \div s \in Int
  OBVIOUS
<1>2. n % s \in 0 .. s - 1
  OBVIOUS
<1>3. n = s * (n \div s) + (n % s)
  OBVIOUS
<1> QED
  BY <1>1, <1>2, <1>3

LEMMA Remainder ==
    ASSUME NEW n \in Nat, NEW s \in Nat \ {0}, NEW q \in Int, NEW r \in 0 .. s - 1, n = s * q + r
    PROVE  n % s = r
OBVIOUS

\* A stamp that is incremented with every update stays the number of updates modulo their number.
LEMMA Counts ==
    ASSUME NEW n \in Nat, NEW s \in Nat \ {0} PROVE (n + 1) % s = ((n % s) + 1) % s
<1> DEFINE q == n \div s
           r == n % s
<1>1. r \in 0 .. s - 1 /\ q \in Int /\ n = s * q + r
  BY Divides
<1> HIDE DEF q, r
<1>2. CASE r + 1 < s
  <2>1. n + 1 = s * q + (r + 1) /\ r + 1 \in 0 .. s - 1
    BY <1>1, <1>2
  <2>2. (n + 1) % s = r + 1
    BY <1>1, <2>1, Remainder
  <2>3. (r + 1) % s = r + 1
    BY <2>1
  <2> QED
    BY <2>2, <2>3 DEF r
<1>3. CASE r + 1 = s
  <2>1. n + 1 = s * (q + 1) + 0
    BY <1>1, <1>3
  <2>2. (n + 1) % s = 0
    BY <1>1, <2>1, Remainder
  <2>3. s % s = 0
    OBVIOUS
  <2> QED
    BY <1>3, <2>2, <2>3 DEF r
<1> QED
  BY <1>1, <1>2, <1>3

LEMMA Sizes ==
    ASSUME build \in Builds
    PROVE  /\ StampSize \in Nat \ {0} /\ (StampSize = 1 <=> ~build.stamped) /\ build.stamped \in BOOLEAN
           /\ \A n \in Nat : n % StampSize \in 0 .. StampSize - 1
           /\ ~build.stamped => \A n \in Nat : n % StampSize = 0
<1>1. StampSize \in Nat \ {0} /\ (StampSize = 1 <=> ~build.stamped) /\ build.stamped \in BOOLEAN
  BY StampsAssumption DEF StampSize, Builds
<1>2. \A n \in Nat : n % StampSize \in 0 .. StampSize - 1
  BY <1>1, Divides
<1> QED
  BY <1>1, <1>2

-----------------------------------------------------------------------------
(* The kinds of calls                                                      *)

Operates == FetchOperations \cup OperationFetches

LEMMA Kinds ==
    /\ Compares \cap (Changes \cup Operates \cup {"waitFetchWeak"} \cup Notifies \cup Hinted) = {}
    /\ Changes \cap (Operates \cup {"waitFetchWeak"} \cup Notifies \cup Hinted) = {}
    /\ "waitFetchWeak" \notin Operates \cup Notifies \cup Hinted
    /\ Operates \cap (Notifies \cup Hinted) = {}
    /\ Fetches \cap ReturnsNew = {}
    /\ OperationFetches \subseteq ReturnsNew
    /\ Weak \subseteq Compares /\ Notifies \subseteq Silent /\ Hinted \subseteq Executes
    /\ "wait" \in Changes \cap Silent /\ "waitUntil" \in Changes
    /\ Hinted \cap (Silent \cup {"waitUntil"}) = {}
    /\ "none" \notin Operations
    /\ Compares \cap (Executes \cup Changes) = {}
<1> USE DEF Compares, Weak, Strong, Changes, Operates, FetchOperations, OperationFetches, Notifies, Hinted
<1>1. /\ Compares \cap (Changes \cup Operates \cup {"waitFetchWeak"} \cup Notifies \cup Hinted) = {}
      /\ Changes \cap (Operates \cup {"waitFetchWeak"} \cup Notifies \cup Hinted) = {}
  OBVIOUS
<1>2. /\ "waitFetchWeak" \notin Operates \cup Notifies \cup Hinted
      /\ Operates \cap (Notifies \cup Hinted) = {}
  OBVIOUS
<1>3. Fetches \cap ReturnsNew = {} /\ OperationFetches \subseteq ReturnsNew
  BY DEF Fetches, ReturnsNew, Loads, Exchanges, FetchTransforms, FetchTransformsOrLoad, FetchExecutes,
     WaitFetches, TransformFetches, TransformFetchesOrLoad, ExecuteFetches
<1>4. /\ Weak \subseteq Compares /\ Notifies \subseteq Silent /\ Hinted \subseteq Executes
      /\ "wait" \in Changes \cap Silent /\ "waitUntil" \in Changes
      /\ Hinted \cap (Silent \cup {"waitUntil"}) = {}
      /\ Compares \cap (Executes \cup Changes) = {}
  BY DEF Silent, Stores, Executes, FetchExecutes, ExecuteFetches
<1>5. "none" \notin Operations
  BY DEF Operations, Silent, Stores, Fetches, ReturnsNew, Loads, Exchanges, FetchTransforms,
     FetchTransformsOrLoad, FetchExecutes, WaitFetches, TransformFetches, TransformFetchesOrLoad,
     ExecuteFetches
<1> QED
  BY <1>1, <1>2, <1>3, <1>4, <1>5

-----------------------------------------------------------------------------
(* The invariant                                                           *)

Results == [ok : BOOLEAN, value : Values, stamp : Nat, at : Nat]
Contents == [value : Values, stamp : Nat]

\* Stamps are the numbers of updates, of which only stamped atoms keep any.
Numbers ==
    /\ program \in DOMAIN Programs /\ build \in Builds
    /\ cell \in Cells /\ updates \in Nat /\ cell.stamp = updates % StampSize
    /\ result \in [Threads -> Results]
    /\ \A t \in Threads : result[t].stamp = result[t].at % StampSize
    /\ ~build.stamped => updates = 0 /\ \A t \in Threads : result[t].at = 0

\* Hints are given to the tasks of an unstamped atom only.
Compiles(c) == c.op \in Hinted => ~build.stamped

\* Where a thread is inside of a call, and what its loop has decided.
Inside(t) ==
    /\ pc[t] \in {"out", "owes"} => call[t] = NoCall
    /\ pc[t] \notin {"out", "owes"} =>
        call[t] \in Calls /\ Compiles(call[t]) /\ Conforms(call[t], pc[t] = "alone")
    /\ pc[t] = "exchange" => Verdict(t, old[t]) \in Values
    /\ pc[t] = "hint" => call[t].op \in Hinted
    /\ call[t].op = "wait" /\ pc[t] \in {"wait", "asleep"} /\ Lockless => old[t] = Known(t)

IInv ==
    /\ Numbers
    /\ pc \in [Threads -> Points] /\ old \in [Threads -> Contents]
    /\ call \in [Threads -> Calls \cup {NoCall}]
    /\ \A t \in Threads : Inside(t)

LEMMA Starts == AtomInit => IInv
<1> SUFFICES ASSUME AtomInit PROVE IInv
  OBVIOUS
<1>1. build \in Builds /\ program \in DOMAIN Programs
  BY ProgramsAssumption DEF AtomInit
<1>2. 0 \in 0 .. StampSize - 1 /\ 0 % StampSize = 0
  BY <1>1, Sizes
<1>3. cell \in Cells /\ cell = [value |-> 0, stamp |-> 0]
  BY <1>2, ValuesAssumption DEF AtomInit, Cells
<1>4. result \in [Threads -> Results] /\ \A t \in Threads : result[t].stamp = 0 /\ result[t].at = 0
  BY <1>3, ValuesAssumption DEF AtomInit, Fresh, Results
<1>5. Numbers
  BY <1>1, <1>2, <1>3, <1>4 DEF AtomInit, Numbers
<1>6. old \in [Threads -> Contents]
  BY <1>3, ValuesAssumption DEF AtomInit, Contents
<1>7. \A t \in Threads : Inside(t)
  BY DEF AtomInit, Inside, NoCall
<1> QED
  BY <1>5, <1>6, <1>7 DEF IInv, AtomInit, Points

\* The thread that takes a step, and those it wakes.
Others(t) == \A u \in Threads \ {t} :
    /\ call'[u] = call[u] /\ old'[u] = old[u] /\ result'[u] = result[u]
    /\ pc'[u] = pc[u] \/ (pc[u] = "asleep" /\ pc'[u] = "wait")

\* What is left to show of a step of a thread.
LEMMA Keeps ==
    ASSUME IInv, NEW t \in Threads, Others(t), UNCHANGED build, Numbers', Inside(t)',
           pc' \in [Threads -> Points], old' \in [Threads -> Contents],
           call' \in [Threads -> Calls \cup {NoCall}]
    PROVE  IInv'
<1>1. ASSUME NEW u \in Threads, u # t PROVE Inside(u)'
  <2>1. /\ Inside(u) /\ call'[u] = call[u] /\ old'[u] = old[u] /\ result'[u] = result[u] /\ build' = build
        /\ pc'[u] = pc[u] \/ (pc[u] = "asleep" /\ pc'[u] = "wait")
    BY <1>1 DEF IInv, Others
  <2>2. Known(u)' = Known(u)
    BY <2>1 DEF Known
  <2>3. Compiles(call[u]) => Compiles(call[u])'
    BY <2>1 DEF Compiles, Lockless
  <2>4. (pc'[u] = "alone") = (pc[u] = "alone")
    BY <2>1
  <2>5. Conforms(call[u], pc[u] = "alone") => Conforms(call[u], pc[u] = "alone")'
    BY <2>1, <2>4 DEF Conforms, ReturnsOld, AddsOnReturn, AddsInPlace, Plain, Lockless, Sum
  <2>6. pc'[u] = "exchange" => Verdict(u, old[u])' = Verdict(u, old[u])
    BY <2>1, <2>2 DEF Verdict, AddsInPlace, Plain, Lockless, Sum
  <2> QED
    BY <2>1, <2>2, <2>3, <2>4, <2>5, <2>6 DEF Inside, Lockless
<1> QED
  BY <1>1 DEF IInv

-----------------------------------------------------------------------------
(* The ends of calls                                                       *)

\* What a call may leave to its thread.
Proper(r) ==
    /\ r \in Results /\ r.stamp = r.at % StampSize
    /\ ~build.stamped => r.at = 0

LEMMA LeavesIt ==
    ASSUME IInv, NEW t \in Threads, NEW r, Proper(r), Leave(t, r)
    PROVE  IInv'
<1>1. /\ pc' = [pc EXCEPT ![t] = "out"] /\ call' = [call EXCEPT ![t] = NoCall]
      /\ old' = [old EXCEPT ![t] = [value |-> 0, stamp |-> 0]]
      /\ result' = [result EXCEPT ![t] = r]
      /\ UNCHANGED <<build, program, cell, updates>>
  BY DEF Leave, Return, Go
<1>2. Others(t)
  BY <1>1 DEF IInv, Numbers, Others
<1>3. Numbers'
  BY <1>1 DEF IInv, Numbers, Proper, Cells, StampSize
<1>4. pc' \in [Threads -> Points] /\ old' \in [Threads -> Contents]
        /\ call' \in [Threads -> Calls \cup {NoCall}]
  BY <1>1, ValuesAssumption DEF IInv, Points, Contents
<1>5. Inside(t)'
  BY <1>1 DEF IInv, Inside, NoCall
<1> QED
  BY <1>1, <1>2, <1>3, <1>4, <1>5, Keeps

LEMMA WritesIt ==
    ASSUME IInv, NEW t \in Threads, NEW new \in Cells, new.stamp = (cell.stamp + 1) % StampSize,
           NEW r, Write(t, new, r), Proper(r)
    PROVE  IInv'
<1>1. /\ call' = [call EXCEPT ![t] = NoCall] /\ cell' = new
      /\ old' = [old EXCEPT ![t] = [value |-> 0, stamp |-> 0]]
      /\ result' = [result EXCEPT ![t] = r]
      /\ updates' = IF build.stamped THEN updates + 1 ELSE updates
      /\ UNCHANGED <<build, program>>
  BY DEF Write, Return
<1>2. PICK to \in {"out", "owes"} : pc' = [pc EXCEPT ![t] = to]
  BY DEF Write, Go
<1>3. Others(t)
  BY <1>1, <1>2 DEF IInv, Numbers, Others
<1>4. build \in Builds /\ updates \in Nat /\ cell.stamp = updates % StampSize
  BY DEF IInv, Numbers
<1>5. cell'.stamp = updates' % StampSize
  <2>1. CASE build.stamped
    BY <1>1, <1>4, <2>1, Counts, Sizes
  <2>2. CASE ~build.stamped
    BY <1>1, <1>4, <2>2, Sizes
  <2> QED
    BY <2>1, <2>2
<1>6. Numbers'
  <2>1. StampSize' = StampSize /\ build' = build
    BY <1>1 DEF StampSize
  <2>2. /\ result' \in [Threads -> Results]
        /\ \A u \in Threads : result'[u].stamp = result'[u].at % StampSize
    BY <1>1 DEF IInv, Numbers, Proper
  <2>3. ~build.stamped => updates' = 0 /\ \A u \in Threads : result'[u].at = 0
    BY <1>1 DEF IInv, Numbers, Proper
  <2>4. cell' \in Cells' /\ updates' \in Nat
    BY <1>1, <1>4, <2>1 DEF Cells
  <2> QED
    BY <1>1, <1>4, <1>5, <2>1, <2>2, <2>3, <2>4 DEF IInv, Numbers
<1>7. pc' \in [Threads -> Points] /\ old' \in [Threads -> Contents]
        /\ call' \in [Threads -> Calls \cup {NoCall}]
  BY <1>1, <1>2, ValuesAssumption DEF IInv, Points, Contents
<1>8. Inside(t)'
  <2>1. call'[t] = NoCall /\ pc'[t] \in {"out", "owes"}
    BY <1>1, <1>2 DEF IInv
  <2> QED
    BY <2>1 DEF Inside, NoCall
<1> QED
  BY <1>1, <1>3, <1>6, <1>7, <1>8, Keeps

\* What the calls make of the content of the atom is proper.
LEMMA Decides ==
    ASSUME IInv, NEW t \in Threads, pc[t] \notin {"out", "owes"}, NEW saw \in Contents
    PROVE  Verdict(t, saw) \in Values \cup {Stop, Retry, Delay}
<1>1. call[t] \in Calls /\ Conforms(call[t], pc[t] = "alone")
  BY DEF IInv, Inside
<1>2. call[t].rule \in [Values -> Values \cup {Stop, Retry, Delay}] /\ saw.value \in Values
  BY <1>1 DEF Calls, Rules, Contents
<1>3. AddsInPlace(call[t], pc[t] = "alone") => Sum(call[t]) = call[t].rule
  BY <1>1 DEF Conforms
<1> QED
  BY <1>2, <1>3, Kinds DEF Verdict, AddsInPlace, Operates

LEMMA Knows ==
    ASSUME IInv, NEW t \in Threads
    PROVE  /\ Known(t) \in Contents /\ cell \in Contents /\ cell \in Cells
           /\ result[t] \in Results /\ Proper(result[t]) /\ Proper(Outcome(t, TRUE))
           /\ Proper(Outcome(t, FALSE))
<1>1. build \in Builds
  BY DEF IInv, Numbers
<1>2. cell \in Cells /\ cell \in Contents
  BY <1>1, Sizes DEF IInv, Numbers, Cells, Contents
<1>3. result[t] \in Results /\ Proper(result[t])
  BY DEF IInv, Numbers, Proper
<1>4. Known(t) \in Contents
  BY <1>3 DEF Known, Contents, Results
<1> QED
  BY <1>2, <1>3, <1>4 DEF Proper, Results, Outcome

LEMMA LeavesProperly ==
    ASSUME IInv, NEW t \in Threads, NEW ok \in BOOLEAN
    PROVE  Proper(Read(cell, ok)) /\ Proper(LeftUnchanged(t, cell))
<1>1. Proper(Read(cell, ok)) /\ \A b \in BOOLEAN : Proper(Read(cell, b))
  BY Knows DEF IInv, Numbers, Proper, Read, Results, Contents
<1> QED
  BY <1>1, Knows DEF LeftUnchanged

\* A hinted task that ends on its hint: no stamps.
LEMMA LeavesOnHint ==
    ASSUME IInv, NEW t \in Threads, pc[t] = "hint"
    PROVE  LeftUnchanged(t, Known(t)) = Outcome(t, TRUE)
<1>1. call[t].op \in Hinted /\ ~build.stamped
  BY Kinds DEF IInv, Inside, Compiles
<1>2. Known(t) = [value |-> result[t].value, stamp |-> result[t].stamp] /\ updates = 0 /\ result[t].at = 0
  BY <1>1 DEF Known, IInv, Numbers
<1>3. LeftUnchanged(t, Known(t)) = Read(Known(t), TRUE)
  BY <1>1, Kinds DEF LeftUnchanged
<1> QED
  BY <1>2, <1>3 DEF Read, Outcome

LEMMA WritesProperly ==
    ASSUME IInv, NEW t \in Threads, pc[t] \notin {"out", "owes"}, NEW v \in Values, v = Verdict(t, cell),
           updates' = IF build.stamped THEN updates + 1 ELSE updates
    PROVE  /\ Restamped(cell, v) \in Cells /\ Restamped(cell, v).stamp = (cell.stamp + 1) % StampSize
           /\ Restamped(cell, v).value = v
           /\ Proper(Left(t, cell, Restamped(cell, v)))
<1> DEFINE new == Restamped(cell, v)
           r == Left(t, cell, new)
<1>1. /\ build \in Builds /\ updates \in Nat /\ updates' \in Nat /\ cell.stamp = updates % StampSize
      /\ ~build.stamped => updates = 0 /\ updates' = 0
  BY DEF IInv, Numbers
<1>2. cell.stamp + 1 \in Nat
  <2>1. cell \in Contents
    BY Knows
  <2> QED
    BY <2>1 DEF Contents
<1>3. new = [value |-> v, stamp |-> (cell.stamp + 1) % StampSize] /\ new \in Cells
  BY <1>1, <1>2, Sizes DEF Restamped, Cells
<1>4. new.stamp = updates' % StampSize /\ new.stamp \in Nat
  <2>1. CASE build.stamped
    BY <1>1, <1>2, <1>3, <2>1, Counts, Sizes
  <2>2. CASE ~build.stamped
    BY <1>1, <1>2, <1>3, <2>2, Sizes
  <2> QED
    BY <2>1, <2>2, Sizes, <1>1
<1>5. call[t] \in Calls /\ Conforms(call[t], pc[t] = "alone")
  BY DEF IInv, Inside
<1>6. ASSUME call[t].op \in Fetches PROVE Proper(r)
  <2>1. r = Read(cell, TRUE)
    BY <1>6 DEF Left
  <2>2. Proper(Read(cell, TRUE))
    BY LeavesProperly
  <2> HIDE DEF r
  <2> QED
    BY <2>1, <2>2
<1>7. ASSUME AddsOnReturn(call[t], pc[t] = "alone") PROVE Proper(r)
  <2>1. Sum(call[t]) = call[t].rule /\ ~build.stamped /\ call[t].op \in OperationFetches
    BY <1>5, <1>7 DEF Conforms, AddsOnReturn
  <2>2. Sum(call[t])[cell.value] = v
    BY <2>1, Kinds DEF Verdict, Operates, AddsInPlace
  <2>3. r = [ok |-> TRUE, value |-> v, stamp |-> 0, at |-> updates]
    BY <1>5, <1>7, <2>1, <2>2, Kinds DEF Left, Read, Conforms, ReturnsOld
  <2>4. Proper([ok |-> TRUE, value |-> v, stamp |-> 0, at |-> updates])
    BY <1>1, <2>1, Sizes DEF Proper, Results
  <2> HIDE DEF r
  <2> QED
    BY <2>3, <2>4
<1>8. ASSUME call[t].op \in ReturnsNew /\ ~AddsOnReturn(call[t], pc[t] = "alone") PROVE Proper(r)
  <2>1. r = [ok |-> TRUE, value |-> new.value, stamp |-> new.stamp, at |-> updates']
    BY <1>5, <1>8, Kinds DEF Left, Conforms
  <2> HIDE DEF r, new
  <2>3. r = [ok |-> TRUE, value |-> v, stamp |-> new.stamp, at |-> updates']
    BY <1>3, <2>1
  <2>4. Proper([ok |-> TRUE, value |-> v, stamp |-> new.stamp, at |-> updates'])
    BY <1>1, <1>4 DEF Proper, Results
  <2> QED
    BY <2>3, <2>4
<1>9. ASSUME call[t].op \notin Fetches \cup ReturnsNew PROVE Proper(r)
  <2>1. r = Outcome(t, TRUE)
    BY <1>5, <1>9, Kinds DEF Left, Conforms, AddsOnReturn
  <2>2. Proper(Outcome(t, TRUE))
    BY Knows
  <2> HIDE DEF r
  <2> QED
    BY <2>1, <2>2
<1> QED
  BY <1>3, <1>6, <1>7, <1>8, <1>9

-----------------------------------------------------------------------------
(* The steps inside of calls                                               *)

\* Steps that end no call, move one thread and leave the atom alone.
LEMMA MovesIt ==
    ASSUME IInv, NEW t \in Threads, NEW x \in {"load", "wait", "exchange", "asleep", "once"},
           pc[t] \notin {"out", "owes", "alone"}, pc' = [pc EXCEPT ![t] = x],
           NEW o \in Contents, old' = [old EXCEPT ![t] = o],
           UNCHANGED <<build, program, cell, updates, call, result>>,
           x = "exchange" => Verdict(t, o) \in Values,
           call[t].op = "wait" /\ x \in {"wait", "asleep"} /\ Lockless => o = Known(t)
    PROVE  IInv'
<1>1. Others(t)
  BY DEF IInv, Others
<1>2. Numbers'
  BY DEF IInv, Numbers, Cells, StampSize
<1>3. pc' \in [Threads -> Points] /\ old' \in [Threads -> Contents]
        /\ call' \in [Threads -> Calls \cup {NoCall}]
  BY DEF IInv, Points
<1>4. Inside(t)'
  <2>1. /\ pc'[t] = x /\ old'[t] = o /\ call' = call /\ result' = result /\ build' = build
        /\ Inside(t) /\ pc[t] \notin {"out", "owes", "alone"}
    BY DEF IInv
  <2>2. Compiles(call[t])'
    BY <2>1 DEF Inside, Compiles, Lockless
  <2>3. Conforms(call[t], pc[t] = "alone")'
    <3>1. (pc'[t] = "alone") = FALSE /\ (pc[t] = "alone") = FALSE
      BY <2>1
    <3>2. Conforms(call[t], FALSE)
      BY <2>1, <3>1 DEF Inside
    <3>3. Conforms(call[t], FALSE)'
      BY <2>1, <3>2 DEF Conforms, ReturnsOld, AddsOnReturn, AddsInPlace, Plain, Lockless, Sum
    <3> QED
      BY <2>1, <3>1, <3>3
  <2>4. Verdict(t, old[t])' = Verdict(t, o)
    BY <2>1 DEF Verdict, Known, AddsInPlace, Plain, Lockless, Sum
  <2>5. Known(t)' = Known(t)
    BY <2>1 DEF Known
  <2> QED
    BY <2>1, <2>2, <2>3, <2>4, <2>5 DEF Inside, Lockless
<1> QED
  BY <1>1, <1>2, <1>3, <1>4, Keeps

LEMMA StaysIt ==
    ASSUME IInv, NEW t \in Threads, NEW x \in {"load", "wait", "asleep", "once"},
           pc[t] \notin {"out", "owes", "alone"}, Go(t, x),
           UNCHANGED <<build, program, cell, updates, call, old, result>>,
           call[t].op = "wait" /\ x \in {"wait", "asleep"} /\ Lockless => pc[t] \in {"wait", "asleep"}
    PROVE  IInv'
<1> DEFINE o == old[t]
<1>1. o \in Contents /\ old' = [old EXCEPT ![t] = o]
  BY DEF IInv
<1>2. call[t].op = "wait" /\ x \in {"wait", "asleep"} /\ Lockless => o = Known(t)
  BY DEF IInv, Inside
<1> HIDE DEF o
<1> QED
  BY <1>1, <1>2, MovesIt DEF Go

LEMMA DecidesIt ==
    ASSUME IInv, NEW t \in Threads, NEW saw \in Contents, pc[t] \in {"hint", "load", "exchange"},
           Proper(LeftUnchanged(t, saw)), Decide(t, saw)
    PROVE  IInv'
<1> DEFINE d == Verdict(t, saw)
<1>1. d \in Values \cup {Stop, Retry, Delay}
  BY Decides
<1>2. CASE d = Stop /\ Leave(t, LeftUnchanged(t, saw))
  BY <1>2, LeavesIt
<1>3. CASE ~(d = Stop /\ Leave(t, LeftUnchanged(t, saw)))
  <2> DEFINE x == IF d = Retry THEN "load" ELSE IF d = Delay THEN "wait" ELSE "exchange"
             o == IF d = Retry THEN [value |-> 0, stamp |-> 0] ELSE saw
  <2>1. /\ d # Stop /\ pc' = [pc EXCEPT ![t] = x] /\ old' = [old EXCEPT ![t] = o]
        /\ UNCHANGED <<build, program, cell, updates, call, result>>
    BY <1>3 DEF Decide, Go
  <2>2. o \in Contents /\ x \in {"load", "wait", "exchange", "asleep", "once"}
    BY ValuesAssumption DEF Contents
  <2>3. x = "exchange" => Verdict(t, o) \in Values
    BY <1>1, <2>1
  <2>4. call[t].op = "wait" /\ x \in {"wait", "asleep"} /\ Lockless => o = Known(t)
    <3>1. ASSUME call[t].op = "wait" PROVE d = IF saw = Known(t) THEN Delay ELSE Stop
      <4>1. call[t].op \in Changes /\ call[t].op \notin Compares
        BY <3>1, Kinds
      <4> QED
        BY <4>1 DEF Verdict, AddsInPlace, Plain, Lockless
    <3>2. Delay # Retry
      BY DEF Delay, Retry
    <3> QED
      BY <2>1, <3>1, <3>2
  <2> HIDE DEF x, o, d
  <2> QED
    BY <2>1, <2>2, <2>3, <2>4, MovesIt
<1> QED
  BY <1>2, <1>3

\* A call begins with one of the families of calls, and then the proof needs only this of them.
BeginsWith(t, ops, sequenced, first) ==
    /\ Enter(t, ops, sequenced, first)
    /\ first \in {"once", "hint", "load", "exchange", "wait"}
    /\ first = "exchange" => ops \subseteq Compares \ ByStamp
    /\ first = "hint" => ops \subseteq Hinted
    /\ \A op \in ops \cap Hinted : ~build.stamped

BeginsSome(t) == \E ops, sequenced, first : BeginsWith(t, ops, sequenced, first)

LEMMA BeginsPlainly ==
    ASSUME NEW t, NEW ops, NEW sequenced, NEW first, first \in {"once", "load", "wait"},
           ops \cap Hinted = {}, Enter(t, ops, sequenced, first)
    PROVE  BeginsSome(t)
<1>1. BeginsWith(t, ops, sequenced, first)
  BY DEF BeginsWith
<1> QED
  BY <1>1 DEF BeginsSome

LEMMA Unhinted ==
    /\ \A op \in {"load", "store", "exchange", "compareExchangeWeak", "stampedCompareExchangeWeak",
           "compareExchangeStrong", "stampedCompareExchangeStrong", "fetchTransform", "transformFetch",
           "fetchTransformOrLoad", "transformFetchOrLoad", "wait", "waitUntil", "fetchExecute",
           "executeFetch"} : {op} \cap Hinted = {}
    /\ WaitFetches \cap Hinted = {} /\ Awaits \cap Hinted = {} /\ Notifies \cap Hinted = {}
    /\ (FetchOperations \cup OperationFetches) \cap Hinted = {}
BY DEF Hinted, WaitFetches, Awaits, Notifies, FetchOperations, OperationFetches

LEMMA BeginsInAFamily ==
    ASSUME NEW t \in Threads, Begin(t) PROVE BeginsSome(t)
<1>1. CASE BeginLoad(t)
  BY <1>1, BeginsPlainly, Unhinted DEF BeginLoad
<1>2. CASE BeginStore(t)
  <2>1. Loaded \in {"once", "load"}
    BY DEF Loaded
  <2> QED
    BY <1>2, <2>1, BeginsPlainly, Unhinted DEF BeginStore
<1>3. CASE BeginExchange(t)
  <2>1. Loaded \in {"once", "load"}
    BY DEF Loaded
  <2> QED
    BY <1>3, <2>1, BeginsPlainly, Unhinted DEF BeginExchange
<1>4. CASE BeginCompareWeak(t)
  <2>1. \/ Enter(t, {"stampedCompareExchangeWeak"}, TRUE, "once")
        \/ Enter(t, {"compareExchangeWeak"}, TRUE, "once")
    BY <1>4 DEF BeginCompareWeak
  <2> QED
    BY <2>1, BeginsPlainly, Unhinted
<1>5. CASE BeginStampedCompareStrong(t)
  BY <1>5, BeginsPlainly, Unhinted DEF BeginStampedCompareStrong
<1>6. CASE BeginStampedFetchTransform(t)
  BY <1>6, BeginsPlainly, Unhinted DEF BeginStampedFetchTransform
<1>7. CASE BeginStampedTransformFetch(t)
  BY <1>7, BeginsPlainly, Unhinted DEF BeginStampedTransformFetch
<1>8. CASE BeginFetchTransform(t)
  BY <1>8, BeginsPlainly, Unhinted DEF BeginFetchTransform
<1>9. CASE BeginTransformFetch(t)
  BY <1>9, BeginsPlainly, Unhinted DEF BeginTransformFetch
<1>10. CASE BeginFetchTransformOrLoad(t)
  BY <1>10, BeginsPlainly, Unhinted DEF BeginFetchTransformOrLoad
<1>11. CASE BeginTransformFetchOrLoad(t)
  BY <1>11, BeginsPlainly, Unhinted DEF BeginTransformFetchOrLoad
<1>12. CASE BeginWait(t)
  BY <1>12, BeginsPlainly, Unhinted DEF BeginWait
<1>13. CASE BeginWaitUntil(t)
  BY <1>13, BeginsPlainly, Unhinted DEF BeginWaitUntil
<1>14. CASE BeginWaitFetch(t)
  BY <1>14, BeginsPlainly, Unhinted DEF BeginWaitFetch
<1>15. CASE BeginAwait(t)
  BY <1>15, BeginsPlainly, Unhinted DEF BeginAwait
<1>16. CASE BeginNotify(t)
  BY <1>16, BeginsPlainly, Unhinted DEF BeginNotify
<1>17. CASE BeginStampedOperation(t)
  BY <1>17, BeginsPlainly, Unhinted DEF BeginStampedOperation
<1>18. CASE BeginOperation(t)
  BY <1>18, BeginsPlainly, Unhinted DEF BeginOperation
<1>19. CASE BeginFetchExecute(t) \/ BeginExecuteFetch(t)
  <2>1. ~build.stamped /\ \/ Enter(t, {"fetchExecute"}, FALSE, "load")
                          \/ Enter(t, {"executeFetch"}, FALSE, "load")
                          \/ Enter(t, {"hintedFetchExecute"}, FALSE, "hint")
                          \/ Enter(t, {"hintedExecuteFetch"}, FALSE, "hint")
    BY <1>19 DEF BeginFetchExecute, BeginExecuteFetch
  <2>2. ASSUME NEW op \in Hinted, Enter(t, {op}, FALSE, "hint") PROVE BeginsSome(t)
    <3>1. BeginsWith(t, {op}, FALSE, "hint")
      BY <2>1, <2>2 DEF BeginsWith
    <3> QED
      BY <3>1 DEF BeginsSome
  <2>3. "hintedFetchExecute" \in Hinted /\ "hintedExecuteFetch" \in Hinted
    BY DEF Hinted
  <2> QED
    BY <2>1, <2>2, <2>3, BeginsPlainly, Unhinted
<1>20. CASE BeginCompareStrong(t)
  <2>1. \/ Enter(t, {"compareExchangeStrong"}, ~build.stamped, "once")
        \/ Enter(t, {"compareExchangeStrong"}, ~build.stamped, "exchange")
    BY <1>20 DEF BeginCompareStrong
  <2>2. CASE Enter(t, {"compareExchangeStrong"}, ~build.stamped, "once")
    BY <2>2, BeginsPlainly, Unhinted
  <2>3. CASE Enter(t, {"compareExchangeStrong"}, ~build.stamped, "exchange")
    <3>1. {"compareExchangeStrong"} \subseteq Compares \ ByStamp /\ {"compareExchangeStrong"} \cap Hinted = {}
      BY Unhinted DEF Compares, Strong, ByStamp, Changes
    <3>2. BeginsWith(t, {"compareExchangeStrong"}, ~build.stamped, "exchange")
      BY <2>3, <3>1 DEF BeginsWith
    <3> QED
      BY <3>2 DEF BeginsSome
  <2> QED
    BY <2>1, <2>2, <2>3
<1> QED
  BY <1>1, <1>2, <1>3, <1>4, <1>5, <1>6, <1>7, <1>8, <1>9,
     <1>10, <1>11, <1>12, <1>13, <1>14, <1>15, <1>16, <1>17, <1>18, <1>19, <1>20 DEF Begin

LEMMA BeginKeeps ==
    ASSUME OnlyConforming, IInv, NEW t \in Threads, Begin(t)
    PROVE  IInv'
<1>0. PICK ops, sequenced, first : BeginsWith(t, ops, sequenced, first)
  BY BeginsInAFamily DEF BeginsSome
<1>1. PICK c \in Programs[program].calls[t], alone \in BOOLEAN :
        /\ c.op \in ops /\ Conforms(c, alone)
        /\ call' = [call EXCEPT ![t] = c]
        /\ Go(t, IF alone THEN "alone" ELSE IF Lockless THEN first ELSE "once")
        /\ old' = IF alone \/ ~Lockless THEN old ELSE [old EXCEPT ![t] = StartsFrom(t, first)]
  BY <1>0 DEF BeginsWith, Enter
<1>2. c \in Calls /\ UNCHANGED <<build, program, cell, updates, result>>
  BY <1>0, ProgramsAssumption DEF BeginsWith, Enter, IInv, Numbers
<1>3. Numbers'
  BY <1>2 DEF IInv, Numbers, Cells, StampSize
<1>4. Known(t) \in Contents /\ Known(t)' = Known(t)
  BY <1>2, Knows DEF Known
<1>5. PICK x \in {"alone", "once", "hint", "load", "exchange", "wait"}, o \in Contents :
        /\ pc' = [pc EXCEPT ![t] = x] /\ old' = [old EXCEPT ![t] = o]
        /\ alone <=> x = "alone"
        /\ x = "exchange" => c.op \in Compares \ ByStamp /\ o.value = Known(t).value
        /\ x = "hint" => c.op \in Hinted
        /\ x = "wait" => o = Known(t)
  <2>1. old[t] \in Contents /\ old = [old EXCEPT ![t] = old[t]]
    BY DEF IInv
  <2>2. [value |-> Known(t).value, stamp |-> 0] \in Contents
    BY <1>4 DEF Contents
  <2>3. StartsFrom(t, first) \in Contents
        /\ (first = "exchange" => StartsFrom(t, first).value = Known(t).value)
        /\ (first = "wait" => StartsFrom(t, first) = Known(t))
    BY <1>4, <2>1, <2>2 DEF StartsFrom
  <2>4. /\ first = "exchange" => c.op \in Compares \ ByStamp
        /\ first = "hint" => c.op \in Hinted
        /\ first \in {"once", "hint", "load", "exchange", "wait"}
    BY <1>0, <1>1 DEF BeginsWith
  <2>5. CASE alone \/ ~Lockless
    BY <1>1, <2>1, <2>5 DEF Go
  <2>6. CASE ~alone /\ Lockless
    BY <1>1, <2>3, <2>4, <2>6 DEF Go
  <2> QED
    BY <2>5, <2>6
<1>6. Others(t)
  BY <1>1, <1>2, <1>5 DEF IInv, Others
<1>7. pc' \in [Threads -> Points] /\ old' \in [Threads -> Contents]
        /\ call' \in [Threads -> Calls \cup {NoCall}]
  BY <1>1, <1>2, <1>5 DEF IInv, Points
<1>8. Inside(t)'
  <2>1. pc'[t] = x /\ old'[t] = o /\ call'[t] = c
    BY <1>1, <1>5 DEF IInv
  <2>2. Compiles(c)'
    BY <1>0, <1>1, <1>2 DEF BeginsWith, Compiles
  <2>3. Conforms(c, alone)'
    BY <1>1, <1>2 DEF Conforms, ReturnsOld, AddsOnReturn, AddsInPlace, Plain, Lockless, Sum
  <2>4. (pc'[t] = "alone") = alone
    BY <1>5, <2>1
  <2>5. ASSUME x = "exchange" PROVE Verdict(t, old[t])' \in Values
    <3>1. c.op \in Compares /\ c.op \notin ByStamp
      BY <1>5, <2>5
    <3>2. c.rule[o.value] \in Values
      BY <1>2, <3>1 DEF Calls, Contents
    <3>3. o.value = Known(t)'.value /\ call'[t] = c /\ old'[t] = o
      BY <1>4, <1>5, <2>1, <2>5
    <3>4. Verdict(t, old[t])' = c.rule[o.value]
      BY <3>1, <3>3 DEF Verdict, AddsInPlace, Plain, Lockless
    <3> QED
      BY <3>2, <3>4
  <2> QED
    BY <1>2, <1>4, <1>5, <2>1, <2>2, <2>3, <2>4, <2>5 DEF Inside
<1> QED
  BY <1>2, <1>3, <1>6, <1>7, <1>8, Keeps

\* Notifications, and what a thread does that passes one on.
LEMMA WakesIt ==
    ASSUME IInv, NEW t \in Threads, NEW woken \in SUBSET Sleepers, Wake(t, woken), pc[t] # "asleep",
           NEW r, Proper(r), UNCHANGED <<build, program, cell, updates>>,
           call' = [call EXCEPT ![t] = NoCall], result' = [result EXCEPT ![t] = r],
           NEW o \in Contents, old' = [old EXCEPT ![t] = o]
    PROVE  IInv'
<1>1. pc'[t] = "out" /\ pc' \in [Threads -> Points]
  BY DEF IInv, Wake, Points
<1>2. Others(t)
  BY DEF IInv, Numbers, Others, Wake, Sleepers
<1>3. Numbers'
  BY DEF IInv, Numbers, Proper, Cells, StampSize
<1>4. old' \in [Threads -> Contents] /\ call' \in [Threads -> Calls \cup {NoCall}]
  BY DEF IInv
<1>5. Inside(t)'
  BY <1>1 DEF IInv, Inside, NoCall
<1> QED
  BY <1>1, <1>2, <1>3, <1>4, <1>5, Keeps

LEMMA PerformKeeps ==
    ASSUME IInv, NEW t \in Threads, Perform(t) PROVE IInv'
<1> DEFINE d == Verdict(t, cell)
           new == Restamped(cell, d)
<1>1. pc[t] \notin {"out", "owes"}
  BY DEF Perform
<1>2. CASE d \in Values /\ Write(t, new, Left(t, cell, new))
  <2>1. updates' = IF build.stamped THEN updates + 1 ELSE updates
    BY <1>2 DEF Write
  <2>2. new \in Cells /\ new.stamp = (cell.stamp + 1) % StampSize /\ Proper(Left(t, cell, new))
    BY <1>1, <1>2, <2>1, WritesProperly
  <2> HIDE DEF new, d
  <2> QED
    BY <1>2, <2>2, WritesIt
<1>3. CASE Leave(t, LeftUnchanged(t, cell))
  BY <1>3, LeavesProperly, LeavesIt
<1> QED
  BY <1>2, <1>3 DEF Perform

LEMMA ExchangeKeeps ==
    ASSUME IInv, NEW t \in Threads, Exchange(t) PROVE IInv'
<1> DEFINE d == Verdict(t, cell)
           new == Restamped(cell, d)
<1>1. pc[t] = "exchange" /\ Verdict(t, old[t]) \in Values
  BY DEF Exchange, IInv, Inside
<1>2. CASE cell = old[t] /\ Write(t, new, Left(t, cell, new))
  <2>1. updates' = (IF build.stamped THEN updates + 1 ELSE updates) /\ d \in Values
    BY <1>1, <1>2 DEF Write
  <2>2. new \in Cells /\ new.stamp = (cell.stamp + 1) % StampSize /\ Proper(Left(t, cell, new))
    BY <1>1, <2>1, WritesProperly
  <2> HIDE DEF new, d
  <2> QED
    BY <1>2, <2>2, WritesIt
<1>3. CASE Decide(t, cell)
  BY <1>1, <1>3, Knows, LeavesProperly, DecidesIt
<1> QED
  BY <1>2, <1>3 DEF Exchange

LEMMA WaitKeeps ==
    ASSUME IInv, NEW t \in Threads, Wait(t) PROVE IInv'
<1>1. pc[t] = "wait"
  BY DEF Wait
<1>2. CASE Leave(t, LeftUnchanged(t, cell))
  BY <1>2, LeavesProperly, LeavesIt
<1>3. CASE Go(t, "asleep") /\ UNCHANGED <<build, program, cell, updates, call, old, result>>
  BY <1>1, <1>3, StaysIt
<1>4. CASE Go(t, "load") /\ UNCHANGED <<build, program, cell, updates, call, old, result>>
  BY <1>1, <1>4, StaysIt
<1> QED
  BY <1>2, <1>3, <1>4 DEF Wait

LEMMA NotifyKeeps ==
    ASSUME IInv, NEW t \in Threads, NotifyOne(t) \/ NotifyAll(t) \/ NotifyAsPromised(t) PROVE IInv'
<1>1. CASE NotifyOne(t) \/ NotifyAll(t)
  <2>1. PICK woken \in SUBSET Sleepers : Wake(t, woken)
    BY <1>1 DEF NotifyOne, NotifyAll
  <2>2. pc[t] # "asleep" /\ UNCHANGED <<build, program, cell, updates>>
    BY <1>1 DEF NotifyOne, NotifyAll, Return
  <2> DEFINE r == Outcome(t, TRUE)
             o == [value |-> 0, stamp |-> 0]
  <2>3. /\ call' = [call EXCEPT ![t] = NoCall] /\ result' = [result EXCEPT ![t] = r]
        /\ old' = [old EXCEPT ![t] = o]
    BY <1>1 DEF NotifyOne, NotifyAll, Return
  <2>4. Proper(r) /\ o \in Contents
    BY Knows, ValuesAssumption DEF Contents
  <2> HIDE DEF r, o
  <2> QED
    BY <2>1, <2>2, <2>3, <2>4, WakesIt
<1>2. CASE NotifyAsPromised(t)
  <2>1. /\ pc[t] = "owes" /\ Wake(t, Sleepers)
        /\ UNCHANGED <<build, program, cell, updates, call, old, result>>
    BY <1>2 DEF NotifyAsPromised
  <2> DEFINE r == result[t]
             o == old[t]
  <2>2. call[t] = NoCall /\ Proper(r) /\ o \in Contents
    BY <2>1, Knows DEF IInv, Inside
  <2>3. /\ call' = [call EXCEPT ![t] = NoCall] /\ result' = [result EXCEPT ![t] = r]
        /\ old' = [old EXCEPT ![t] = o]
    BY <2>1, <2>2 DEF IInv, Numbers
  <2>4. pc[t] # "asleep" /\ Sleepers \in SUBSET Sleepers
    BY <2>1
  <2> HIDE DEF r, o
  <2> QED
    BY <2>1, <2>2, <2>3, <2>4, WakesIt
<1> QED
  BY <1>1, <1>2

LEMMA Steps ==
    ASSUME OnlyConforming, IInv, [AtomNext]_atomVars PROVE IInv'
<1>1. CASE UNCHANGED atomVars
  <2>1. UNCHANGED <<build, program, cell, updates, pc, call, old, result>>
    BY <1>1 DEF atomVars
  <2>2. Numbers'
    BY <2>1 DEF IInv, Numbers, Cells, StampSize
  <2>3. \A t \in Threads : Inside(t)'
    BY <2>1 DEF IInv, Inside, Compiles, Conforms, ReturnsOld, AddsOnReturn, AddsInPlace, Plain,
       Lockless, Sum, Verdict, Known
  <2> QED
    BY <2>1, <2>2, <2>3 DEF IInv
<1>2. ASSUME NEW t \in Threads,
             Begin(t) \/ AtomWork(t) \/ WakeUnasked(t) \/ FailSpuriously(t) \/ GiveUp(t)
      PROVE  IInv'
  <2>1. CASE Begin(t)
    BY <2>1, BeginKeeps
  <2>2. CASE Hint(t)
    <3>1. pc[t] = "hint" /\ Decide(t, Known(t))
      BY <2>2 DEF Hint
    <3>2. Known(t) \in Contents /\ Proper(LeftUnchanged(t, Known(t)))
      BY <3>1, Knows, LeavesOnHint
    <3> QED
      BY <3>1, <3>2, DecidesIt
  <2>3. CASE Load(t)
    BY <2>3, Knows, LeavesProperly, DecidesIt DEF Load
  <2>4. CASE Exchange(t)
    BY <2>4, ExchangeKeeps
  <2>5. CASE Wait(t)
    BY <2>5, WaitKeeps
  <2>6. CASE NotifyOne(t) \/ NotifyAll(t) \/ NotifyAsPromised(t)
    BY <2>6, NotifyKeeps
  <2>7. CASE Perform(t)
    BY <2>7, PerformKeeps
  <2>8. CASE Block(t)
    BY <2>8, StaysIt DEF Block
  <2>9. CASE WakeUnasked(t)
    <3>1. CASE Lockless
      BY <2>9, <3>1, StaysIt DEF WakeUnasked
    <3>2. CASE ~Lockless
      BY <2>9, <3>2, StaysIt DEF WakeUnasked
    <3> QED
      BY <3>1, <3>2
  <2>10. CASE FailSpuriously(t)
    BY <2>10, LeavesProperly, LeavesIt DEF FailSpuriously
  <2>11. CASE GiveUp(t)
    <3>1. Leave(t, Outcome(t, FALSE))
      BY <2>11 DEF GiveUp
    <3>2. Proper(Outcome(t, FALSE))
      BY Knows
    <3> QED
      BY <3>1, <3>2, LeavesIt
  <2> QED
    BY <1>2, <2>1, <2>2, <2>3, <2>4, <2>5, <2>6, <2>7, <2>8, <2>9, <2>10, <2>11 DEF AtomWork
<1> QED
  BY <1>1, <1>2 DEF AtomNext

-----------------------------------------------------------------------------
(* The theorems                                                            *)

\* Whatever the calls, loops and waits of the threads, with any width of the stamp, it is the
\* number of the updates of the atom, and every returned one was (atom_basic.hpp, StampedValue).
THEOREM StampsAlwaysCount ==
    ASSUME OnlyConforming PROVE AtomSpec => []StampCountsUpdates
<1>1. AtomInit => IInv
  BY Starts
<1>2. IInv /\ [AtomNext]_atomVars => IInv'
  BY Steps
<1>3. IInv => StampCountsUpdates
  BY DEF IInv, Numbers, StampCountsUpdates
<1> QED
  BY <1>1, <1>2, <1>3, PTL DEF AtomSpec

-----------------------------------------------------------------------------
(* The contract                                                            *)

\* Both modules have the same calls.
LEMMA SameCalls ==
    /\ Contract!Calls = Calls /\ Contract!NoCall = NoCall /\ Contract!Compares = Compares
    /\ Contract!ByStamp = ByStamp /\ Contract!Changes = Changes /\ Contract!Fetches = Fetches
    /\ Contract!ReturnsNew = ReturnsNew /\ Contract!Silent = Silent /\ Contract!Weak = Weak
    /\ Contract!Hinted = Hinted /\ Contract!Stop = Stop /\ Contract!Delay = Delay
<1>1. Contract!Stop = Stop /\ Contract!Delay = Delay /\ Contract!Retry = Retry
  BY DEF Contract!Stop, Stop, Contract!Delay, Delay, Contract!Retry, Retry
<1>2. Contract!NoCall = NoCall
  BY <1>1 DEF Contract!NoCall, NoCall
<1>3. Contract!Weak = Weak /\ Contract!Strong = Strong /\ Contract!Changes = Changes
        /\ Contract!Notifies = Notifies /\ Contract!Stores = Stores /\ Contract!Hinted = Hinted
  BY DEF Contract!Weak, Weak, Contract!Strong, Strong, Contract!Changes, Changes, Contract!Notifies,
     Notifies, Contract!Stores, Stores, Contract!Hinted, Hinted
<1>4. Contract!Compares = Compares /\ Contract!ByStamp = ByStamp /\ Contract!Silent = Silent
  BY <1>3 DEF Contract!Compares, Compares, Contract!ByStamp, ByStamp, Contract!Silent, Silent
<1>5. Contract!Fetches = Fetches
  BY DEF Contract!Fetches, Fetches, Contract!Loads, Loads, Contract!Exchanges, Exchanges,
     Contract!FetchTransforms, FetchTransforms, Contract!FetchTransformsOrLoad, FetchTransformsOrLoad,
     Contract!FetchOperations, FetchOperations, Contract!FetchExecutes, FetchExecutes,
     Contract!WaitFetches, WaitFetches
<1>6. Contract!ReturnsNew = ReturnsNew
  BY DEF Contract!ReturnsNew, ReturnsNew, Contract!TransformFetches, TransformFetches,
     Contract!TransformFetchesOrLoad, TransformFetchesOrLoad, Contract!OperationFetches,
     OperationFetches, Contract!ExecuteFetches, ExecuteFetches
<1>7. Contract!Operations = Operations
  BY <1>4, <1>5, <1>6 DEF Contract!Operations, Operations
<1>8. Contract!Rules = Rules
  BY <1>1 DEF Contract!Rules, Rules
<1>9. Contract!Calls = Calls
  <2>1. \A c : c \in Contract!Calls <=> c \in Calls
    BY <1>1, <1>3, <1>4, <1>7, <1>8 DEF Contract!Calls, Calls
  <2> QED
    BY <2>1 DEF Contract!Calls, Calls
<1> QED
  BY <1>1, <1>2, <1>3, <1>4, <1>5, <1>6, <1>9

\* What the contract sees of a result.
Answer(r) == [ok |-> r.ok, value |-> r.value, at |-> r.at]
Answers == [t \in Threads |-> [ok |-> result[t].ok, value |-> result[t].value, at |-> result[t].at]]

LEMMA SameOutcome ==
    ASSUME NEW t \in Threads, NEW ok \in BOOLEAN
    PROVE  Answer(Outcome(t, ok)) = Contract!Outcome(t, ok)
BY DEF Answer, Outcome, Contract!Outcome

\* The end of a call, of which the caller knows what it left.
LEMMA EndsIt ==
    ASSUME IInv, NEW t \in Threads, NEW r, Return(t, r), r \in Results
    PROVE  /\ call' = [call EXCEPT ![t] = NoCall] /\ StampSize' = StampSize
           /\ Answers' = [Answers EXCEPT ![t] = Answer(r)]
<1>1. /\ call' = [call EXCEPT ![t] = NoCall] /\ result' = [result EXCEPT ![t] = r] /\ build' = build
  BY DEF Return
<1>2. StampSize' = StampSize
  BY <1>1 DEF StampSize
<1>3. Answers' = [Answers EXCEPT ![t] = Answer(r)]
  <2>1. result \in [Threads -> Results]
    BY DEF IInv, Numbers
  <2> QED
    BY <1>1, <2>1 DEF Answers, Answer
<1> QED
  BY <1>1, <1>2, <1>3

\* A thread inside of a call is inside of one for the contract.
LEMMA IsInside ==
    ASSUME IInv, NEW t \in Threads, pc[t] \notin {"out", "owes"}
    PROVE  /\ call[t] # NoCall /\ call[t] \in Calls /\ Conforms(call[t], pc[t] = "alone")
           /\ call[t].rule \in [Values -> Values \cup {Stop, Retry, Delay}]
           /\ call[t].op \in Notifies => call[t].rule[cell.value] = Stop
<1>1. call[t] \in Calls /\ Conforms(call[t], pc[t] = "alone")
  BY DEF IInv, Inside
<1>2. cell.value \in Values
  BY Knows DEF Contents
<1>3. call[t] # NoCall
  BY <1>1, Kinds DEF Calls, NoCall
<1> QED
  BY <1>1, <1>2, <1>3 DEF Calls, Rules

\* The call and the contract decide alike.
LEMMA SameKnown ==
    ASSUME IInv, NEW t \in Threads
    PROVE  /\ cell = Known(t) <=> cell.value = result[t].value /\ cell.stamp = result[t].stamp
           /\ cell.stamp = result[t].stamp <=> updates % StampSize = result[t].at % StampSize
           /\ Known(t).value = result[t].value
<1>1. Known(t) = [value |-> result[t].value, stamp |-> result[t].stamp]
  BY DEF Known
<1>2. cell \in Cells /\ cell.stamp = updates % StampSize /\ result[t].stamp = result[t].at % StampSize
  BY DEF IInv, Numbers
<1>3. cell = [value |-> cell.value, stamp |-> cell.stamp]
  BY <1>2 DEF Cells
<1> DEFINE c == cell
           k == Known(t)
<1>4. c = k <=> c.value = k.value /\ c.stamp = k.stamp
  <2>1. k = [value |-> k.value, stamp |-> k.stamp]
    BY <1>1
  <2>2. c = [value |-> c.value, stamp |-> c.stamp]
    BY <1>3
  <2> HIDE DEF c, k
  <2> QED
    BY <2>1, <2>2
<1>5. k.value = result[t].value /\ k.stamp = result[t].stamp
  BY <1>1
<1> QED
  BY <1>2, <1>4, <1>5

LEMMA SameVerdict ==
    ASSUME IInv, NEW t \in Threads, pc[t] \notin {"out", "owes"}
    PROVE  Contract!Verdict(t) = IF call[t].op = "waitFetchWeak" THEN Stop ELSE Verdict(t, cell)
<1> DEFINE c == call[t]
<1>1. Contract!Same(t) <=>
        /\ cell.value = Known(t).value
        /\ c.op \in ByStamp => cell = Known(t)
  BY SameCalls, SameKnown DEF Contract!Same
<1>2. AddsInPlace(c, pc[t] = "alone") => Sum(c) = c.rule
  BY IsInside DEF Conforms
<1>3. CASE c.op \in Compares
  <2>1. Contract!Verdict(t) = IF Contract!Same(t) THEN c.rule[cell.value] ELSE Stop
    BY <1>3, SameCalls DEF Contract!Verdict
  <2>2. Verdict(t, cell) = IF Contract!Same(t) THEN c.rule[cell.value] ELSE Stop
    BY <1>1, <1>3 DEF Verdict, AddsInPlace, Plain, Lockless
  <2> QED
    BY <1>3, <2>1, <2>2, Kinds
<1>4. CASE c.op \in Changes
  <2>1. c.op \notin Compares /\ c.op # "waitFetchWeak" /\ c.op \in ByStamp
    BY <1>4, Kinds DEF ByStamp
  <2>2. Contract!Verdict(t) = IF Contract!Same(t) THEN Delay ELSE Stop
    BY <1>4, <2>1, SameCalls DEF Contract!Verdict
  <2>3. Verdict(t, cell) = IF Contract!Same(t) THEN Delay ELSE Stop
    <3>1. Verdict(t, cell) = IF cell = Known(t) THEN Delay ELSE Stop
      BY <1>4, <2>1 DEF Verdict
    <3>2. Contract!Same(t) <=> cell = Known(t)
      BY <1>1, <2>1
    <3> QED
      BY <3>1, <3>2
  <2> QED
    BY <2>1, <2>2, <2>3
<1>5. CASE c.op = "waitFetchWeak"
  BY <1>5, Kinds, SameCalls DEF Contract!Verdict
<1>6. CASE c.op \notin Compares \cup Changes \cup {"waitFetchWeak"}
  <2>1. Contract!Verdict(t) = c.rule[cell.value]
    BY <1>6, SameCalls DEF Contract!Verdict
  <2>2. Verdict(t, cell) = c.rule[cell.value]
    BY <1>2, <1>6 DEF Verdict
  <2> QED
    BY <1>6, <2>1, <2>2
<1> QED
  BY <1>3, <1>4, <1>5, <1>6

\* The ends of calls are the effects of the contract.
LEMMA LeaveMaps ==
    ASSUME IInv, NEW t \in Threads, pc[t] \notin {"out", "owes"}, Verdict(t, cell) = Stop,
           Leave(t, LeftUnchanged(t, cell))
    PROVE  Contract!Leave(t)
<1> DEFINE r == LeftUnchanged(t, cell)
           quiet == call[t].op \in Silent \cup {"waitUntil"}
           b == call[t].op \notin Compares
<1>1. Contract!Verdict(t) = Contract!Stop
  BY SameVerdict, SameCalls
<1>2. r \in Results /\ Return(t, r) /\ UNCHANGED <<cell, updates>>
  BY LeavesProperly DEF Leave, Proper
<1>3. /\ call' = [call EXCEPT ![t] = NoCall] /\ StampSize' = StampSize
      /\ Answers' = [Answers EXCEPT ![t] = Answer(r)]
  <2> HIDE DEF r
  <2> QED
    BY <1>2, EndsIt
<1>4. Answer(r) = IF quiet THEN Contract!Outcome(t, TRUE)
                  ELSE [ok |-> b, value |-> cell.value, at |-> updates]
  <2>1. CASE quiet
    <3>1. r = Outcome(t, TRUE)
      BY <2>1 DEF LeftUnchanged
    <3> HIDE DEF r
    <3> QED
      BY <2>1, <3>1, SameOutcome
  <2>2. CASE ~quiet
    <3>1. r = Read(cell, b)
      BY <2>2 DEF LeftUnchanged
    <3>2. Answer(Read(cell, b)) = [ok |-> b, value |-> cell.value, at |-> updates]
      BY DEF Answer, Read
    <3> HIDE DEF r, b
    <3> QED
      BY <2>2, <3>1, <3>2
  <2> HIDE DEF r
  <2> QED
    BY <2>1, <2>2
<1>5. Answers' = [Answers EXCEPT ![t] = IF quiet THEN Contract!Outcome(t, TRUE)
                                     ELSE [ok |-> b, value |-> cell.value, at |-> updates]]
  <2> HIDE DEF r, quiet, b
  <2> QED
    BY <1>3, <1>4
<1> HIDE DEF r
<1> QED
  BY <1>1, <1>2, <1>3, <1>5, SameCalls DEF Contract!Leave, Contract!End, Answers

LEMMA WriteMaps ==
    ASSUME IInv, NEW t \in Threads, pc[t] \notin {"out", "owes"}, Verdict(t, cell) \in Values,
           Write(t, Restamped(cell, Verdict(t, cell)),
                 Left(t, cell, Restamped(cell, Verdict(t, cell))))
    PROVE  Contract!Write(t)
<1> DEFINE v == Verdict(t, cell)
           new == Restamped(cell, v)
           r == Left(t, cell, new)
           c == call[t]
<1>1. /\ cell' = new /\ updates' = (IF build.stamped THEN updates + 1 ELSE updates) /\ Return(t, r)
  BY DEF Write
<1>2. r \in Results /\ new.value = v
  BY <1>1, WritesProperly DEF Proper
<1>3. Contract!Verdict(t) = v
  <2>1. call[t].op # "waitFetchWeak"
    <3>1. v \notin {Stop, Delay}
      BY ValuesAssumption DEF Stop, Delay
    <3>2. call[t].op = "waitFetchWeak" => v \in {Stop, Delay}
      BY Kinds DEF Verdict
    <3> QED
      BY <3>1, <3>2
  <2> QED
    BY <2>1, SameVerdict
<1>4. /\ call' = [call EXCEPT ![t] = NoCall] /\ StampSize' = StampSize
      /\ Answers' = [Answers EXCEPT ![t] = Answer(r)]
  <2> HIDE DEF r
  <2> QED
    BY <1>1, <1>2, EndsIt
<1>5. Answer(r) = IF c.op \in Fetches THEN [ok |-> TRUE, value |-> cell.value, at |-> updates]
                  ELSE IF c.op \in ReturnsNew THEN [ok |-> TRUE, value |-> cell'.value, at |-> updates']
                  ELSE Contract!Outcome(t, TRUE)
  <2>1. ~ReturnsOld(c, pc[t] = "alone") /\ (AddsOnReturn(c, pc[t] = "alone") => Sum(c) = c.rule)
    BY IsInside DEF Conforms
  <2>2. CASE c.op \in Fetches
    <3>1. r = Read(cell, TRUE)
      BY <2>2 DEF Left
    <3>2. Answer(Read(cell, TRUE)) = [ok |-> TRUE, value |-> cell.value, at |-> updates]
      BY DEF Answer, Read
    <3> HIDE DEF r
    <3> QED
      BY <2>2, <3>1, <3>2
  <2>3. CASE c.op \in ReturnsNew /\ AddsOnReturn(c, pc[t] = "alone")
    <3>1. c.op \notin Fetches /\ c.op \in OperationFetches /\ ~build.stamped /\ Sum(c) = c.rule
      BY <2>1, <2>3, Kinds DEF AddsOnReturn
    <3>2. v = Sum(c)[cell.value]
      BY <3>1, Kinds DEF Verdict, Operates
    <3>3. r = Read([value |-> Sum(c)[cell.value], stamp |-> 0], TRUE)
      BY <2>1, <2>3, <3>1 DEF Left
    <3>4. Answer(r) = [ok |-> TRUE, value |-> v, at |-> updates]
      <4> HIDE DEF r
      <4> QED
        BY <3>2, <3>3 DEF Answer, Read
    <3>5. cell'.value = v /\ updates' = updates
      <4> HIDE DEF v
      <4> QED
        BY <1>1, <1>2, <3>1
    <3> HIDE DEF r, v
    <3> QED
      BY <2>3, <3>1, <3>4, <3>5
  <2>4. CASE c.op \in ReturnsNew /\ ~AddsOnReturn(c, pc[t] = "alone")
    <3>1. c.op \notin Fetches
      BY <2>4, Kinds
    <3>2. r = [ok |-> TRUE, value |-> new.value, stamp |-> new.stamp, at |-> updates']
      BY <2>1, <2>4, <3>1 DEF Left
    <3> HIDE DEF r, v, new
    <3>6. Answer(r) = [ok |-> TRUE, value |-> v, at |-> updates']
      BY <1>2, <3>2 DEF Answer
    <3>7. cell'.value = v
      BY <1>1, <1>2
    <3> QED
      BY <2>4, <3>1, <3>6, <3>7
  <2>5. CASE c.op \notin Fetches \cup ReturnsNew
    <3>1. ~AddsOnReturn(c, pc[t] = "alone")
      BY <2>5, Kinds DEF AddsOnReturn
    <3>2. r = Outcome(t, TRUE)
      BY <2>1, <2>5, <3>1 DEF Left
    <3> HIDE DEF r
    <3> QED
      BY <2>5, <3>2, SameOutcome
  <2> HIDE DEF r
  <2> QED
    BY <2>2, <2>3, <2>4, <2>5
<1>6. updates' = IF StampSize = 1 THEN updates ELSE updates + 1
  BY <1>1, Sizes DEF IInv, Numbers
<1>7. cell'.value = v
  <2> HIDE DEF v, new
  <2> QED
    BY <1>1, <1>2
<1>8. Answers' = [Answers EXCEPT ![t] =
          IF c.op \in Fetches THEN [ok |-> TRUE, value |-> cell.value, at |-> updates]
          ELSE IF c.op \in ReturnsNew THEN [ok |-> TRUE, value |-> cell'.value, at |-> updates']
          ELSE Contract!Outcome(t, TRUE)]
  <2> HIDE DEF r
  <2> QED
    BY <1>4, <1>5
<1> HIDE DEF r, v, new
<1> QED
  BY <1>3, <1>4, <1>6, <1>7, <1>8, SameCalls DEF Contract!Write, Contract!End, Contract!NextVersion, Answers, v

\* Steps that nobody sees.
LEMMA Stutters ==
    ASSUME UNCHANGED <<build, cell, updates, call, result>> PROVE UNCHANGED Contract!vars
BY DEF Contract!vars, StampSize

LEMMA DecideMaps ==
    ASSUME IInv, NEW t \in Threads, pc[t] \notin {"out", "owes"}, Decide(t, cell)
    PROVE  Contract!Leave(t) \/ UNCHANGED Contract!vars
<1>1. CASE Verdict(t, cell) = Stop /\ Leave(t, LeftUnchanged(t, cell))
  BY <1>1, LeaveMaps
<1>2. CASE UNCHANGED <<build, program, cell, updates, call, result>>
  BY <1>2, Stutters
<1> QED
  BY <1>1, <1>2 DEF Decide

\* The calls that end otherwise than by what they made of the atom.
LEMMA HintMaps ==
    ASSUME IInv, NEW t \in Threads, Hint(t)
    PROVE  Contract!LeaveOnHint(t) \/ UNCHANGED Contract!vars
<1>1. pc[t] = "hint" /\ Decide(t, Known(t)) /\ call[t].op \in Hinted
  BY DEF Hint, IInv, Inside
<1>2. CASE UNCHANGED <<build, program, cell, updates, call, result>>
  BY <1>2, Stutters
<1>3. CASE Verdict(t, Known(t)) = Stop /\ Leave(t, LeftUnchanged(t, Known(t)))
  <2>1. call[t].rule[result[t].value] = Stop
    <3>1. /\ call[t].op \notin Compares \cup Changes \cup {"waitFetchWeak"}
          /\ call[t].op \notin FetchOperations \cup OperationFetches
      BY <1>1, Kinds DEF Operates
    <3>2. Verdict(t, Known(t)) = call[t].rule[Known(t).value]
      BY <3>1 DEF Verdict, AddsInPlace, Plain, Lockless
    <3> QED
      BY <1>3, <3>2, SameKnown
  <2> DEFINE r == Outcome(t, TRUE)
  <2>2. r \in Results
    BY Knows DEF Proper
  <2>3. LeftUnchanged(t, Known(t)) = r
    BY <1>1, LeavesOnHint
  <2>4. Return(t, r) /\ UNCHANGED <<cell, updates>>
    <3> HIDE DEF r
    <3> QED
      BY <1>3, <2>3 DEF Leave
  <2>5. Answer(r) = Contract!Outcome(t, TRUE)
    BY SameOutcome
  <2> HIDE DEF r
  <2>6. /\ call' = [call EXCEPT ![t] = NoCall] /\ StampSize' = StampSize
        /\ Answers' = [Answers EXCEPT ![t] = Answer(r)]
    BY <2>2, <2>4, EndsIt
  <2>7. Answers' = [Answers EXCEPT ![t] = Contract!Outcome(t, TRUE)]
    BY <2>5, <2>6
  <2>8. Answers[t].value = result[t].value
    BY DEF Answers
  <2> QED
    BY <1>1, <2>1, <2>4, <2>6, <2>7, <2>8, SameCalls DEF Contract!LeaveOnHint, Contract!End, Answers
<1> QED
  BY <1>1, <1>2, <1>3 DEF Decide

LEMMA FailMaps ==
    ASSUME IInv, NEW t \in Threads, FailSpuriously(t) PROVE Contract!FailSpuriously(t)
<1> DEFINE r == Read(cell, FALSE)
<1>1. r \in Results /\ Answer(r) = [ok |-> FALSE, value |-> cell.value, at |-> updates]
  BY LeavesProperly DEF Proper, Answer, Read
<1>2. Return(t, r) /\ UNCHANGED <<cell, updates>> /\ call[t].op \in Weak
  BY DEF FailSpuriously, Leave
<1> HIDE DEF r
<1>3. /\ call' = [call EXCEPT ![t] = NoCall] /\ StampSize' = StampSize
      /\ Answers' = [Answers EXCEPT ![t] = Answer(r)]
  BY <1>1, <1>2, EndsIt
<1>4. Answers' = [Answers EXCEPT ![t] = [ok |-> FALSE, value |-> cell.value, at |-> updates]]
  BY <1>1, <1>3
<1> QED
  BY <1>2, <1>3, <1>4, SameCalls DEF Contract!FailSpuriously, Contract!End, Answers

LEMMA GiveUpMaps ==
    ASSUME IInv, NEW t \in Threads, GiveUp(t) PROVE Contract!GiveUp(t)
<1> DEFINE r == Outcome(t, FALSE)
<1>1. r \in Results /\ Answer(r) = Contract!Outcome(t, FALSE)
  BY Knows, SameOutcome DEF Proper
<1>2. /\ Return(t, r) /\ UNCHANGED <<cell, updates>> /\ call[t].op = "waitUntil"
      /\ Verdict(t, cell) = Delay /\ pc[t] = "once"
  BY DEF GiveUp, Leave
<1> HIDE DEF r
<1>3. /\ call' = [call EXCEPT ![t] = NoCall] /\ StampSize' = StampSize
      /\ Answers' = [Answers EXCEPT ![t] = Answer(r)]
  BY <1>1, <1>2, EndsIt
<1>4. Answers' = [Answers EXCEPT ![t] = Contract!Outcome(t, FALSE)]
  BY <1>1, <1>3
<1>5. Contract!Verdict(t) = Delay
  BY <1>2, SameVerdict
<1> QED
  BY <1>2, <1>3, <1>4, <1>5, SameCalls DEF Contract!GiveUp, Contract!End, Answers

LEMMA NotifyMaps ==
    ASSUME IInv, NEW t \in Threads, NotifyOne(t) \/ NotifyAll(t) PROVE Contract!Leave(t)
<1> DEFINE r == Outcome(t, TRUE)
<1>1. r \in Results /\ Answer(r) = Contract!Outcome(t, TRUE)
  BY Knows, SameOutcome DEF Proper
<1>2. /\ Return(t, r) /\ UNCHANGED <<cell, updates>>
      /\ pc[t] = "once" /\ call[t].op \in Notifies
  BY DEF NotifyOne, NotifyAll, Notifies
<1> HIDE DEF r
<1>3. /\ call' = [call EXCEPT ![t] = NoCall] /\ StampSize' = StampSize
      /\ Answers' = [Answers EXCEPT ![t] = Answer(r)]
  BY <1>1, <1>2, EndsIt
<1>4. Answers' = [Answers EXCEPT ![t] = Contract!Outcome(t, TRUE)]
  BY <1>1, <1>3
<1>5. Contract!Verdict(t) = Stop
  <2>1. Verdict(t, cell) = call[t].rule[cell.value] /\ call[t].op # "waitFetchWeak"
    BY <1>2, Kinds DEF Verdict, AddsInPlace, Operates, Plain, Lockless
  <2> QED
    BY <1>2, <2>1, SameVerdict, IsInside
<1>6. call[t].op \in Silent
  BY <1>2, Kinds
<1> QED
  BY <1>2, <1>3, <1>4, <1>5, <1>6, SameCalls DEF Contract!Leave, Contract!End, Answers

\* wait compares by the value it was given, and ends when the atom holds another one.
LEMMA WaitMaps ==
    ASSUME IInv, NEW t \in Threads, Wait(t)
    PROVE  Contract!Leave(t) \/ UNCHANGED Contract!vars
<1>1. CASE UNCHANGED <<build, program, cell, updates, call, old, result>>
  BY <1>1, Stutters
<1>2. CASE cell # old[t] /\ call[t].op = "wait" /\ Leave(t, LeftUnchanged(t, cell))
  <2>1. pc[t] = "wait" /\ Lockless
    BY DEF Wait
  <2>2. old[t] = Known(t)
    BY <1>2, <2>1 DEF IInv, Inside
  <2>3. call[t].op \in Changes /\ call[t].op \notin Compares
    BY <1>2, Kinds
  <2>4. Verdict(t, cell) = Stop
    BY <1>2, <2>2, <2>3 DEF Verdict, AddsInPlace, Plain, Lockless
  <2> QED
    BY <1>2, <2>1, <2>4, LeaveMaps
<1> QED
  BY <1>1, <1>2 DEF Wait

LEMMA BeginMaps ==
    ASSUME IInv, NEW t \in Threads, Begin(t) PROVE Contract!Begin(t)
<1>0. PICK ops, sequenced, first : Enter(t, ops, sequenced, first)
  BY BeginsInAFamily DEF BeginsSome, BeginsWith
<1>1. PICK c \in Programs[program].calls[t] : call' = [call EXCEPT ![t] = c]
  BY <1>0 DEF Enter
<1>2. c \in Calls /\ call[t] = NoCall /\ UNCHANGED <<build, cell, updates, result>>
  BY <1>0, ProgramsAssumption DEF Enter, IInv, Numbers, Inside
<1>3. call'[t] = c /\ call' = [call EXCEPT ![t] = call'[t]]
  BY <1>1 DEF IInv
<1>4. StampSize' = StampSize
  BY <1>2 DEF StampSize
<1>5. Answers' = Answers
  BY <1>2 DEF Answers
<1> QED
  BY <1>2, <1>3, <1>4, <1>5, SameCalls DEF Contract!Begin, Answers

LEMMA StepsMap ==
    ASSUME OnlyConforming, IInv, [AtomNext]_atomVars PROVE [Contract!Next]_(Contract!vars)
<1>1. CASE UNCHANGED atomVars
  BY <1>1, Stutters DEF atomVars
<1>2. ASSUME NEW t \in Threads,
             Begin(t) \/ AtomWork(t) \/ WakeUnasked(t) \/ FailSpuriously(t) \/ GiveUp(t)
      PROVE  \/ Contract!Begin(t) \/ (call[t] # NoCall /\ Contract!Effect(t))
             \/ UNCHANGED Contract!vars
  <2>1. CASE Begin(t)
    BY <2>1, BeginMaps
  <2>2. CASE Hint(t)
    <3>1. call[t] # NoCall
      BY <2>2, IsInside DEF Hint
    <3> QED
      BY <2>2, <3>1, HintMaps DEF Contract!Effect
  <2>3. CASE Load(t)
    <3>1. call[t] # NoCall /\ (Contract!Leave(t) \/ UNCHANGED Contract!vars)
      BY <2>3, IsInside, DecideMaps DEF Load
    <3> QED
      BY <3>1 DEF Contract!Effect
  <2>4. CASE Exchange(t)
    <3>1. call[t] # NoCall
      BY <2>4, IsInside DEF Exchange
    <3>2. CASE Decide(t, cell)
      <4>1. Contract!Leave(t) \/ UNCHANGED Contract!vars
        BY <2>4, <3>2, DecideMaps DEF Exchange
      <4> QED
        BY <3>1, <4>1 DEF Contract!Effect
    <3>3. CASE cell = old[t] /\ Write(t, Restamped(cell, Verdict(t, cell)),
                                     Left(t, cell, Restamped(cell, Verdict(t, cell))))
      <4>1. pc[t] = "exchange" /\ Verdict(t, cell) \in Values
        BY <2>4, <3>3 DEF Exchange, IInv, Inside
      <4>2. Contract!Write(t)
        BY <3>3, <4>1, WriteMaps
      <4> QED
        BY <3>1, <4>2 DEF Contract!Effect
    <3> QED
      BY <2>4, <3>2, <3>3 DEF Exchange
  <2>5. CASE Wait(t)
    <3>1. call[t] # NoCall
      BY <2>5, IsInside DEF Wait
    <3> QED
      BY <2>5, <3>1, WaitMaps DEF Contract!Effect
  <2>6. CASE NotifyOne(t) \/ NotifyAll(t)
    <3>1. call[t] # NoCall
      BY <2>6, IsInside DEF NotifyOne, NotifyAll
    <3> QED
      BY <2>6, <3>1, NotifyMaps DEF Contract!Effect
  <2>7. CASE NotifyAsPromised(t)
    BY <2>7, Stutters DEF NotifyAsPromised
  <2>8. CASE Perform(t)
    <3>1. pc[t] \notin {"out", "owes"} /\ call[t] # NoCall
      BY <2>8, IsInside DEF Perform
    <3>2. CASE Verdict(t, cell) \in Values /\ Write(t, Restamped(cell, Verdict(t, cell)),
                                     Left(t, cell, Restamped(cell, Verdict(t, cell))))
      <4>1. Contract!Write(t)
        BY <3>1, <3>2, WriteMaps
      <4> QED
        BY <3>1, <4>1 DEF Contract!Effect
    <3>3. CASE Verdict(t, cell) = Stop /\ Leave(t, LeftUnchanged(t, cell))
      <4>1. Contract!Leave(t)
        BY <3>1, <3>3, LeaveMaps
      <4> QED
        BY <3>1, <4>1 DEF Contract!Effect
    <3> QED
      BY <2>8, <3>2, <3>3 DEF Perform
  <2>9. CASE Block(t)
    BY <2>9, Stutters DEF Block
  <2>10. CASE WakeUnasked(t)
    BY <2>10, Stutters DEF WakeUnasked
  <2>11. CASE FailSpuriously(t)
    <3>1. call[t] # NoCall
      BY <2>11, IsInside DEF FailSpuriously
    <3> QED
      BY <2>11, <3>1, FailMaps DEF Contract!Effect
  <2>12. CASE GiveUp(t)
    <3>1. call[t] # NoCall
      BY <2>12, IsInside DEF GiveUp
    <3> QED
      BY <2>12, <3>1, GiveUpMaps DEF Contract!Effect
  <2> QED
    BY <1>2, <2>1, <2>2, <2>3, <2>4, <2>5, <2>6, <2>7, <2>8, <2>9, <2>10, <2>11, <2>12 DEF AtomWork
<1>3. CASE AtomNext
  BY <1>2, <1>3, SameCalls DEF AtomNext, Contract!Next
<1> QED
  BY <1>1, <1>3

\* Every loop of compare-exchanges, every wait and every critical section is one instant of its
\* call, on the value of that instant, for any number of threads (concurrency/atom.hpp).
THEOREM AtomKeepsContract ==
    ASSUME OnlyConforming PROVE AtomSpec => ImplementsAtomContract
<1>1. AtomInit => Contract!Init
  <2> SUFFICES ASSUME AtomInit PROVE Contract!Init
    OBVIOUS
  <2>1. IInv
    BY Starts
  <2>2. StampSize \in Nat \ {0} /\ cell.value \in Values
    BY <2>1, Sizes, Knows DEF IInv, Numbers, Cells
  <2>3. /\ updates = 0 /\ call = [t \in Threads |-> NoCall]
        /\ result = [t \in Threads |-> Fresh(cell)]
    BY DEF AtomInit
  <2>4. Answers = [t \in Threads |-> [ok |-> TRUE, value |-> cell.value, at |-> 0]]
    BY <2>3 DEF Answers, Fresh
  <2> QED
    BY <2>2, <2>3, <2>4, SameCalls DEF Contract!Init, Answers
<1>2. AtomInit => IInv
  BY Starts
<1>3. IInv /\ [AtomNext]_atomVars => IInv'
  BY Steps
<1>4. IInv /\ [AtomNext]_atomVars => [Contract!Next]_(Contract!vars)
  BY StepsMap
<1> QED
  BY <1>1, <1>2, <1>3, <1>4, PTL DEF AtomSpec, ImplementsAtomContract, Contract!Spec
-----------------------------------------------------------------------------
(***************************************************************************)
(* Shared pointers, whose counts are Atoms.  For any number of pointers:   *)
(* the value of an agent and the agent itself are destroyed once, by one   *)
(* thread, after the last reference.                                       *)
(***************************************************************************)
RefTypeOK ==
    /\ strong \in Nat
    /\ value \in {"live", "destroyed"} /\ agent \in {"live", "destroyed"}
    /\ kept \in BOOLEAN
    /\ stage \in [Pointers -> Stages]
    /\ seen \in [Pointers -> Nat]

\* A thread that is about to lock has seen a reference, and while there is a value there is its agent.
RefIInv ==
    /\ RefTypeOK
    /\ LastOneDestroys
    /\ \A p \in Pointers : stage[p] = "exchange" => seen[p] > 0
    /\ value = "live" => agent = "live"

-----------------------------------------------------------------------------
(* Counting references                                                     *)

Weight(x) == IF x = "surplus" THEN 2 ELSE IF x = "valid" THEN 1 ELSE 0

\* The pointers that are in some stages, when one of them changes its stage.
LEMMA OneMoves ==
    ASSUME RefTypeOK, NEW stages, NEW p \in Pointers, NEW to \in Stages,
           stage' = [stage EXCEPT ![p] = to]
    PROVE  /\ Cardinality(In(stages)) \in Nat
           /\ Cardinality(In(stages)') = Cardinality(In(stages))
                + (IF to \in stages THEN 1 ELSE 0) - (IF stage[p] \in stages THEN 1 ELSE 0)
<1>1. IsFiniteSet(In(stages)) /\ Cardinality(In(stages)) \in Nat
  BY PointersAssumption, FS_Subset, FS_CardinalityType DEF In
<1>2. CASE to \in stages /\ stage[p] \notin stages
  <2>1. In(stages)' = In(stages) \cup {p} /\ p \notin In(stages)
    BY <1>2 DEF In, RefTypeOK
  <2>2. Cardinality(In(stages) \cup {p}) = Cardinality(In(stages)) + 1
    BY <1>1, <2>1, FS_AddElement
  <2> QED
    BY <1>1, <1>2, <2>1, <2>2
<1>3. CASE to \notin stages /\ stage[p] \in stages
  <2>1. In(stages)' = In(stages) \ {p} /\ p \in In(stages)
    BY <1>3 DEF In, RefTypeOK
  <2> QED
    BY <1>1, <1>3, <2>1, FS_RemoveElement
<1>4. CASE to \in stages <=> stage[p] \in stages
  <2>1. \A x \in Pointers : stage'[x] \in stages <=> stage[x] \in stages
    BY <1>4 DEF RefTypeOK
  <2>2. In(stages)' = In(stages)
    BY <2>1 DEF In
  <2> QED
    BY <1>1, <1>4, <2>2
<1> QED
  BY <1>2, <1>3, <1>4

References == Cardinality(In(Holding)) + Cardinality(In({"surplus"}))

LEMMA ReferencesMove ==
    ASSUME RefTypeOK, NEW p \in Pointers, NEW to \in Stages, stage' = [stage EXCEPT ![p] = to]
    PROVE  /\ References \in Nat
           /\ References' = References + Weight(to) - Weight(stage[p])
<1>1. /\ Cardinality(In(Holding)) \in Nat
      /\ Cardinality(In(Holding)') = Cardinality(In(Holding))
            + (IF to \in Holding THEN 1 ELSE 0) - (IF stage[p] \in Holding THEN 1 ELSE 0)
  BY OneMoves
<1>2. /\ Cardinality(In({"surplus"})) \in Nat
      /\ Cardinality(In({"surplus"})') = Cardinality(In({"surplus"}))
            + (IF to \in {"surplus"} THEN 1 ELSE 0) - (IF stage[p] \in {"surplus"} THEN 1 ELSE 0)
  BY OneMoves
<1> QED
  BY <1>1, <1>2 DEF References, Weight, Holding

\* Where two change places there are as many as before.
LEMMA TwoMove ==
    ASSUME RefTypeOK, NEW stages, NEW p \in Pointers, NEW q \in Pointers, p # q,
           stage' = [stage EXCEPT ![p] = stage[q], ![q] = stage[p]]
    PROVE  Cardinality(In(stages)') = Cardinality(In(stages))
<1>1. IsFiniteSet(In(stages)) /\ Cardinality(In(stages)) \in Nat
  BY PointersAssumption, FS_Subset, FS_CardinalityType DEF In
<1>2. ASSUME NEW x \in Pointers, NEW y \in Pointers, x # y,
             stage' = [stage EXCEPT ![x] = stage[y], ![y] = stage[x]],
             stage[x] \in stages, stage[y] \notin stages
      PROVE  Cardinality(In(stages)') = Cardinality(In(stages))
  <2>1. In(stages)' = (In(stages) \ {x}) \cup {y} /\ x \in In(stages) /\ y \notin In(stages)
    BY <1>2 DEF In, RefTypeOK
  <2>2. IsFiniteSet(In(stages) \ {x}) /\ Cardinality(In(stages) \ {x}) = Cardinality(In(stages)) - 1
    BY <1>1, <2>1, FS_RemoveElement
  <2>3. Cardinality((In(stages) \ {x}) \cup {y}) = Cardinality(In(stages) \ {x}) + 1
    BY <2>1, <2>2, FS_AddElement
  <2> QED
    BY <1>1, <2>1, <2>2, <2>3
<1>3. CASE stage[p] \in stages /\ stage[q] \notin stages
  BY <1>2, <1>3
<1>4. CASE stage[q] \in stages /\ stage[p] \notin stages
  <2>1. stage' = [stage EXCEPT ![q] = stage[p], ![p] = stage[q]]
    BY DEF RefTypeOK
  <2> QED
    BY <1>2, <1>4, <2>1
<1>5. CASE stage[p] \in stages <=> stage[q] \in stages
  <2>1. In(stages)' = In(stages)
    BY <1>5 DEF In, RefTypeOK
  <2> QED
    BY <2>1
<1> QED
  BY <1>3, <1>4, <1>5

\* Nobody holds a reference when there is none, and who holds the only one holds it alone.
LEMMA Alone ==
    ASSUME RefIInv, NEW p \in Pointers
    PROVE  /\ stage[p] \in Holding => strong > 0
           /\ strong = 1 /\ stage[p] \in Holding =>
                stage[p] = "valid" /\ \A q \in Pointers : stage[q] \in Holding => q = p
           /\ strong > 0 => \E q \in Pointers : stage[q] \in Holding
<1>1. /\ IsFiniteSet(In(Holding)) /\ Cardinality(In(Holding)) \in Nat
      /\ IsFiniteSet(In({"surplus"})) /\ Cardinality(In({"surplus"})) \in Nat
      /\ In({"surplus"}) \subseteq In(Holding)
  BY PointersAssumption, FS_Subset, FS_CardinalityType DEF In, Holding
<1>2. strong = Cardinality(In(Holding)) + Cardinality(In({"surplus"}))
  BY DEF RefIInv, LastOneDestroys
<1>3. ASSUME stage[p] \in Holding PROVE Cardinality(In(Holding) \ {p}) = Cardinality(In(Holding)) - 1
        /\ IsFiniteSet(In(Holding) \ {p}) /\ Cardinality(In(Holding) \ {p}) \in Nat
  BY <1>1, <1>3, FS_RemoveElement, FS_CardinalityType DEF In
<1>4. ASSUME strong = 1, stage[p] \in Holding
      PROVE  stage[p] = "valid" /\ \A q \in Pointers : stage[q] \in Holding => q = p
  <2>1. Cardinality(In(Holding) \ {p}) = 0 /\ Cardinality(In({"surplus"})) = 0
    BY <1>1, <1>2, <1>3, <1>4
  <2>2. In(Holding) \ {p} = {} /\ In({"surplus"}) = {}
    BY <1>1, <1>3, <1>4, <2>1, FS_EmptySet
  <2> QED
    BY <1>4, <2>2 DEF In, Holding
<1>5. ASSUME strong > 0 PROVE \E q \in Pointers : stage[q] \in Holding
  <2>1. SUFFICES ASSUME In(Holding) = {} PROVE FALSE
    BY DEF In
  <2>2. In({"surplus"}) = {}
    BY <1>1, <2>1
  <2> QED
    BY <1>2, <1>5, <2>1, <2>2, FS_EmptySet
<1> QED
  BY <1>1, <1>2, <1>3, <1>4, <1>5

-----------------------------------------------------------------------------
(* The invariant                                                           *)

LEMMA RefStarts == ReferencesInit => RefIInv
<1> SUFFICES ASSUME ReferencesInit PROVE RefIInv
  OBVIOUS
<1>1. In(Holding) = {} /\ In({"surplus"}) = {}
  BY DEF ReferencesInit, In, Holding
<1> QED
  BY <1>1, FS_EmptySet DEF ReferencesInit, RefIInv, RefTypeOK, LastOneDestroys, Stages, Holding, Destroying

\* What is left to show of a step that moves one pointer and counts as it should.
LEMMA Counted ==
    ASSUME RefIInv, NEW p \in Pointers, NEW to \in Stages, stage' = [stage EXCEPT ![p] = to],
           strong' = strong + Weight(to) - Weight(stage[p])
    PROVE  strong' = Cardinality(In(Holding)') + Cardinality(In({"surplus"})')
<1>1. RefTypeOK /\ strong = References
  BY DEF RefIInv, LastOneDestroys, References
<1> QED
  BY <1>1, ReferencesMove DEF References

LEMMA RefKeeps == RefIInv /\ [ReferencesNext]_refVars => RefIInv'
<1> SUFFICES ASSUME RefIInv, [ReferencesNext]_refVars PROVE RefIInv'
  OBVIOUS
<1> USE DEF Turn, Counting
<1>0. RefTypeOK
  BY DEF RefIInv
<1>1. ASSUME NEW p \in Pointers, Wrap(p) PROVE RefIInv'
  <2>1. strong' = Cardinality(In(Holding)') + Cardinality(In({"surplus"})')
    <3> DEFINE to == "valid"
    <3>1. to \in Stages
      BY DEF Stages
    <3>2. stage' = [stage EXCEPT ![p] = to] /\ strong' = strong + Weight(to) - Weight(stage[p])
      BY <1>0, <1>1 DEF Wrap, Weight, RefTypeOK
    <3> HIDE DEF to
    <3> QED
      BY <3>1, <3>2, Counted
  <2> QED
    BY <1>1, <2>1 DEF Wrap, RefIInv, RefTypeOK, LastOneDestroys, Stages, Holding, Destroying
<1>2. ASSUME NEW p \in Pointers, NEW q \in Pointers, Copy(p, q) PROVE RefIInv'
  <2>1. strong' = Cardinality(In(Holding)') + Cardinality(In({"surplus"})')
    <3> DEFINE to == "valid"
    <3>1. to \in Stages
      BY DEF Stages
    <3>2. stage' = [stage EXCEPT ![p] = to] /\ strong' = strong + Weight(to) - Weight(stage[p])
      BY <1>0, <1>2 DEF Copy, Weight, RefTypeOK
    <3> HIDE DEF to
    <3> QED
      BY <3>1, <3>2, Counted
  <2> QED
    BY <1>2, <2>1 DEF Copy, RefIInv, RefTypeOK, LastOneDestroys, Stages, Holding, Destroying
<1>3. ASSUME NEW p \in Pointers, NEW q \in Pointers, Assign(p, q) PROVE RefIInv'
  <2>1. strong' = Cardinality(In(Holding)') + Cardinality(In({"surplus"})')
    <3> DEFINE to == "surplus"
    <3>1. to \in Stages
      BY DEF Stages
    <3>2. stage' = [stage EXCEPT ![p] = to] /\ strong' = strong + Weight(to) - Weight(stage[p])
      BY <1>0, <1>3 DEF Assign, Weight, RefTypeOK
    <3> HIDE DEF to
    <3> QED
      BY <3>1, <3>2, Counted
  <2> QED
    BY <1>3, <2>1 DEF Assign, RefIInv, RefTypeOK, LastOneDestroys, Stages, Holding, Destroying
<1>4. ASSUME NEW p \in Pointers, NEW q \in Pointers, Move(p, q) PROVE RefIInv'
  <2>1. /\ Cardinality(In(Holding)') = Cardinality(In(Holding))
        /\ Cardinality(In({"surplus"})') = Cardinality(In({"surplus"}))
    BY <1>0, <1>4, TwoMove DEF Move
  <2> QED
    BY <1>4, <2>1 DEF Move, RefIInv, RefTypeOK, LastOneDestroys, Stages, Holding, Destroying
<1>5. ASSUME NEW p \in Pointers, Drop(p) PROVE RefIInv'
  <2>1. strong > 0 /\ (strong = 1 =>
            stage[p] = "valid" /\ \A q \in Pointers : stage[q] \in Holding => q = p)
    BY <1>5, Alone DEF Drop, Holding
  <2>2. strong' = Cardinality(In(Holding)') + Cardinality(In({"surplus"})')
    <3> DEFINE to == IF strong = 1 THEN "invalidate" ELSE IF stage[p] = "surplus" THEN "valid" ELSE "null"
    <3>1. to \in Stages
      BY DEF Stages
    <3>2. stage' = [stage EXCEPT ![p] = to] /\ strong' = strong + Weight(to) - Weight(stage[p])
      BY <1>0, <1>5, <2>1 DEF Drop, Weight, RefTypeOK
    <3> HIDE DEF to
    <3> QED
      BY <3>1, <3>2, Counted
  <2>3. RefTypeOK'
    BY <1>0, <1>5, <2>1 DEF Drop, RefTypeOK, Stages
  <2> QED
    BY <1>5, <2>1, <2>2, <2>3 DEF Drop, RefIInv, RefTypeOK, LastOneDestroys, Stages, Holding, Destroying
<1>6. ASSUME NEW p \in Pointers, Invalidate(p) PROVE RefIInv'
  <2>1. strong' = Cardinality(In(Holding)') + Cardinality(In({"surplus"})')
    <3> DEFINE to == "destroy"
    <3>1. to \in Stages
      BY DEF Stages
    <3>2. stage' = [stage EXCEPT ![p] = to] /\ strong' = strong + Weight(to) - Weight(stage[p])
      BY <1>0, <1>6 DEF Invalidate, Weight, RefTypeOK
    <3> HIDE DEF to
    <3> QED
      BY <3>1, <3>2, Counted
  <2> QED
    BY <1>6, <2>1 DEF Invalidate, RefIInv, RefTypeOK, LastOneDestroys, Stages, Holding, Destroying
<1>7. ASSUME NEW p \in Pointers, Destroy(p) PROVE RefIInv'
  <2>1. strong' = Cardinality(In(Holding)') + Cardinality(In({"surplus"})')
    <3> DEFINE to == "null"
    <3>1. to \in Stages
      BY DEF Stages
    <3>2. stage' = [stage EXCEPT ![p] = to] /\ strong' = strong + Weight(to) - Weight(stage[p])
      BY <1>0, <1>7 DEF Destroy, Weight, RefTypeOK
    <3> HIDE DEF to
    <3> QED
      BY <3>1, <3>2, Counted
  <2> QED
    BY <1>7, <2>1 DEF Destroy, RefIInv, RefTypeOK, LastOneDestroys, Stages, Holding, Destroying
<1>8. ASSUME NEW p \in Pointers, LoadStrong(p) PROVE RefIInv'
  <2>1. strong' = Cardinality(In(Holding)') + Cardinality(In({"surplus"})')
    <3> DEFINE to == IF strong > 0 THEN "exchange" ELSE "null"
    <3>1. to \in Stages
      BY DEF Stages
    <3>2. stage' = [stage EXCEPT ![p] = to] /\ strong' = strong + Weight(to) - Weight(stage[p])
      BY <1>0, <1>8 DEF LoadStrong, Weight, RefTypeOK
    <3> HIDE DEF to
    <3> QED
      BY <3>1, <3>2, Counted
  <2> QED
    BY <1>8, <2>1 DEF LoadStrong, RefIInv, RefTypeOK, LastOneDestroys, Stages, Holding, Destroying
<1>9. ASSUME NEW p \in Pointers, LockStrong(p) PROVE RefIInv'
  <2>1. strong' = Cardinality(In(Holding)') + Cardinality(In({"surplus"})')
    BY <1>0, <1>9, Counted DEF LockStrong, Weight, Stages, RefTypeOK
  <2>2. strong > 0 => value = "live" /\ agent = "live" /\ \A q \in Pointers : stage[q] \notin Destroying
    BY Alone, <1>9 DEF RefIInv, LastOneDestroys, Destroying, Holding
  <2>3. CASE strong = seen[p] /\ strong < MaxStrong /\ Turn(p, "exchange", "valid") /\ Counting(strong + 1)
    BY <2>1, <2>2, <2>3 DEF RefIInv, RefTypeOK, LastOneDestroys, Stages, Holding, Destroying
  <2>4. CASE /\ Turn(p, "exchange", IF strong > 0 THEN "exchange" ELSE "null")
             /\ seen' = [seen EXCEPT ![p] = strong]
             /\ UNCHANGED <<strong, value, agent, kept>>
    BY <2>1, <2>4 DEF RefIInv, RefTypeOK, LastOneDestroys, Stages, Holding, Destroying
  <2> QED
    BY <1>9, <2>3, <2>4 DEF LockStrong
<1>10. CASE UNCHANGED refVars
  BY <1>10 DEF refVars, RefIInv, RefTypeOK, LastOneDestroys, In
<1> QED
  BY <1>1, <1>2, <1>3, <1>4, <1>5, <1>6, <1>7, <1>8, <1>9, <1>10 DEF ReferencesNext

\* However many pointers there are, the last of them destroys the value and the agent, once, and
\* no lock comes between (unrecordStrongReferenceToDestroy, lockForStrongReference).
THEOREM DestroyedOnce == ReferencesSpec => []LastOneDestroys
<1>1. RefIInv => LastOneDestroys
  BY DEF RefIInv
<1> QED
  BY RefStarts, RefKeeps, <1>1, PTL DEF ReferencesSpec
=============================================================================
