-------------------------------- MODULE Latch --------------------------------
(***************************************************************************)
(* concurrency/latch.hpp.  The count is the number of arrivals that are    *)
(* still expected.  A latch that counts with a Boolean and a mutex is one  *)
(* that expects one arrival: its arriveAndWait need not wait.  Left out is *)
(* the atomic latch that counts with a Boolean: its countDown clears the   *)
(* flag inside of an assertion, by a function that std::atomic has not, so *)
(* that it does not compile with assertions and does nothing without.      *)
(***************************************************************************)
EXTENDS CountWaiting

CONSTANT Expected   \* the counts a latch may be constructed with

ASSUME ExpectedAssumption == Expected \subseteq Nat

LatchInit == InitWaiting /\ count \in Expected

Open == count = 0

Wait(t) == Enter(t, 0, "forever")
TryWait(t) == Enter(t, 0, "never")
TryWaitUntil(t) == Enter(t, 0, "deadline")

\* The assertion of every arrival, which its caller has to see to.
Fits(n) == n \in 1 .. count

\* countDown: the last arrival tells everybody, after the count has changed.
CountDown(t, n) ==
    /\ Fits(n)
    /\ Go(t, "out", IF count = n THEN "notifyAll" ELSE "out")
    /\ count' = count - n
    /\ UNCHANGED <<build, need, old, patience>>

\* arriveAndTryWait: the same, and the caller is told whether it was the last.
ArriveAndTryWait(t, n) == CountDown(t, n)

\* An arrival that is not the last one waits, without another look at the count.
ArriveAndWait(t, n) ==
    \/ count = n /\ CountDown(t, n)
    \/ /\ Fits(n) /\ count # n
       /\ Go(t, "out", IF build = "monitor" THEN "asleep" ELSE "block")
       /\ count' = count - n
       /\ old' = [old EXCEPT ![t] = count - n]
       /\ UNCHANGED <<build, need, patience>>

Leave(t) ==
    /\ Open
    /\ Go(t, "test", "out") /\ Forget(t)
    /\ UNCHANGED <<build, count>>

LoadArrivals(t) == LoadToReturn(t, Open \/ patience[t] = "never") \/ LoadToBlock(t, Open)

LatchCalls(t) ==
    \/ Wait(t) \/ TryWait(t) \/ TryWaitUntil(t)
    \/ \E n \in 1 .. count : CountDown(t, n) \/ ArriveAndTryWait(t, n) \/ ArriveAndWait(t, n)

\* What a thread does inside of a call, and has to do in time.
LatchWork(t) == WaitingStep(t, Open) \/ Leave(t) \/ LoadArrivals(t)

LatchNext == \E t \in Threads : LatchWork(t) \/ LatchCalls(t) \/ WakeUnasked(t)

\* Once the latch is open, the last arrival has woken those who sleep or is about to.
OpeningNoticed == Open => Sleepers = {} \/ \E t \in Threads : pc[t] = "notifyAll"
=============================================================================
