------------------------------ MODULE Semaphore ------------------------------
(***************************************************************************)
(* concurrency/semaphore.hpp.  The count is the number of permits.  Where  *)
(* the acquisitions of one semaphore ask for different amounts, release    *)
(* may wake one that needs more than there is and let another sleep that   *)
(* does not: the instances of Mixes ask for one amount each.               *)
(***************************************************************************)
EXTENDS CountWaiting

CONSTANTS
    Mixes,       \* which amounts are asked of one semaphore
    MaxPermits   \* bounds the permits

ASSUME MixesAssumption == Mixes \subseteq SUBSET Nat
ASSUME MaxPermitsAssumption == MaxPermits \in Nat

VARIABLE amounts   \* the amounts that are asked of this one

SemaphoreInit ==
    /\ InitWaiting
    /\ count \in 0 .. MaxPermits
    /\ amounts \in Mixes

Admits(t) == count >= need[t]

Acquire(t, n) == Enter(t, n, "forever")
TryAcquire(t, n) == Enter(t, n, "never")
TryAcquireUntil(t, n) == Enter(t, n, "deadline")

\* Asks for one permit, whatever its n_: it forgets to pass it on.
TryAcquireFor(t, n) == Enter(t, 1, "deadline")

AddPermits(t, n, then) ==
    /\ count + n <= MaxPermits
    /\ Go(t, "out", then)
    /\ count' = count + n
    /\ UNCHANGED <<build, need, old, patience>>

\* Mutant of Release: notifies only when there was no permit before.
ReleaseOnZero(t) == AddPermits(t, 1, IF count = 0 THEN "notifyOne" ELSE "out")
Release(t) == AddPermits(t, 1, "notifyOne")

ReleaseMany(t, n) == AddPermits(t, n, "notifyAll")

\* Under the mutex the predicate is true, and the permits are taken.
Take(t) ==
    /\ Admits(t)
    /\ Go(t, "test", "out") /\ Forget(t)
    /\ count' = count - need[t]
    /\ UNCHANGED build

LoadPermits(t) ==
    \/ LoadToExchange(t, Admits(t))
    \/ LoadToReturn(t, ~Admits(t) /\ patience[t] = "never")
    \/ LoadToBlock(t, Admits(t))

\* Mutant of Exchange: the new count is stored without a look at the present one.
ExchangeBlindly(t) ==
    /\ Go(t, "exchange", "out") /\ Forget(t)
    /\ count' = old[t] - need[t]
    /\ UNCHANGED build
\* compare_exchange_weak succeeds.
Exchange(t) ==
    /\ Go(t, "exchange", "out") /\ Forget(t)
    /\ count = old[t]
    /\ count' = count - need[t]
    /\ UNCHANGED build

\* It fails, perhaps for no reason; the loop reads the count again.
ExchangeFail(t) ==
    /\ Go(t, "exchange", "load")
    /\ UNCHANGED <<build, count, need, old, patience>>

\* Left out: tryAcquireFor where the others ask for more than one permit.  It would mix
\* amounts, of which Mixes keeps clear.
SemaphoreCalls(t) ==
    \/ Release(t)
    \/ \E n \in amounts :
        \/ Acquire(t, n) \/ TryAcquire(t, n) \/ TryAcquireUntil(t, n)
        \/ 1 \in amounts /\ TryAcquireFor(t, n)
        \/ ReleaseMany(t, n)

\* What a thread does inside of a call, and has to do in time.
SemaphoreWork(t) ==
    /\ \/ WaitingStep(t, Admits(t))
       \/ Take(t) \/ LoadPermits(t) \/ Exchange(t)
    /\ UNCHANGED amounts

SemaphoreNext == \E t \in Threads :
    \/ SemaphoreWork(t)
    \/ SemaphoreCalls(t) /\ UNCHANGED amounts
    \/ (ExchangeFail(t) \/ WakeUnasked(t)) /\ UNCHANGED amounts

\* While there are permits for a sleeper, somebody will look at the count or notify.
PermitsNoticed ==
    (\E t \in Sleepers : Admits(t)) =>
        \E t \in Threads : WillLook(t) \/ pc[t] \in {"notifyOne", "notifyAll"}
=============================================================================
