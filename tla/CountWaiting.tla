---------------------------- MODULE CountWaiting ----------------------------
(***************************************************************************)
(* What concurrency/semaphore.hpp and concurrency/latch.hpp have in        *)
(* common: a count, and threads that wait until it lets them through.      *)
(* Both come in two builds: a count under a mutex with one condition       *)
(* variable ("monitor"), and a std::atomic that threads wait on and that   *)
(* is changed by read-modify-writes ("atomic").                            *)
(***************************************************************************)
EXTENDS Integers, FiniteSets

CONSTANTS
    Threads,
    Builds   \* the builds to explore

ASSUME ThreadsAssumption == IsFiniteSet(Threads)
ASSUME BuildsAssumption == Builds \subseteq {"monitor", "atomic"}

VARIABLES
    build,   \* atomicOnly_, or not
    count,   \* count_, or the atomic
    pc,      \* where each thread is
    need,    \* n_ of the call a thread is inside of
    old,     \* current_: the count as the thread has read it (the atomic builds)
    patience \* how long the call waits: not at all, until a deadline, or for ever

machine == <<build, count, pc, need, old, patience>>

\* "test": holds the mutex, or is to lock it, and evaluates the predicate.  "woken": a wait on
\* the atomic that a notification has reached.
Points == {"out", "test", "asleep", "load", "exchange", "block", "woken", "notifyOne", "notifyAll"}

InitWaiting ==
    /\ build \in Builds
    /\ pc = [t \in Threads |-> "out"]
    /\ need = [t \in Threads |-> 0]
    /\ old = [t \in Threads |-> 0]
    /\ patience = [t \in Threads |-> "forever"]

Go(t, from, to) == pc[t] = from /\ pc' = [pc EXCEPT ![t] = to]

\* The call of a thread ends, and its locals with it.
Forget(t) ==
    /\ need' = [need EXCEPT ![t] = 0]
    /\ old' = [old EXCEPT ![t] = 0]
    /\ patience' = [patience EXCEPT ![t] = "forever"]

\* A call begins that asks for n.  Only the monitor has deadlines.
Enter(t, n, p) ==
    /\ p = "deadline" => build = "monitor"
    /\ Go(t, "out", IF build = "monitor" THEN "test" ELSE "load")
    /\ need' = [need EXCEPT ![t] = n]
    /\ patience' = [patience EXCEPT ![t] = p]
    /\ UNCHANGED <<build, count, old>>

-----------------------------------------------------------------------------
(* Monitor: std::condition_variable                                        *)

Sleepers == {t \in Threads : pc[t] = "asleep"}

\* Where a sleeper goes that is woken.
Awake == IF build = "monitor" THEN "test" ELSE "woken"

\* A sleeper may wake up for no reason, and does at its deadline.
WakeUnasked(t) ==
    /\ Go(t, "asleep", Awake)
    /\ UNCHANGED <<build, count, need, old, patience>>

\* The predicate is false.
Sleep(t, admitted) ==
    /\ patience[t] # "never" /\ ~admitted
    /\ Go(t, "test", "asleep")
    /\ UNCHANGED <<build, count, need, old, patience>>

\* The predicate is evaluated once more at the deadline, and once only by the calls that do not wait.
GiveUp(t, admitted) ==
    /\ patience[t] # "forever" /\ ~admitted
    /\ Go(t, "test", "out") /\ Forget(t)
    /\ UNCHANGED <<build, count>>

-----------------------------------------------------------------------------
(* Atomic: std::atomic::wait                                               *)

\* The count is read: the call goes on to change it, ends, or blocks.
LoadToExchange(t, admitted) ==
    /\ Go(t, "load", "exchange") /\ admitted
    /\ old' = [old EXCEPT ![t] = count]
    /\ UNCHANGED <<build, count, need, patience>>

LoadToReturn(t, returns) ==
    /\ Go(t, "load", "out") /\ returns
    /\ Forget(t)
    /\ UNCHANGED <<build, count>>

LoadToBlock(t, admitted) ==
    /\ Go(t, "load", "block") /\ ~admitted /\ patience[t] # "never"
    /\ old' = [old EXCEPT ![t] = count]
    /\ UNCHANGED <<build, count, need, patience>>

\* wait(current_) blocks as long as the count is what it was, and after a notification that
\* found it so again.
Block(t) ==
    /\ pc[t] \in {"block", "woken"}
    /\ pc' = [pc EXCEPT ![t] = IF count = old[t] THEN "asleep" ELSE "load"]
    /\ UNCHANGED <<build, count, need, old, patience>>

-----------------------------------------------------------------------------
(* Notifications, sent after the mutex is released                         *)

NotifyOne(t) ==
    /\ pc[t] = "notifyOne"
    /\ \/ Sleepers = {} /\ pc' = [pc EXCEPT ![t] = "out"]
       \/ \E s \in Sleepers : pc' = [pc EXCEPT ![t] = "out", ![s] = Awake]
    /\ UNCHANGED <<build, count, need, old, patience>>

\* Mutant of NotifyAll: one of the sleepers is woken.
NotifyAllOne(t) ==
    /\ pc[t] = "notifyAll"
    /\ \/ Sleepers = {} /\ pc' = [pc EXCEPT ![t] = "out"]
       \/ \E s \in Sleepers : pc' = [pc EXCEPT ![t] = "out", ![s] = Awake]
    /\ UNCHANGED <<build, count, need, old, patience>>
NotifyAll(t) ==
    /\ pc[t] = "notifyAll"
    /\ pc' = [s \in Threads |-> IF s = t THEN "out" ELSE IF s \in Sleepers THEN Awake ELSE pc[s]]
    /\ UNCHANGED <<build, count, need, old, patience>>

-----------------------------------------------------------------------------
(* Steps that both classes take                                            *)

WaitingStep(t, admitted) ==
    \/ Sleep(t, admitted) \/ GiveUp(t, admitted)
    \/ Block(t) \/ NotifyOne(t) \/ NotifyAll(t)

TypeOK ==
    /\ build \in Builds
    /\ count \in Nat
    /\ pc \in [Threads -> Points]
    /\ need \in [Threads -> Nat]
    /\ old \in [Threads -> Nat]
    /\ patience \in [Threads -> {"never", "deadline", "forever"}]

\* A thread that will look at the count before it sleeps.
WillLook(t) ==
    \/ pc[t] \in {"test", "load", "exchange"}
    \/ pc[t] \in {"block", "woken"} /\ old[t] # count
=============================================================================
