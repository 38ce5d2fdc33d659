---------------------------- MODULE OnceInvoker ----------------------------
(***************************************************************************)
(* service/once_invoker.hpp, the strategies "regular" (a flag, a mutex and *)
(* a second look at the flag) and "busy" (a status that callers spin on).  *)
(* The strategies "standard" and "none" have no synchronisation of their   *)
(* own.                                                                    *)
(*                                                                         *)
(* The flag is an atomic that is read and written with the orders the code *)
(* names.  It is modelled by its modification order: a load may return any *)
(* value that is not older than the newest the caller has seen, and an     *)
(* acquire of a released value makes visible what its writer saw.  A       *)
(* read-modify-write takes the newest value.  Every store here is made by  *)
(* a caller whose last look was at the newest value, which no other caller *)
(* may replace; it therefore ends the modification order.                  *)
(***************************************************************************)
EXTENDS Naturals, Sequences

CONSTANTS
    Callers,
    Strategies,   \* the strategies to explore
    MaxThrows     \* bounds how many invocations throw

ASSUME StrategiesAssumption == Strategies \subseteq {"regular", "busy"}
ASSUME MaxThrowsAssumption == MaxThrows \in Nat

VARIABLES
    strategy,   \* synchronizationStrategy
    flag,       \* m_regularFlag_ or m_busyFlag_: its values, with what their writers saw
    holder,     \* the owner of m_mutex_, in a set of at most one
    passed,     \* what the last owner of m_mutex_ saw
    pc,         \* where each caller is in commonInvoke_
    view,       \* what each caller has seen: a position in flag, and effects of invocations
    ended       \* how many invocations have ended (history)

vars == <<strategy, flag, holder, passed, pc, view, ended>>

Points == {"idle", "load", "exchange", "lock", "check", "invoking", "storeDone", "storeIdle", "unlock"}
Values == {"idle", "invoking", "done"}
Messages == [value : Values, effects : SUBSET (1 .. ended)]
Views == [at : 1 .. Len(flag), effects : SUBSET (1 .. ended)]

Init ==
    /\ strategy \in Strategies
    /\ flag = <<[value |-> "idle", effects |-> {}]>>
    /\ holder = {}
    /\ passed = [at |-> 1, effects |-> {}]
    /\ pc = [c \in Callers |-> "idle"]
    /\ view = [c \in Callers |-> [at |-> 1, effects |-> {}]]
    /\ ended = 0

-----------------------------------------------------------------------------
(* Memory                                                                  *)

Readable(c) == view[c].at .. Len(flag)
Acquire(c, i) == [at |-> i, effects |-> view[c].effects \cup flag[i].effects]
Relaxed(c, i) == [at |-> i, effects |-> view[c].effects]

\* A release store at the end of the modification order, of a caller that saw v.
Release(value, v) == Append(flag, [value |-> value, effects |-> v.effects])

\* Locking m_mutex_ makes visible what its last owner saw.
Join(v, w) ==
    [at |-> IF v.at < w.at THEN w.at ELSE v.at, effects |-> v.effects \cup w.effects]

-----------------------------------------------------------------------------
(* The steps of invoke                                                     *)

Move(c, from, to) == pc[c] = from /\ pc' = [pc EXCEPT ![c] = to]
See(c, v) == view' = [view EXCEPT ![c] = v]

Call(c) ==
    /\ Move(c, "idle", "load")
    /\ UNCHANGED <<strategy, flag, holder, passed, view, ended>>

\* done(), outside of invoke.
Done(c, i) ==
    /\ pc[c] = "idle" /\ i \in Readable(c)
    /\ See(c, Acquire(c, i))
    /\ UNCHANGED <<strategy, flag, holder, passed, pc, ended>>

\* Where a caller goes that has read the value: back to the flag while another one is
\* invoking, away when the work is done.
AfterLoad(value) ==
    CASE value = "done" -> "idle"
      [] value = "invoking" -> "load"
      [] value = "idle" -> IF strategy = "busy" THEN "exchange" ELSE "lock"

\* Mutant of Load: the fast path does not acquire.
LoadRelaxed(c, i) ==
    /\ i \in Readable(c)
    /\ Move(c, "load", AfterLoad(flag[i].value))
    /\ See(c, Relaxed(c, i))
    /\ UNCHANGED <<strategy, flag, holder, passed, ended>>

\* The loads of the busy loop, and done() of the regular strategy.
Load(c, i) ==
    /\ i \in Readable(c)
    /\ Move(c, "load", AfterLoad(flag[i].value))
    /\ See(c, Acquire(c, i))
    /\ UNCHANGED <<strategy, flag, holder, passed, ended>>

\* compareExchangeWeak succeeds: it replaces the newest value.
Exchange(c) ==
    LET seen == Acquire(c, Len(flag)) IN
    /\ Move(c, "exchange", "invoking")
    /\ flag[Len(flag)].value = "idle"
    /\ flag' = Release("invoking", seen)
    /\ See(c, [seen EXCEPT !.at = Len(flag) + 1])
    /\ UNCHANGED <<strategy, holder, passed, ended>>

\* It fails, because of the value it read or for no reason, and leaves that value in old_.
ExchangeFail(c, i) ==
    /\ i \in Readable(c)
    /\ Move(c, "exchange", AfterLoad(flag[i].value))
    /\ See(c, Acquire(c, i))
    /\ UNCHANGED <<strategy, flag, holder, passed, ended>>

\* PhoneyLockGuard: the regular strategy locks m_mutex_.
Lock(c) ==
    /\ holder = {}
    /\ Move(c, "lock", "check")
    /\ holder' = {c}
    /\ See(c, Join(view[c], passed))
    /\ UNCHANGED <<strategy, flag, passed, ended>>

\* The second look finds that there is nothing left to do; the guard unlocks.
CheckDone(c, i) ==
    /\ i \in Readable(c) /\ flag[i].value = "done"
    /\ Move(c, "check", "idle")
    /\ See(c, Relaxed(c, i))
    /\ passed' = Relaxed(c, i)
    /\ holder' = {}
    /\ UNCHANGED <<strategy, flag, ended>>

\* Mutant of CheckIdle: no second look under the mutex.
CheckNothing(c, i) ==
    /\ i \in Readable(c)
    /\ Move(c, "check", "invoking")
    /\ See(c, Relaxed(c, i))
    /\ UNCHANGED <<strategy, flag, holder, passed, ended>>
CheckIdle(c, i) ==
    /\ i \in Readable(c) /\ flag[i].value = "idle"
    /\ Move(c, "check", "invoking")
    /\ See(c, Relaxed(c, i))
    /\ UNCHANGED <<strategy, flag, holder, passed, ended>>

\* The function ends; its caller sees what it did.
EndAt(c, to) ==
    /\ Move(c, "invoking", to)
    /\ ended' = ended + 1
    /\ See(c, [view[c] EXCEPT !.effects = @ \cup {ended + 1}])
    /\ UNCHANGED <<strategy, flag, holder, passed>>

Return(c) == EndAt(c, "storeDone")

\* The handler of the busy strategy resets the status; that of the regular one only rethrows.
Throw(c) ==
    /\ ended < MaxThrows
    /\ EndAt(c, IF strategy = "busy" THEN "storeIdle" ELSE "unlock")

Store(c, from, value) ==
    /\ Move(c, from, IF strategy = "busy" THEN "idle" ELSE "unlock")
    /\ flag' = Release(value, view[c])
    /\ See(c, [view[c] EXCEPT !.at = Len(flag) + 1])
    /\ UNCHANGED <<strategy, holder, passed, ended>>

StoreDone(c) == Store(c, "storeDone", "done")

\* Mutant of StoreIdle: an invocation that throws leaves the status as it is.
StoreNothing(c) ==
    /\ Move(c, "storeIdle", "idle")
    /\ UNCHANGED <<strategy, flag, holder, passed, view, ended>>

StoreIdle(c) == Store(c, "storeIdle", "idle")

\* The guard is destroyed, after the store or on the way of the exception.
Unlock(c) ==
    /\ Move(c, "unlock", "idle")
    /\ passed' = view[c]
    /\ holder' = {}
    /\ UNCHANGED <<strategy, flag, view, ended>>

AnyRead(c, i) ==
    \/ Done(c, i) \/ Load(c, i) \/ ExchangeFail(c, i) \/ CheckDone(c, i) \/ CheckIdle(c, i)

End(c) == Return(c) \/ Throw(c)

Next == \E c \in Callers :
    \/ Call(c) \/ Exchange(c) \/ Lock(c) \/ End(c)
    \/ StoreDone(c) \/ StoreIdle(c) \/ Unlock(c)
    \/ \E i \in 1 .. Len(flag) : AnyRead(c, i)

Spec == Init /\ [][Next]_vars

\* Threads run, the function ends, and a store becomes visible in time: a caller that goes on
\* reading reads the newest value at last.
Fairness == \A c \in Callers :
    /\ WF_vars(Load(c, Len(flag)))
    /\ WF_vars(Exchange(c))
    /\ WF_vars(ExchangeFail(c, Len(flag)) /\ flag[Len(flag)].value # "idle")
    /\ WF_vars(Lock(c))
    /\ WF_vars(CheckDone(c, Len(flag)) \/ CheckIdle(c, Len(flag)))
    /\ WF_vars(End(c))
    /\ WF_vars(StoreDone(c) \/ StoreIdle(c) \/ Unlock(c))

FairSpec == Spec /\ Fairness

-----------------------------------------------------------------------------
(* Properties                                                              *)

Newest == flag[Len(flag)].value

TypeOK ==
    /\ strategy \in Strategies
    /\ flag \in Seq(Messages) /\ flag # <<>>
    /\ holder \in {{}} \cup {{c} : c \in Callers}
    /\ passed \in Views
    /\ pc \in [Callers -> Points]
    /\ view \in [Callers -> Views]
    /\ ended \in Nat

\* What a caller sees that has missed nothing.
Everything == [at |-> Len(flag), effects |-> 1 .. ended]

\* The callers that have taken the mutex, or the busy status.
Inside(c) == pc[c] \in {"check", "invoking", "storeDone", "storeIdle", "unlock"}

OneInside == \A c, d \in Callers : Inside(c) /\ Inside(d) => c = d

InsideSees == \A c \in Callers :
    /\ Inside(c) => view[c] = Everything
    /\ pc[c] \in {"invoking", "storeDone", "storeIdle"} =>
           Newest = IF strategy = "busy" THEN "invoking" ELSE "idle"

DoneIsLast == \A i \in DOMAIN flag :
    flag[i].value = "done" => i = Len(flag) /\ flag[i].effects = 1 .. ended

RegularInv ==
    /\ \A i \in DOMAIN flag : flag[i].value # "invoking"
    /\ \A c \in Callers :
        /\ pc[c] \notin {"exchange", "storeIdle"}
        /\ Inside(c) <=> c \in holder
    /\ holder = {} => passed = Everything

BusyInv ==
    /\ holder = {}
    /\ \A c \in Callers : pc[c] \notin {"lock", "check", "unlock"}
    /\ Newest = "invoking" <=> \E c \in Callers : Inside(c)
    /\ Newest # "invoking" => flag[Len(flag)].effects = 1 .. ended

\* One caller at a time looks, invokes and stores, and it sees all that was stored and done
\* before; so does, through the flag or the mutex, whoever comes after it.
IInv ==
    /\ TypeOK
    /\ OneInside
    /\ InsideSees
    /\ DoneIsLast
    /\ strategy = "regular" => RegularInv
    /\ strategy = "busy" => BusyInv

Stage(c) ==
    CASE pc[c] \in {"load", "exchange", "lock", "check"} -> "calling"
      [] pc[c] = "invoking" -> "active"
      [] OTHER -> "outside"

\* The refinement mapping: a call is active until its function has ended.
Stages == [c \in Callers |-> Stage(c)]
Finished == Newest = "done" \/ \E c \in Callers : pc[c] = "storeDone"
Sees == [c \in Callers |-> view[c].effects]

Contract == INSTANCE OnceContract WITH stage <- Stages, done <- Finished, sees <- Sees

\* The calls keep the contract: one function runs at a time, none after one has returned, each
\* sees what the ones before it did, and a passive call returns with everything visible.
ImplementsContract == Contract!Spec

\* Once functions stop to throw, each call of invoke returns.  The status is not left at
\* "invoking", and nobody spins on a value that is no longer there.
EachCallReturns == \A c \in Callers : pc[c] # "idle" ~> pc[c] = "idle"
=============================================================================
