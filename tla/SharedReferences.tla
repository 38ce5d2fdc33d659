-------------------------- MODULE SharedReferences --------------------------
(***************************************************************************)
(* resource/shared.hpp: strong pointers to one agent, which counts them    *)
(* with the Counter of core/counter.hpp and destroys its value, and then   *)
(* itself, after the last of them.  The agent is atomicallyCounted: an     *)
(* increment and a decrement are one read-modify-write each, and           *)
(* lockForStrongReference is a load and a loop of compare_exchange_weak.   *)
(* Each pointer is used by one thread at a time, and different pointers by *)
(* different threads.                                                      *)
(*                                                                         *)
(* Weak references are not modelled: what handles them does not compile.   *)
(***************************************************************************)
EXTENDS Naturals, FiniteSets

CONSTANTS
    Pointers,
    MaxStrong   \* bounds maxStrongReferenceCount, and with it how many pointers share the agent

ASSUME MaxStrongAssumption == MaxStrong \in Nat \ {0}
ASSUME PointersAssumption == IsFiniteSet(Pointers)

VARIABLES
    strong, \* counters().strong
    value,  \* what has become of the value of the agent
    agent,  \* and of the agent
    kept,   \* whether the dismissor leaves the agent where it is
    stage,  \* what each pointer is, or what its thread is about to do with it
    seen    \* previousValue_ of lockForStrongReference

refVars == <<strong, value, agent, kept, stage, seen>>

Stages == {"null", "valid", "surplus", "invalidate", "destroy", "exchange"}

ReferencesInit ==
    /\ strong = 0
    /\ value = "live" /\ agent = "live"
    /\ kept \in BOOLEAN
    /\ stage = [p \in Pointers |-> "null"]
    /\ seen = [p \in Pointers |-> 0]

Turn(p, from, to) == stage[p] = from /\ stage' = [stage EXCEPT ![p] = to]
Counting(n) == strong' = n /\ UNCHANGED <<value, agent, kept, seen>>

\* wrapToShare: the first pointer to a new agent.
Wrap(p) ==
    /\ strong = 0 /\ value = "live" /\ \A q \in Pointers : stage[q] = "null"
    /\ Turn(p, "null", "valid") /\ Counting(1)

\* recordStrongReference, by the copy of a valid pointer.
Copy(p, q) ==
    /\ stage[q] = "valid" /\ strong < MaxStrong
    /\ Turn(p, "null", "valid") /\ Counting(strong + 1)

\* A valid pointer is assigned another one: a temporary copy is swapped in, and dropped with the
\* reference there was.
Assign(p, q) ==
    /\ p # q /\ stage[q] = "valid" /\ strong < MaxStrong
    /\ Turn(p, "valid", "surplus") /\ Counting(strong + 1)

\* The move constructor takes the reference over, a move assignment exchanges the two.
Move(p, q) ==
    /\ p # q /\ stage[q] = "valid" /\ stage[p] \in {"null", "valid"}
    /\ stage' = [stage EXCEPT ![p] = stage[q], ![q] = stage[p]]
    /\ UNCHANGED <<strong, value, agent, kept, seen>>

\* unrecordStrongReference: whoever counts down to zero destroys.
Drop(p) ==
    /\ stage[p] \in {"valid", "surplus"}
    /\ Turn(p, stage[p], IF strong = 1 THEN "invalidate" ELSE IF stage[p] = "surplus" THEN "valid" ELSE "null")
    /\ Counting(strong - 1)

Invalidate(p) ==
    /\ Turn(p, "invalidate", "destroy")
    /\ value' = "destroyed"
    /\ UNCHANGED <<strong, agent, kept, seen>>

Destroy(p) ==
    /\ Turn(p, "destroy", "null")
    /\ agent' = IF kept THEN agent ELSE "destroyed"
    /\ UNCHANGED <<strong, value, kept, seen>>

\* lockForStrongReference, by a thread that has the address of an agent that is kept: the count
\* goes up unless it is zero.  compare_exchange_weak may fail spuriously.
LoadStrong(p) ==
    /\ kept /\ Turn(p, "null", IF strong > 0 THEN "exchange" ELSE "null")
    /\ seen' = [seen EXCEPT ![p] = strong]
    /\ UNCHANGED <<strong, value, agent, kept>>

\* Mutant of LockStrong: adds to the count whatever has become of it.
LockStrongBlindly(p) ==
    Turn(p, "exchange", "valid") /\ strong < MaxStrong /\ Counting(strong + 1)

LockStrong(p) ==
    \/ /\ strong = seen[p] /\ strong < MaxStrong
       /\ Turn(p, "exchange", "valid") /\ Counting(strong + 1)
    \/ /\ Turn(p, "exchange", IF strong > 0 THEN "exchange" ELSE "null")
       /\ seen' = [seen EXCEPT ![p] = strong]
       /\ UNCHANGED <<strong, value, agent, kept>>

ReferencesNext == \E p \in Pointers :
    \/ Wrap(p) \/ Drop(p) \/ Invalidate(p) \/ Destroy(p) \/ LoadStrong(p) \/ LockStrong(p)
    \/ \E q \in Pointers : Copy(p, q) \/ Assign(p, q) \/ Move(p, q)

ReferencesSpec == ReferencesInit /\ [][ReferencesNext]_refVars

-----------------------------------------------------------------------------
(* Properties                                                              *)

Holding == {"valid", "surplus"}
Destroying == {"invalidate", "destroy"}
In(stages) == {p \in Pointers : stage[p] \in stages}

\* The count is the number of references there are, so that it reaches zero once: the agent and
\* its value are there for every pointer that refers to them, one thread alone destroys them,
\* each of them once, and no lock revives what is being destroyed
\* (unrecordStrongReferenceToDestroy, lockForStrongReference).
LastOneDestroys ==
    /\ strong = Cardinality(In(Holding)) + Cardinality(In({"surplus"}))
    /\ \A p \in Pointers :
        /\ stage[p] \in Holding => value = "live" /\ agent = "live"
        /\ stage[p] = "invalidate" => value = "live" /\ agent = "live"
        /\ stage[p] = "destroy" => value = "destroyed" /\ agent = "live"
    /\ \A p, q \in Pointers : stage[p] \in Destroying /\ stage[q] \in Destroying \cup Holding => p = q
=============================================================================
