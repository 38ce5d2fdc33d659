---------------------------- MODULE OnceContract ----------------------------
(***************************************************************************)
(* What OnceInvoker::invoke promises its callers.  Invocations follow each *)
(* other; all but the last of them throw; one that returns is the last.    *)
(* An invocation begins with the effects of those before it visible, and a *)
(* call that finds the work done returns with all of them visible.         *)
(***************************************************************************)
EXTENDS Naturals

CONSTANT Callers

VARIABLES
    stage,   \* where each caller is: outside, calling, or running the function
    ended,   \* how many invocations have ended, numbered in their order
    done,    \* whether one of them returned
    sees     \* the invocations whose effects a caller sees

vars == <<stage, ended, done, sees>>

Invocations == 1 .. ended

Init ==
    /\ stage = [c \in Callers |-> "outside"]
    /\ ended = 0
    /\ done = FALSE
    /\ sees = [c \in Callers |-> {}]

Call(c) ==
    /\ stage[c] = "outside"
    /\ stage' = [stage EXCEPT ![c] = "calling"]
    /\ UNCHANGED <<ended, done, sees>>

\* The call becomes active.
Begin(c) ==
    /\ stage[c] = "calling"
    /\ ~done
    /\ \A d \in Callers : stage[d] # "active"
    /\ stage' = [stage EXCEPT ![c] = "active"]
    /\ sees' = [sees EXCEPT ![c] = Invocations]
    /\ UNCHANGED <<ended, done>>

\* The function ends, and returns or throws.
End(c) ==
    /\ stage[c] = "active"
    /\ stage' = [stage EXCEPT ![c] = "outside"]
    /\ ended' = ended + 1
    /\ sees' = [sees EXCEPT ![c] = @ \cup {ended + 1}]
    /\ done' \in BOOLEAN

\* The call is passive.
Pass(c) ==
    /\ stage[c] = "calling"
    /\ done
    /\ stage' = [stage EXCEPT ![c] = "outside"]
    /\ sees' = [sees EXCEPT ![c] = Invocations]
    /\ UNCHANGED <<ended, done>>

\* A caller may learn of effects earlier than it needs to.
Learn(c) ==
    /\ \E more \in SUBSET Invocations : sees' = [sees EXCEPT ![c] = @ \cup more]
    /\ UNCHANGED <<stage, ended, done>>

Next == \E c \in Callers : Call(c) \/ Begin(c) \/ End(c) \/ Pass(c) \/ Learn(c)

Spec == Init /\ [][Next]_vars
=============================================================================
