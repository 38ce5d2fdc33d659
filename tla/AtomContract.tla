---------------------------- MODULE AtomContract ----------------------------
(***************************************************************************)
(* What an Atom promises (document/concurrency/atom.md): a call takes      *)
(* effect at one instant between its begin and its end, on the value the   *)
(* atom has at that instant, and returns what the document says of it.     *)
(***************************************************************************)
EXTENDS AtomCalls

CONSTANT Threads

VARIABLES
    stampSize, \* how many stamps there are; 1 if the atom has none
    value,     \* what the atom holds
    version,   \* how often it was written (of stamped atoms only)
    call,      \* the call each thread is inside of
    answer     \* what its last calls left to each thread, and what it passes as `expected' or `old'

vars == <<stampSize, value, version, call, answer>>

Init ==
    /\ stampSize \in Nat \ {0}
    /\ value \in Values
    /\ version = 0
    /\ call = [t \in Threads |-> NoCall]
    /\ answer = [t \in Threads |-> [ok |-> TRUE, value |-> value, at |-> 0]]

Begin(t) ==
    /\ call[t] = NoCall
    /\ call'[t] \in Calls /\ call' = [call EXCEPT ![t] = call'[t]]
    /\ UNCHANGED <<stampSize, value, version, answer>>

-----------------------------------------------------------------------------
(* The effect of a call                                                    *)

\* The value is the one the caller knows, as far as the call can tell.
Same(t) ==
    /\ value = answer[t].value
    /\ call[t].op \in ByStamp => version % stampSize = answer[t].at % stampSize

Verdict(t) ==
    IF call[t].op \in Compares THEN IF Same(t) THEN call[t].rule[value] ELSE Stop
    ELSE IF call[t].op \in Changes THEN IF Same(t) THEN Delay ELSE Stop
    ELSE IF call[t].op = "waitFetchWeak" THEN Stop
    ELSE call[t].rule[value]

NextVersion == IF stampSize = 1 THEN version ELSE version + 1

End(t, a) ==
    /\ call' = [call EXCEPT ![t] = NoCall]
    /\ answer' = [answer EXCEPT ![t] = a]
    /\ UNCHANGED stampSize

\* The call tells nothing of the atom but whether it succeeded.
Outcome(t, ok) == [ok |-> ok, value |-> answer[t].value, at |-> answer[t].at]

\* The atom is written; an *Fetch call returns the value after the modification.
Write(t) ==
    /\ Verdict(t) \in Values
    /\ value' = Verdict(t)
    /\ version' = NextVersion
    /\ End(t, IF call[t].op \in Fetches THEN [ok |-> TRUE, value |-> value, at |-> version]
              ELSE IF call[t].op \in ReturnsNew THEN [ok |-> TRUE, value |-> value', at |-> version']
              ELSE Outcome(t, TRUE))

\* The call ends and has changed nothing.
Leave(t) ==
    /\ Verdict(t) = Stop
    /\ End(t, IF call[t].op \in Silent \cup {"waitUntil"} THEN Outcome(t, TRUE)
              ELSE [ok |-> call[t].op \notin Compares, value |-> value, at |-> version])
    /\ UNCHANGED <<value, version>>

\* A weak comparison may fail for no reason.
FailSpuriously(t) ==
    /\ call[t].op \in Weak
    /\ End(t, [ok |-> FALSE, value |-> value, at |-> version])
    /\ UNCHANGED <<value, version>>

\* A deadline passes while the value is still the old one.
GiveUp(t) ==
    /\ call[t].op = "waitUntil" /\ Verdict(t) = Delay
    /\ End(t, Outcome(t, FALSE))
    /\ UNCHANGED <<value, version>>

\* The first value a hinted task sees is the hint, whatever the atom holds.
LeaveOnHint(t) ==
    /\ call[t].op \in Hinted
    /\ call[t].rule[answer[t].value] = Stop
    /\ End(t, Outcome(t, TRUE))
    /\ UNCHANGED <<value, version>>

Effect(t) == Write(t) \/ Leave(t) \/ FailSpuriously(t) \/ GiveUp(t) \/ LeaveOnHint(t)

Next == \E t \in Threads : Begin(t) \/ (call[t] # NoCall /\ Effect(t))

Spec == Init /\ [][Next]_vars
=============================================================================
