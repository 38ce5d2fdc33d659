----------------------------- MODULE AtomCalls -----------------------------
(***************************************************************************)
(* The calls of an Atom.  They have one form: a rule says what becomes of  *)
(* each value, namely the value to write, or that the call ends without a  *)
(* change (Stop), looks again (Retry), or looks again after the value has  *)
(* changed (Delay).                                                        *)
(***************************************************************************)
EXTENDS Integers

CONSTANT Values

ASSUME ValuesAssumption == Values \subseteq Nat /\ 0 \in Values

Stop == -1
Retry == -2
Delay == -3
Rules == [Values -> Values \cup {Stop, Retry, Delay}]

NoCall == [op |-> "none", rule |-> [v \in Values |-> Stop], operand |-> 0]

\* The calls, by what they do to the atom.  Stamped calls are those of a stamped atom, and the
\* five operations (add, subtract, bitwiseAnd, bitwiseOr, bitwiseExclusiveOr) have one name.
Loads == {"load"}
Stores == {"store"}
Exchanges == {"exchange"}
Weak == {"compareExchangeWeak", "stampedCompareExchangeWeak"}
Strong == {"compareExchangeStrong", "stampedCompareExchangeStrong"}
FetchTransforms == {"fetchTransform"}
TransformFetches == {"transformFetch"}
FetchTransformsOrLoad == {"fetchTransformOrLoad"}
TransformFetchesOrLoad == {"transformFetchOrLoad"}
Changes == {"wait", "waitUntil", "waitFetchStrong"}
WaitFetches == {"waitFetchWeak", "waitFetchStrong"}
Awaits == {"waitPredicateFetch", "waitEquality"}
Notifies == {"notifyOne", "notifyAll"}
FetchExecutes == {"fetchExecute", "hintedFetchExecute"}
ExecuteFetches == {"executeFetch", "hintedExecuteFetch"}
Hinted == {"hintedFetchExecute", "hintedExecuteFetch"}
FetchOperations == {"fetchOperation"}
OperationFetches == {"operationFetch"}

Compares == Weak \cup Strong
Conditional == FetchTransformsOrLoad \cup TransformFetchesOrLoad
Waits == Changes \cup WaitFetches \cup Awaits
Executes == FetchExecutes \cup ExecuteFetches

\* What they return: nothing, the value before, or the value after.
ByStamp == {"stampedCompareExchangeWeak", "stampedCompareExchangeStrong"} \cup Changes
Silent == Stores \cup Notifies \cup {"wait", "waitEquality"}
Fetches == Loads \cup Exchanges \cup FetchTransforms \cup FetchTransformsOrLoad
    \cup FetchOperations \cup FetchExecutes \cup WaitFetches \cup {"waitPredicateFetch"}
ReturnsNew == TransformFetches \cup TransformFetchesOrLoad \cup OperationFetches \cup ExecuteFetches

Operations == Silent \cup Fetches \cup ReturnsNew \cup Compares \cup {"waitUntil"}

\* A comparison that succeeds writes, and a notification does not look at the atom.
Calls == {c \in [op : Operations, rule : Rules, operand : Values] : \A v \in Values :
    /\ c.op \in Compares => c.rule[v] \in Values
    /\ c.op \in Notifies => c.rule[v] = Stop}
=============================================================================
