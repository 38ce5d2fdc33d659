------------------------------- MODULE MCAtom -------------------------------
(***************************************************************************)
(* Instances of Atom for TLC: integers of two bits, and programs that each *)
(* exercise one family of calls.                                           *)
(***************************************************************************)
EXTENDS Atom, SharedReferences, Bitwise, TLC

CONSTANTS t1, t2, t3

MCValues == 0 .. 3
Constant(x) == [v \in MCValues |-> x]
Plus(n) == [v \in MCValues |-> (v + n) % 4]

A(ops, rule) == [op : ops, rule : {rule}, operand : {0}]
\* The operation +, -, &, | or ^ with an operand, as the rule it applies.
Operate(ops, symbol, n) ==
    [op : ops, operand : {n}, rule : {[v \in MCValues |->
        CASE symbol = "+" -> (v + n) % 4 [] symbol = "-" -> (v + 4 - n) % 4
          [] symbol = "&" -> v & n [] symbol = "|" -> v | n [] symbol = "^" -> v ^^ n]}]

\* A transformer that leaves 3 alone, and the task of taking one of several permits.
UntilThree == [v \in MCValues |-> IF v = 3 THEN Stop ELSE v + 1]
TakeOne == [v \in MCValues |-> CASE v = 0 -> Delay [] v = 1 -> Retry [] v = 3 -> Stop [] OTHER -> v - 1]

Of(media, stamped) == [medium : media, stamped : stamped]
Program(builds, notifies, first, second, third) ==
    [builds |-> builds, notifies |-> notifies,
     calls |-> (t1 :> first @@ t2 :> second @@ t3 :> third)]

Loading == A({"load"}, Constant(Stop))
Exchanging == A({"store", "exchange", "compareExchangeWeak", "compareExchangeStrong",
    "stampedCompareExchangeWeak", "stampedCompareExchangeStrong"}, Constant(2))
Transforming == A({"fetchTransform", "transformFetch"}, Plus(3))
    \cup A(Conditional, UntilThree)
Operating == Operate({"fetchOperation", "operationFetch"}, "+", 1)
    \cup Operate({"fetchOperation", "operationFetch"}, "-", 1)
    \cup Operate({"fetchOperation", "operationFetch"}, "&", 2)
    \cup Operate({"fetchOperation", "operationFetch"}, "|", 1)
    \cup Operate({"fetchOperation", "operationFetch"}, "^", 3)
AwaitTwo == [v \in MCValues |-> IF v = 2 THEN Stop ELSE Delay]
Awaiting == A(Changes \cup {"waitFetchWeak"}, Constant(Stop))
    \cup A({"waitPredicateFetch", "waitEquality"}, AwaitTwo)
Executing == A(Executes, TakeOne)

AllMedia == {"standard", "reference", "lockFull", "phoney"}

MCPrograms ==
    "updates" :> Program(Of(AllMedia, BOOLEAN), FALSE, Loading \cup Exchanging \cup Transforming,
        Operating, {})
    @@ "waits" :> Program(Of({"standard", "lockFull"}, BOOLEAN), TRUE, Loading \cup Awaiting,
        A({"waitPredicateFetch"}, AwaitTwo), Operate({"fetchOperation"}, "+", 1))
    @@ "tasks" :> Program(Of({"standard"}, {FALSE}), TRUE, Executing, A({"executeFetch"}, TakeOne),
        A({"store"}, Constant(2)))
    @@ "notifications" :> Program(Of({"reference"}, {FALSE}), FALSE, Awaiting, A({"wait"}, Constant(Stop)),
        A(Notifies, Constant(Stop)) \cup Operate({"fetchOperation"}, "+", 2))

-----------------------------------------------------------------------------
(* The one or the other, told apart by their initial states.               *)

VARIABLE part

vars == <<part, atomVars, refVars>>

Init ==
    \/ part = "atom" /\ AtomInit
       /\ ReferencesInit /\ kept
    \/ part = "references" /\ ReferencesInit
       /\ AtomInit /\ program = "notifications"

Next ==
    /\ UNCHANGED part
    /\ \/ part = "atom" /\ AtomNext /\ UNCHANGED refVars
       \/ part = "references" /\ ReferencesNext /\ UNCHANGED atomVars

Spec == Init /\ [][Next]_vars

\* Threads go on with the calls of an Atom that they are inside of.
FairSpec ==
    /\ Spec
    /\ \A t \in Threads : WF_vars(part = "atom" /\ AtomWork(t) /\ UNCHANGED <<part, refVars>>)
=============================================================================
