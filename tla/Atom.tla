-------------------------------- MODULE Atom --------------------------------
(***************************************************************************)
(* concurrency/atom.hpp over concurrency/atom_basic.hpp: an atomic value,  *)
(* with or without a stamp that every write increments.  The value is      *)
(* kept in a std::atomic ("standard"), in a plain object used through a    *)
(* std::atomic_ref ("reference"), under a mutex ("lockFull"), or is not    *)
(* atomic at all ("phoney").                                               *)
(*                                                                         *)
(* Over std::atomic and std::atomic_ref a call is one atomic operation, or *)
(* a loop of loads, weak compare-exchanges and waits; each of them is a    *)
(* step.  What a loop does with a value it has read is decided without     *)
(* looking at the atom and belongs to the step that read it.  Under a      *)
(* mutex a call is one critical section, or several with waits between.    *)
(*                                                                         *)
(* Every step is sequentially consistent: the memory orders of a call do   *)
(* not change what it does.                                                *)
(***************************************************************************)
EXTENDS AtomCalls, FiniteSets

CONSTANTS
    Threads,
    Programs,      \* what the threads do, under names: their calls, on which builds, and whether
                   \* whoever writes the atom then notifies its waiters
    Stamps,        \* how many stamps a stamped atom has: 2 to the power of their width
    MaxUpdates,    \* bounds how often a stamped atom is written
    OnlyConforming \* leave out the calls that do not return what the document says

ASSUME StampsAssumption == Stamps \in Nat \ {0, 1}
ASSUME MaxUpdatesAssumption == MaxUpdates \in Nat
ASSUME ConformingAssumption == OnlyConforming \in BOOLEAN

VARIABLES
    build,   \* the configuration
    program, \* which of the programs
    cell,    \* m_holder_.underlying_
    updates, \* how often it was written (history, of stamped atoms)
    pc,      \* where each thread is
    call,    \* the call it is inside of
    old,     \* old_ of its loop, or what its wait compares the atom with
    result   \* what its calls have left to it: it passes that as expected, old and hint

atomVars == <<build, program, cell, updates, pc, call, old, result>>

\* "once": about to do the one atomic operation, or critical section, of its call.  "alone": inside
\* of a sequenced call.  "owes": has written the atom and is to notify its waiters.
Points == {"out", "owes", "alone", "once", "hint", "load", "exchange", "wait", "asleep"}
Builds == [medium : {"standard", "reference", "lockFull", "phoney"}, stamped : BOOLEAN]

ASSUME ProgramsAssumption == \A p \in DOMAIN Programs :
    /\ Programs[p].builds \subseteq Builds
    /\ \A t \in Threads : Programs[p].calls[t] \subseteq Calls

Lockless == build.medium \in {"standard", "reference"}
StampSize == IF build.stamped THEN Stamps ELSE 1
Cells == [value : Values, stamp : 0 .. StampSize - 1]

\* Mutant of Restamped: the stamp is written back as it was read.
RestampedNot(seen, v) == [value |-> v, stamp |-> seen.stamp]

Restamped(seen, v) == [value |-> v, stamp |-> (seen.stamp + 1) % StampSize]

Fresh(c) == [ok |-> TRUE, value |-> c.value, stamp |-> c.stamp, at |-> 0]

AtomInit ==
    /\ program \in DOMAIN Programs
    /\ build \in Programs[program].builds
    /\ cell = [value |-> 0, stamp |-> 0]
    /\ updates = 0
    /\ pc = [t \in Threads |-> "out"]
    /\ call = [t \in Threads |-> NoCall]
    /\ old = [t \in Threads |-> cell]
    /\ result = [t \in Threads |-> Fresh(cell)]

\* What the caller passes: a StampedValue.
Known(t) == [value |-> result[t].value, stamp |-> result[t].stamp]

-----------------------------------------------------------------------------
(* Which calls return what they are documented to return                   *)

Sum(c) == [v \in Values |-> (v + c.operand) % Cardinality(Values)]

\* Nothing but statements one after the other, under the mutex or for a thread alone.
Plain(alone) == ~Lockless \/ (alone /\ build.medium = "reference")

\* Places where the code takes another value than its document.  transformFetch and its like
\* return result_, the value before; the *Fetch of an operation adds the operand to what
\* fetch_op returned; the sequenced forms of all operations compute result_ + operand_.
ReturnsOld(c, alone) ==
    /\ c.op \in ReturnsNew
    /\ Plain(alone) \/ (alone /\ c.op = "transformFetchOrLoad")

AddsOnReturn(c, alone) == c.op \in OperationFetches /\ ~build.stamped

AddsInPlace(c, alone) ==
    c.op \in FetchOperations \cup OperationFetches /\ ~build.stamped /\ alone /\ Plain(alone)

\* The calls that return what they are documented to return, and write what they are documented
\* to write.
Conforms(c, alone) ==
    /\ ~ReturnsOld(c, alone)
    /\ AddsOnReturn(c, alone) \/ AddsInPlace(c, alone) => c.rule = Sum(c)

-----------------------------------------------------------------------------
(* Steps that all calls are made of                                        *)

Go(t, to) == pc' = [pc EXCEPT ![t] = to]
Busy == {t \in Threads : pc[t] \notin {"out", "owes"}}

\* The call returns, and its locals are gone.
Return(t, r) ==
    /\ call' = [call EXCEPT ![t] = NoCall]
    /\ old' = [old EXCEPT ![t] = [value |-> 0, stamp |-> 0]]
    /\ result' = [result EXCEPT ![t] = r]
    /\ UNCHANGED <<build, program>>

Read(c, ok) == [ok |-> ok, value |-> c.value, stamp |-> c.stamp, at |-> updates]

\* The call tells nothing of the atom but whether it succeeded.
Outcome(t, ok) == [ok |-> ok, value |-> result[t].value, stamp |-> result[t].stamp, at |-> result[t].at]

\* It returns and has not written.
Leave(t, r) == Return(t, r) /\ Go(t, "out") /\ UNCHANGED <<cell, updates>>

\* It writes, and returns what was in the atom before or what is in it now.
Write(t, new, r) ==
    /\ cell' = new
    /\ updates' = IF build.stamped THEN updates + 1 ELSE updates
    /\ Return(t, r)
    /\ Go(t, IF Programs[program].notifies THEN "owes" ELSE "out")

\* What a call makes of the content of the atom.
Verdict(t, seen) ==
    LET c == call[t] IN
    IF c.op \in Compares THEN
        IF seen.value = Known(t).value /\ (c.op \in ByStamp => seen = Known(t))
        THEN c.rule[seen.value] ELSE Stop
    ELSE IF c.op \in Changes THEN IF seen = Known(t) THEN Delay ELSE Stop
    ELSE IF c.op = "waitFetchWeak" THEN IF ~Lockless /\ seen = Known(t) THEN Delay ELSE Stop
    ELSE IF AddsInPlace(c, pc[t] = "alone") THEN Sum(c)[seen.value]
    ELSE c.rule[seen.value]

\* What a call leaves that read seen and has nothing to write, and one that replaced seen by new.
LeftUnchanged(t, seen) ==
    IF call[t].op \in Silent \cup {"waitUntil"} THEN Outcome(t, TRUE)
    ELSE Read(seen, call[t].op \notin Compares)

Left(t, seen, new) ==
    IF call[t].op \in Fetches \/ ReturnsOld(call[t], pc[t] = "alone") THEN Read(seen, TRUE)
    ELSE IF AddsOnReturn(call[t], pc[t] = "alone") THEN
        Read([value |-> Sum(call[t])[seen.value], stamp |-> 0], TRUE)
    ELSE IF call[t].op \in ReturnsNew THEN [ok |-> TRUE, value |-> new.value, stamp |-> new.stamp, at |-> updates']
    ELSE Outcome(t, TRUE)

-----------------------------------------------------------------------------
(* Calls over std::atomic and std::atomic_ref                              *)

\* The loop has read seen and goes on accordingly.
Decide(t, seen) ==
    LET d == Verdict(t, seen) IN
    \/ d = Stop /\ Leave(t, LeftUnchanged(t, seen))
    \/ /\ d # Stop
       /\ Go(t, IF d = Retry THEN "load" ELSE IF d = Delay THEN "wait" ELSE "exchange")
       /\ old' = [old EXCEPT ![t] = IF d = Retry THEN [value |-> 0, stamp |-> 0] ELSE seen]
       /\ UNCHANGED <<build, program, cell, updates, call, result>>

\* A hinted task is given the hint before anything of the atom.
Hint(t) == pc[t] = "hint" /\ Decide(t, Known(t))

Load(t) == pc[t] = "load" /\ Decide(t, cell)

\* Mutant of Exchange: stores what the transformer made of the loaded value, whatever came between.
ExchangeBlindly(t) ==
    /\ pc[t] = "exchange"
    /\ LET new == Restamped(old[t], Verdict(t, old[t])) IN Write(t, new, Left(t, old[t], new))

\* compare_exchange_weak, which may fail spuriously.
Exchange(t) ==
    /\ pc[t] = "exchange"
    /\ \/ /\ cell = old[t]
          /\ LET new == Restamped(old[t], Verdict(t, old[t])) IN Write(t, new, Left(t, old[t], new))
       \/ Decide(t, cell)

\* Mutant of Wait: blocks without comparing once more.
WaitBlindly(t) ==
    /\ pc[t] = "wait" /\ Lockless
    /\ Go(t, "asleep") /\ UNCHANGED <<build, program, cell, updates, call, old, result>>

\* std::atomic::wait compares before it blocks, and again whenever it is woken.
Wait(t) ==
    /\ pc[t] = "wait" /\ Lockless
    /\ IF cell = old[t]
       THEN Go(t, "asleep") /\ UNCHANGED <<build, program, cell, updates, call, old, result>>
       ELSE IF call[t].op = "wait"
       THEN Leave(t, LeftUnchanged(t, cell))
       ELSE Go(t, "load") /\ UNCHANGED <<build, program, cell, updates, call, old, result>>

\* A waiter is woken without a notification.
WakeUnasked(t) ==
    /\ pc[t] = "asleep" /\ Go(t, IF Lockless THEN "wait" ELSE "once")
    /\ UNCHANGED <<build, program, cell, updates, call, old, result>>

Sleepers == {t \in Threads : pc[t] = "asleep"}

\* t goes to where it goes after its notification, and the sleepers in woken go on.
Wake(t, woken) ==
    pc' = [u \in Threads |-> IF u = t THEN "out" ELSE IF u \in woken THEN "wait" ELSE pc[u]]

NotifyOne(t) ==
    /\ pc[t] = "once" /\ call[t].op = "notifyOne"
    /\ \/ Sleepers = {} /\ Wake(t, {})
       \/ \E u \in Sleepers : Wake(t, {u})
    /\ Return(t, Outcome(t, TRUE))
    /\ UNCHANGED <<cell, updates>>

NotifyAll(t) ==
    /\ pc[t] = "once" /\ call[t].op = "notifyAll"
    /\ Wake(t, Sleepers)
    /\ Return(t, Outcome(t, TRUE))
    /\ UNCHANGED <<cell, updates>>

\* The same, by a client that always notifies after it has written.
NotifyAsPromised(t) ==
    /\ pc[t] = "owes"
    /\ Wake(t, Sleepers)
    /\ UNCHANGED <<build, program, cell, updates, call, old, result>>

-----------------------------------------------------------------------------
(* Calls that are one operation, or one critical section                   *)

\* The operation takes effect.
Perform(t) ==
    LET d == Verdict(t, cell)
        new == Restamped(cell, d)
    IN  /\ pc[t] \in {"once", "alone"} /\ call[t].op \notin Notifies
        /\ \/ d \in Values /\ Write(t, new, Left(t, cell, new))
           \/ d = Stop /\ Leave(t, LeftUnchanged(t, cell))

\* compare_exchange_weak fails though it need not.
FailSpuriously(t) ==
    /\ pc[t] \in {"once", "alone"} /\ call[t].op \in Weak /\ Lockless
    /\ pc[t] = "alone" => build.medium = "standard" /\ ~build.stamped
    /\ Leave(t, Read(cell, FALSE))

\* A wait on the condition variable of a lockFull atom, whose predicate is false.
Block(t) ==
    /\ pc[t] = "once" /\ ~Lockless /\ Verdict(t, cell) = Delay
    /\ Go(t, "asleep")
    /\ UNCHANGED <<build, program, cell, updates, call, old, result>>

\* wait_until evaluates its predicate once more at the deadline.
GiveUp(t) ==
    /\ pc[t] = "once" /\ call[t].op = "waitUntil" /\ Verdict(t, cell) = Delay
    /\ Leave(t, Outcome(t, FALSE))

-----------------------------------------------------------------------------
(* The calls begin: those that the configuration has, and that compile     *)

\* A wait compares the atom with what the caller knows, and a comparison by value on a stamped
\* atom guesses the stamp.
StartsFrom(t, first) ==
    IF first = "wait" THEN Known(t)
    ELSE IF first = "exchange" THEN [value |-> Known(t).value, stamp |-> 0]
    ELSE old[t]

\* t begins one of the calls named in ops: over std::atomic and std::atomic_ref with the step
\* first, under a mutex with the critical section, and on an atom that nobody else uses meanwhile
\* in the sequenced form, if the call has one.  A phoney atom has no other form.
Enter(t, ops, sequenced, first) ==
    /\ pc[t] = "out" /\ \A u \in Threads : pc[u] # "alone"
    /\ build.stamped => updates + Cardinality(Busy) < MaxUpdates
    /\ \E c \in Programs[program].calls[t], alone \in BOOLEAN :
        /\ c.op \in ops /\ (OnlyConforming => Conforms(c, alone))
        /\ build.medium = "phoney" => alone
        /\ alone => sequenced /\ \A u \in Threads : pc[u] = "out"
        /\ call' = [call EXCEPT ![t] = c]
        /\ Go(t, IF alone THEN "alone" ELSE IF Lockless THEN first ELSE "once")
        /\ old' = IF alone \/ ~Lockless THEN old ELSE [old EXCEPT ![t] = StartsFrom(t, first)]
    /\ UNCHANGED <<build, program, cell, updates, result>>

\* A stamp that is to be incremented has to be known first.
Loaded == IF build.stamped THEN "load" ELSE "once"

BeginLoad(t) == Enter(t, {"load"}, TRUE, "once")
BeginStore(t) == Enter(t, {"store"}, TRUE, Loaded)
BeginExchange(t) == Enter(t, {"exchange"}, TRUE, Loaded)

BeginCompareWeak(t) ==
    Enter(t, {IF build.stamped THEN "stampedCompareExchangeWeak" ELSE "compareExchangeWeak"}, TRUE, "once")

BeginStampedCompareStrong(t) ==
    build.stamped /\ Enter(t, {"stampedCompareExchangeStrong"}, TRUE, "once")

\* By value; the sequenced form for stamped atoms, which those under a mutex use, names a member
\* value_ that a StampedValue has not.
BeginCompareStrong(t) ==
    /\ build.stamped => Lockless
    /\ Enter(t, {"compareExchangeStrong"}, ~build.stamped, IF build.stamped THEN "exchange" ELSE "once")

BeginStampedFetchTransform(t) == build.stamped /\ Enter(t, {"fetchTransform"}, TRUE, "load")
BeginStampedTransformFetch(t) == build.stamped /\ Enter(t, {"transformFetch"}, TRUE, "load")
BeginFetchTransform(t) == ~build.stamped /\ Enter(t, {"fetchTransform"}, TRUE, "load")
BeginTransformFetch(t) == ~build.stamped /\ Enter(t, {"transformFetch"}, TRUE, "load")

\* Those of a stamped atom do not compile.
BeginFetchTransformOrLoad(t) == ~build.stamped /\ Enter(t, {"fetchTransformOrLoad"}, TRUE, "load")
BeginTransformFetchOrLoad(t) == ~build.stamped /\ Enter(t, {"transformFetchOrLoad"}, TRUE, "load")

BeginWait(t) == Enter(t, {"wait"}, FALSE, "wait")
BeginWaitUntil(t) == build.medium = "lockFull" /\ Enter(t, {"waitUntil"}, FALSE, "wait")
BeginWaitFetch(t) == Enter(t, WaitFetches, FALSE, "wait")
BeginAwait(t) == Enter(t, Awaits, FALSE, "load")
BeginNotify(t) == Lockless /\ Enter(t, Notifies, FALSE, "once")

\* Tasks, of which only those of an unstamped std::atomic compile; the hint is looked at before
\* the atom.
BeginFetchExecute(t) ==
    /\ build.medium = "standard" /\ ~build.stamped
    /\ \/ Enter(t, {"fetchExecute"}, FALSE, "load")
       \/ Enter(t, {"hintedFetchExecute"}, FALSE, "hint")

BeginExecuteFetch(t) ==
    /\ build.medium = "standard" /\ ~build.stamped
    /\ \/ Enter(t, {"executeFetch"}, FALSE, "load")
       \/ Enter(t, {"hintedExecuteFetch"}, FALSE, "hint")

BeginStampedOperation(t) ==
    build.stamped /\ Enter(t, FetchOperations \cup OperationFetches, TRUE, "load")
BeginOperation(t) ==
    ~build.stamped /\ Enter(t, FetchOperations \cup OperationFetches, TRUE, "once")

Begin(t) ==
    \/ BeginLoad(t) \/ BeginStore(t) \/ BeginExchange(t)
    \/ BeginCompareWeak(t) \/ BeginStampedCompareStrong(t) \/ BeginCompareStrong(t)
    \/ BeginStampedFetchTransform(t) \/ BeginStampedTransformFetch(t)
    \/ BeginFetchTransform(t) \/ BeginTransformFetch(t)
    \/ BeginFetchTransformOrLoad(t) \/ BeginTransformFetchOrLoad(t)
    \/ BeginWait(t) \/ BeginWaitUntil(t) \/ BeginWaitFetch(t) \/ BeginAwait(t) \/ BeginNotify(t)
    \/ BeginFetchExecute(t) \/ BeginExecuteFetch(t)
    \/ BeginStampedOperation(t) \/ BeginOperation(t)

-----------------------------------------------------------------------------
(* The threads                                                             *)

AtomWork(t) ==
    \/ Hint(t) \/ Load(t) \/ Exchange(t) \/ Wait(t)
    \/ NotifyOne(t) \/ NotifyAll(t) \/ NotifyAsPromised(t)
    \/ Perform(t) \/ Block(t)

AtomNext == \E t \in Threads :
    Begin(t) \/ AtomWork(t) \/ WakeUnasked(t) \/ FailSpuriously(t) \/ GiveUp(t)

AtomSpec == AtomInit /\ [][AtomNext]_atomVars

\* Threads go on with the calls they are inside of.  Nothing is assumed of deadlines and of
\* wakeups that nobody asked for, nor which sleeper a notification reaches.
FairAtom == AtomSpec /\ \A t \in Threads : WF_atomVars(AtomWork(t))

-----------------------------------------------------------------------------
(* Properties                                                              *)

\* The stamp of the atom is the number of its updates, as far as its width can tell, and so is
\* every stamp that a call returned the number at the time it looked: no update forgets to count,
\* and none counts twice (StampedValue).
StampCountsUpdates ==
    /\ cell \in Cells /\ cell.stamp = updates % StampSize
    /\ \A t \in Threads : result[t].stamp = result[t].at % StampSize

Contract == INSTANCE AtomContract WITH
    stampSize <- StampSize, value <- cell.value, version <- updates,
    answer <- [t \in Threads |-> [ok |-> result[t].ok, value |-> result[t].value, at |-> result[t].at]]

\* Whatever loop or lock it is made of, every call takes effect at one instant, on the value of
\* that instant, and returns what is documented: no update is lost, none is made of a stale
\* value, and no wait ends on a value that was not there (all calls that conform).
ImplementsAtomContract == Contract!Spec

Passable(t) == IF call[t].op = "waitFetchWeak" THEN cell # old[t] ELSE Verdict(t, cell) # Delay

Waiting(t) == call[t].op \in Waits \/ (call[t].op \in Executes /\ pc[t] = "asleep")

\* When everybody who writes the atom then notifies, a wait whose condition holds returns, and a
\* task does not sleep for ever on a value that it would have taken, whatever came between the
\* comparison and the sleep (wait, waitFetchStrong, waitPredicateFetch, waitEquality, executes).
WaitersReturn == \A t \in Threads :
    []<>~(Programs[program].notifies /\ Lockless /\ Waiting(t) /\ Passable(t))
=============================================================================
