--------------------------- MODULE ThreadPoolProofs ---------------------------
(***************************************************************************)
(* For any number of threads and tasks: tasks are begun once and in order, *)
(* no wakeup is lost, and the destructor leaves no task behind.            *)
(***************************************************************************)
EXTENDS ThreadPool, SequenceTheorems, FiniteSetTheorems, TLAPS

\* Moving the first element of t behind s, and appending to t, change the
\* concatenation of s and t as they should.
LEMMA MoveFirst ==
    ASSUME NEW s \in Seq(Tasks), NEW t \in Seq(Tasks), t # << >>
    PROVE  /\ Append(s, Head(t)) \in Seq(Tasks) /\ Tail(t) \in Seq(Tasks)
           /\ Append(s, Head(t)) \o Tail(t) = s \o t
           /\ Len(t) \in Nat \ {0} /\ Len(Tail(t)) = Len(t) - 1
<1>1. /\ Head(t) \in Tasks /\ Tail(t) \in Seq(Tasks) /\ Len(Tail(t)) = Len(t) - 1
      /\ Len(t) \in Nat \ {0}
      /\ \A i \in 1 .. Len(Tail(t)) : Tail(t)[i] = t[i + 1]
  BY HeadTailProperties, EmptySeq
<1>2. /\ Append(s, Head(t)) \in Seq(Tasks) /\ Len(Append(s, Head(t))) = Len(s) + 1
      /\ Len(s) \in Nat /\ Append(s, Head(t))[Len(s) + 1] = t[1]
      /\ \A i \in 1 .. Len(s) : Append(s, Head(t))[i] = s[i]
  BY <1>1, AppendProperties, LenProperties
<1> DEFINE u == Append(s, Head(t)) \o Tail(t)
           v == s \o t
<1>3. u \in Seq(Tasks) /\ v \in Seq(Tasks)
  BY <1>1, <1>2, ConcatProperties
<1>4. Len(u) = Len(s) + Len(t) /\ Len(v) = Len(s) + Len(t)
  BY <1>1, <1>2, ConcatProperties
<1>5. ASSUME NEW i \in 1 .. Len(s) + Len(t) PROVE u[i] = v[i]
  <2>1. u[i] = IF i <= Len(s) + 1 THEN Append(s, Head(t))[i] ELSE Tail(t)[i - (Len(s) + 1)]
    BY <1>1, <1>2, ConcatProperties
  <2>2. v[i] = IF i <= Len(s) THEN s[i] ELSE t[i - Len(s)]
    BY <1>1, <1>2, ConcatProperties
  <2>3. CASE i <= Len(s)
    BY <2>1, <2>2, <2>3, <1>2
  <2>4. CASE i = Len(s) + 1
    BY <2>1, <2>2, <2>4, <1>2
  <2>5. CASE i > Len(s) + 1
    BY <2>1, <2>2, <2>5, <1>1, <1>2
  <2> QED
    BY <2>3, <2>4, <2>5, <1>1, <1>2
<1>6. u = v
  BY <1>3, <1>4, <1>5, SeqEqual
<1> QED
  BY <1>1, <1>2, <1>6

LEMMA AppendBehind ==
    ASSUME NEW s \in Seq(Tasks), NEW t \in Seq(Tasks), NEW e \in Tasks
    PROVE  /\ Append(s \o t, e) = s \o Append(t, e)
           /\ Append(t, e) \in Seq(Tasks) /\ Append(s, e) \in Seq(Tasks)
           /\ Len(t) \in Nat /\ Len(Append(t, e)) = Len(t) + 1
<1>1. <<e>> \in Seq(Tasks) /\ s \o t \in Seq(Tasks)
  BY ConcatProperties
<1>2. Append(s \o t, e) = (s \o t) \o <<e>> /\ Append(t, e) = t \o <<e>>
  BY <1>1, AppendIsConcat
<1>3. (s \o t) \o <<e>> = s \o (t \o <<e>>)
  BY <1>1, ConcatAssociative
<1> QED
  BY <1>2, <1>3, AppendProperties, LenProperties

\* The set of awake threads grows and shrinks by one.
LEMMA AwakeGrows ==
    ASSUME TypeOK, NEW w \in Workers, worker[w] # "awake",
           worker' = [worker EXCEPT ![w] = "awake"]
    PROVE  Cardinality(In("awake")') = Cardinality(In("awake")) + 1
<1>1. In("awake")' = In("awake") \cup {w} /\ w \notin In("awake")
  BY DEF In, TypeOK
<1>2. IsFiniteSet(In("awake"))
  BY FS_Subset, FiniteAssumption DEF In
<1> QED
  BY <1>1, <1>2, FS_AddElement

LEMMA AwakeShrinks ==
    ASSUME TypeOK, NEW w \in Workers, worker[w] = "awake",
           NEW state, state # "awake", worker' = [worker EXCEPT ![w] = state]
    PROVE  Cardinality(In("awake")') = Cardinality(In("awake")) - 1
<1>1. In("awake")' = In("awake") \ {w} /\ w \in In("awake")
  BY DEF In, TypeOK
<1>2. IsFiniteSet(In("awake"))
  BY FS_Subset, FiniteAssumption DEF In
<1> QED
  BY <1>1, <1>2, FS_RemoveElement

LEMMA AwakeCount == Cardinality(In("awake")) \in Nat
<1>1. IsFiniteSet(In("awake"))
  BY FS_Subset, FiniteAssumption DEF In
<1> QED
  BY <1>1, FS_CardinalityType

\* A notification wakes a sleeper, if there is one, and moves nobody else.
LEMMA NotifyOneWakes ==
    ASSUME TypeOK, NotifyOne
    PROVE  /\ worker' \in [Workers -> WorkerStates]
           /\ \/ In("asleep") = {} /\ worker' = worker
              \/ \E w \in Workers : /\ worker[w] = "asleep"
                                    /\ worker' = [worker EXCEPT ![w] = "awake"]
<1>1. CASE In("asleep") = {}
  BY <1>1 DEF NotifyOne, Wake, TypeOK
<1>2. CASE In("asleep") # {}
  <2>1. PICK w \in In("asleep") : Wake({w})
    BY <1>2 DEF NotifyOne
  <2> QED
    BY <2>1 DEF Wake, In, TypeOK, WorkerStates
<1> QED
  BY <1>1, <1>2

LEMMA NotifyAllWakes ==
    ASSUME TypeOK, NotifyAll
    PROVE  /\ worker' \in [Workers -> WorkerStates] /\ In("asleep")' = {}
           /\ In("left")' = In("left") /\ In("none")' = In("none")
  BY DEF NotifyAll, Wake, In, TypeOK, WorkerStates
-----------------------------------------------------------------------------
LEMMA Begins == Init => IInv
<1> SUFFICES ASSUME Init PROVE IInv
  OBVIOUS
<1>1. Cardinality(Workers) \in Nat /\ << >> \in Seq(Tasks) /\ Len(tasks) = 0
  BY FS_CardinalityType, FiniteAssumption, EmptySeq DEF Init
<1>2. \A x \in WorkerStates \ {"none"} : In(x) = {}
  BY DEF Init, In
<1>3. tasks = << >> /\ begun = << >> /\ accepted = begun \o tasks
  BY <1>1, ConcatEmptySeq DEF Init
<1> QED
  BY <1>1, <1>2, <1>3
  DEF Init, IInv, TypeOK, InOrderOnce, EnoughAwake, NothingLeft, EndInv, WorkerStates, OwnerStates

LEMMA TypeStep == TypeOK /\ Next => TypeOK'
<1> SUFFICES ASSUME TypeOK, Next PROVE TypeOK'
  OBVIOUS
<1>1. ASSUME NEW w \in Workers, Consume(w) \/ SpuriousWake(w) PROVE TypeOK'
  <2>1. CASE Retire(w)
    BY <2>1 DEF TypeOK, Retire, WorkerStates
  <2>2. CASE Take(w)
    BY <2>2, MoveFirst DEF TypeOK, Take, WorkerStates
  <2>3. CASE LeaveOrSleep(w)
    BY <2>3 DEF TypeOK, LeaveOrSleep, WorkerStates
  <2>4. CASE Finish(w)
    BY <2>4 DEF TypeOK, Finish, WorkerStates
  <2>5. CASE SpuriousWake(w)
    BY <2>5 DEF TypeOK, SpuriousWake, WorkerStates
  <2> QED
    BY <1>1, <2>1, <2>2, <2>3, <2>4, <2>5 DEF Consume
<1>2. ASSUME NEW t \in Tasks, Enqueue(t) PROVE TypeOK'
  BY <1>2, NotifyOneWakes, AppendBehind DEF TypeOK, Enqueue
<1>3. CASE AllStarted \/ Unwound \/ StartFails \/ Uninitialize
  <2>1. CASE AllStarted \/ Unwound
    BY <2>1 DEF TypeOK, AllStarted, Unwound, OwnerStates
  <2>2. CASE StartFails
    BY <2>2 DEF TypeOK, StartFails, OwnerStates
  <2>3. CASE Uninitialize
    BY <2>3 DEF TypeOK, Uninitialize, OwnerStates
  <2> QED
    BY <1>3, <2>1, <2>2, <2>3
<1>4. CASE Notify \/ NotifyEnd
  BY <1>4, NotifyOneWakes, NotifyAllWakes DEF TypeOK, Notify, NotifyEnd, OwnerStates
<1>5. CASE Join
  BY <1>5, EmptySeq DEF TypeOK, Join, OwnerStates
<1>6. ASSUME NEW w \in Workers, StartThread(w) PROVE TypeOK'
  BY <1>6 DEF TypeOK, StartThread, WorkerStates
<1>7. CASE Enparallel
  <2>1. Cardinality(In("none")) \in Nat
    BY FS_Subset, FS_CardinalityType, FiniteAssumption DEF In
  <2> QED
    BY <1>7, <2>1 DEF TypeOK, Enparallel, OwnerStates
<1>8. CASE Deparallel
  <2>1. Cardinality(Started) \in Nat
    BY FS_Subset, FS_CardinalityType, FiniteAssumption DEF Started
  <2> QED
    BY <1>8, <2>1 DEF TypeOK, Deparallel, OwnerStates
<1> QED
  BY <1>1, <1>2, <1>3, <1>4, <1>5, <1>6, <1>7, <1>8 DEF Next, Proceed

LEMMA OrderStep == IInv /\ Next => InOrderOnce'
<1> SUFFICES ASSUME IInv, Next, owner' # "gone" PROVE accepted' = begun' \o tasks'
  BY DEF InOrderOnce
<1>1. owner # "gone"
  BY DEF IInv, EndInv, Next, Consume, Retire, Take, LeaveOrSleep, Finish, SpuriousWake, In,
         Enqueue, Proceed, AllStarted, Unwound, Notify, NotifyEnd, Join, StartThread,
         StartFails, Enparallel, Deparallel, Uninitialize, Started
<1>2. accepted = begun \o tasks
  BY <1>1 DEF IInv, InOrderOnce
<1>3. ASSUME NEW w \in Workers, Take(w) PROVE accepted' = begun' \o tasks'
  BY <1>2, <1>3, MoveFirst DEF Take, IInv, TypeOK
<1>4. ASSUME NEW t \in Tasks, Enqueue(t) PROVE accepted' = begun' \o tasks'
  BY <1>2, <1>4, AppendBehind DEF Enqueue, IInv, TypeOK
<1>5. ASSUME UNCHANGED <<accepted, begun, tasks>> PROVE accepted' = begun' \o tasks'
  BY <1>2, <1>5
<1> QED
  BY <1>3, <1>4, <1>5
  DEF Next, Consume, Retire, LeaveOrSleep, Finish, SpuriousWake, Proceed, AllStarted, Unwound,
      Notify, NotifyEnd, Join, StartThread, StartFails, Enparallel, Deparallel, Uninitialize

LEMMA AwakeStep == IInv /\ Next => EnoughAwake'
<1> SUFFICES ASSUME IInv, Next PROVE EnoughAwake'
  OBVIOUS
<1> DEFINE n == Cardinality(In("awake"))
<1>0. /\ n \in Nat /\ n' \in Nat /\ Len(tasks) \in Nat /\ Len(tasks') \in Nat
      /\ requests \in Nat /\ requests' \in Nat /\ TypeOK /\ TypeOK'
  <2>1. TypeOK'
    BY TypeStep DEF IInv
  <2>2. IsFiniteSet(In("awake")')
    BY FS_Subset, FiniteAssumption DEF In
  <2> QED
    BY <2>1, <2>2, AwakeCount, LenProperties, FS_CardinalityType DEF IInv, TypeOK
<1>1. ASSUME NEW w \in Workers, Retire(w) PROVE EnoughAwake'
  <2>1. n' = n - 1 /\ In("asleep")' = In("asleep")
    BY <1>0, <1>1, AwakeShrinks DEF Retire, In, TypeOK
  <2> QED
    BY <2>1, <1>0, <1>1 DEF IInv, EnoughAwake, Unsent, Retire
<1>2. ASSUME NEW w \in Workers, Take(w) PROVE EnoughAwake'
  <2>1. n' = n - 1 /\ In("asleep")' = In("asleep")
    BY <1>0, <1>2, AwakeShrinks DEF Take, In, TypeOK
  <2>2. Len(tasks') = Len(tasks) - 1
    BY <1>0, <1>2, MoveFirst DEF Take, TypeOK
  <2> QED
    BY <2>1, <2>2, <1>0, <1>2 DEF IInv, EnoughAwake, Unsent, Take
<1>3. ASSUME NEW w \in Workers, LeaveOrSleep(w) PROVE EnoughAwake'
  <2>1. Len(tasks') = 0 /\ requests' = 0
    BY <1>3, EmptySeq DEF LeaveOrSleep
  <2> QED
    BY <2>1, <1>0 DEF EnoughAwake, Unsent
<1>4. ASSUME NEW w \in Workers, Finish(w) \/ SpuriousWake(w) \/ StartThread(w) PROVE EnoughAwake'
  <2>1. /\ n' = n + 1 /\ In("asleep")' \subseteq In("asleep")
        /\ UNCHANGED <<tasks, requests, owner>>
    BY <1>0, <1>4, AwakeGrows DEF Finish, SpuriousWake, StartThread, In, TypeOK
  <2> QED
    BY <2>1, <1>0 DEF IInv, EnoughAwake, Unsent
<1>5. ASSUME NotifyOne PROVE In("asleep")' = {} \/ (In("asleep") # {} /\ n' = n + 1)
  <2>1. CASE In("asleep") = {} /\ worker' = worker
    BY <2>1 DEF In
  <2>2. ASSUME NEW w \in Workers, worker[w] = "asleep", worker' = [worker EXCEPT ![w] = "awake"]
        PROVE In("asleep") # {} /\ n' = n + 1
    BY <2>2, <1>0, AwakeGrows DEF In
  <2> QED
    BY <2>1, <2>2, <1>0, <1>5, NotifyOneWakes
<1>6. ASSUME NEW t \in Tasks, Enqueue(t) PROVE EnoughAwake'
  <2>1. Len(tasks') = Len(tasks) + 1
    BY <1>0, <1>6, AppendBehind DEF Enqueue, TypeOK
  <2> QED
    BY <2>1, <1>0, <1>5, <1>6 DEF IInv, EnoughAwake, Unsent, Enqueue
<1>7. CASE Notify
  <2>1. CASE owner = "notifyOne" /\ NotifyOne
    BY <2>1, <1>0, <1>5, <1>7 DEF IInv, EnoughAwake, Unsent, Notify
  <2>2. CASE NotifyAll
    BY <2>2, <1>0, NotifyAllWakes DEF EnoughAwake
  <2> QED
    BY <2>1, <2>2, <1>7 DEF Notify
<1>8. CASE NotifyEnd
  BY <1>0, <1>8, NotifyAllWakes DEF NotifyEnd, EnoughAwake
<1>9. CASE Join
  BY <1>9 DEF Join, Started, In, EnoughAwake
<1>10. CASE Deparallel
  <2>1. Cardinality(Started) \in Nat
    BY FS_Subset, FS_CardinalityType, FiniteAssumption DEF Started
  <2>2. PICK count \in 1 .. Cardinality(Started) - requests :
            /\ requests' = requests + count
            /\ owner' = IF count > 1 THEN "notifyAll" ELSE "notifyOne"
    BY <1>10 DEF Deparallel
  <2>3. owner = "free" /\ UNCHANGED <<worker, tasks>>
    BY <1>10 DEF Deparallel
  <2> QED
    BY <2>1, <2>2, <2>3, <1>0 DEF IInv, EnoughAwake, Unsent, In
<1>11. CASE AllStarted \/ Unwound \/ StartFails \/ Enparallel \/ Uninitialize
  <2>1. UNCHANGED <<worker, tasks, requests>> /\ owner \notin {"notifyOne", "notifyAll"}
    BY <1>11 DEF AllStarted, Unwound, StartFails, Enparallel, Uninitialize
  <2> QED
    BY <2>1, <1>0 DEF IInv, EnoughAwake, Unsent, In
<1> QED
  BY <1>1, <1>2, <1>3, <1>4, <1>6, <1>7, <1>8, <1>9, <1>10, <1>11 DEF Next, Consume, Proceed

\* A thread that moves leaves one of the sets In(_) and enters another.
LEMMA Moves ==
    ASSUME TypeOK, NEW w \in Workers, NEW state, worker' = [worker EXCEPT ![w] = state]
    PROVE  /\ state = "left" => In("left")' = In("left") \cup {w}
           /\ state # "left" /\ worker[w] # "left" => In("left")' = In("left")
           /\ state # "asleep" => In("asleep")' \subseteq In("asleep")
           /\ state # "none" => Started' = Started \cup {w}
  BY DEF In, Started, TypeOK

LEMMA NotifyOneKeeps ==
    ASSUME TypeOK, NotifyOne
    PROVE  In("left")' = In("left") /\ Started' = Started /\ In("asleep")' \subseteq In("asleep")
<1>1. CASE worker' = worker
  BY <1>1 DEF In, Started
<1>2. ASSUME NEW w \in Workers, worker[w] = "asleep", worker' = [worker EXCEPT ![w] = "awake"]
      PROVE  In("left")' = In("left") /\ Started' = Started /\ In("asleep")' \subseteq In("asleep")
  <2>1. Started \cup {w} = Started
    BY <1>2 DEF In, Started
  <2>2. worker[w] # "left" /\ "awake" \notin {"left", "asleep", "none"}
    BY <1>2
  <2>3. In("left")' = In("left") /\ Started' = Started \cup {w}
    BY <1>2, <2>2, Moves
  <2>4. In("asleep")' \subseteq In("asleep")
    BY <1>2, <2>2, Moves
  <2> QED
    BY <2>1, <2>3, <2>4
<1> QED
  BY <1>1, <1>2, NotifyOneWakes

\* Once the pool is gone, no step changes what NothingLeft and EndInv speak of.
LEMMA GoneStays ==
    ASSUME IInv, Next, owner = "gone"
    PROVE  UNCHANGED <<requests, operational, worker, owner, accepted, begun, retired, tasks>>
<1>1. \A w \in Workers : worker[w] \in {"none", "left"}
  BY DEF IInv, EndInv, Started, In
<1>2. ASSUME NEW w \in Workers, Consume(w) \/ SpuriousWake(w) PROVE FALSE
  BY <1>1, <1>2 DEF Consume, Retire, Take, LeaveOrSleep, Finish, SpuriousWake
<1> QED
  BY <1>2 DEF Next, Proceed, Enqueue, AllStarted, Unwound, Notify, NotifyEnd, Join, StartThread,
              StartFails, Enparallel, Deparallel, Uninitialize

LEMMA EndStep == IInv /\ Next => EndInv' /\ NothingLeft'
<1> SUFFICES ASSUME IInv, Next, owner # "gone" PROVE EndInv' /\ NothingLeft'
  <2>1. CASE owner = "gone"
    BY <2>1, GoneStays DEF IInv, EndInv, NothingLeft, In, Started
  <2> QED
    BY <2>1
<1> USE DEF IInv, EndInv, NothingLeft
<1>1. TypeOK /\ accepted = begun \o tasks
  BY DEF InOrderOnce
<1>2. operational \in BOOLEAN /\ Len(tasks) \in Nat
  BY <1>1, LenProperties DEF TypeOK
<1>3. ASSUME NEW w \in Workers, Retire(w) PROVE EndInv' /\ NothingLeft'
  <2>1. In("left")' = In("left") \cup {w} /\ In("asleep")' \subseteq In("asleep")
    BY <1>1, <1>3, Moves DEF Retire
  <2> QED
    BY <2>1, <1>1, <1>3 DEF Retire, TypeOK
<1>4. ASSUME NEW w \in Workers, Take(w) PROVE EndInv' /\ NothingLeft'
  <2>1. worker[w] # "left" /\ "busy" \notin {"left", "asleep", "none"}
    BY <1>4 DEF Take
  <2>2. In("left")' = In("left") /\ In("asleep")' \subseteq In("asleep")
    BY <2>1, <1>1, <1>4, Moves DEF Take
  <2>3. owner \notin {"initialize", "unwind"}
    <3>1. Len(accepted) = Len(begun) + Len(tasks) /\ Len(tasks) # 0
      BY <1>1, <1>4, ConcatProperties, EmptySeq DEF Take, TypeOK
    <3>2. Len(begun) \in Nat /\ Len(<< >>) = 0
      BY <1>1, LenProperties, EmptySeq DEF TypeOK
    <3> QED
      BY <3>1, <3>2, <1>2
  <2> QED
    BY <2>2, <2>3, <1>1, <1>4 DEF Take
<1>5. ASSUME NEW w \in Workers, LeaveOrSleep(w) PROVE EndInv' /\ NothingLeft'
  <2>2. CASE operational
    <3>1. In("left")' = In("left")
      BY <2>2, <1>1, <1>5, Moves DEF LeaveOrSleep
    <3> QED
      BY <3>1, <2>2, <1>1, <1>5 DEF LeaveOrSleep
  <2>3. CASE ~operational
    <3>1. In("left")' = In("left") \cup {w} /\ In("asleep")' \subseteq In("asleep")
      BY <2>3, <1>1, <1>5, Moves DEF LeaveOrSleep
    <3> QED
      BY <3>1, <2>3, <1>1, <1>5 DEF LeaveOrSleep
  <2> QED
    BY <2>2, <2>3
<1>6. ASSUME NEW w \in Workers, Finish(w) \/ SpuriousWake(w) \/ StartThread(w)
      PROVE  EndInv' /\ NothingLeft'
  <2>1. /\ worker[w] # "left" /\ worker' = [worker EXCEPT ![w] = "awake"]
        /\ "awake" \notin {"left", "asleep", "none"}
    BY <1>6 DEF Finish, SpuriousWake, StartThread
  <2>2. In("left")' = In("left") /\ In("asleep")' \subseteq In("asleep")
    BY <2>1, <1>1, Moves
  <2>3. UNCHANGED <<requests, operational, tasks, owner, accepted, begun, retired>>
    BY <1>6 DEF Finish, SpuriousWake, StartThread
  <2> QED
    BY <2>2, <2>3, <1>1
<1>7. ASSUME NEW t \in Tasks, Enqueue(t) PROVE EndInv' /\ NothingLeft'
  BY <1>1, <1>7, NotifyOneKeeps DEF Enqueue
<1>8. CASE Notify \/ NotifyEnd
  <2>1. In("left")' = In("left") /\ (NotifyEnd => In("asleep")' = {})
    BY <1>1, <1>8, NotifyOneKeeps, NotifyAllWakes DEF Notify, NotifyEnd
  <2> QED
    BY <2>1, <1>1, <1>8 DEF Notify, NotifyEnd
<1>9. CASE Unwound
  <2>1. accepted = begun /\ In("left")' = In("left") /\ Started' = Started
    BY <1>9 DEF Unwound, In, Started
  <2> QED
    BY <2>1, <1>9 DEF Unwound
<1>10. CASE Join
  <2>1. In("left")' = In("left") /\ Started' = Started
    BY <1>10 DEF Join, In, Started
  <2>2. In("left") # retired => accepted = begun
    BY <1>1, ConcatEmptySeq DEF TypeOK
  <2> QED
    BY <2>1, <2>2, <1>10 DEF Join
<1>11. CASE AllStarted \/ StartFails \/ Enparallel \/ Deparallel \/ Uninitialize
  <2>1. /\ UNCHANGED <<worker, tasks, accepted, begun, retired>>
        /\ owner \notin {"uninitialize", "join"} /\ owner' \notin {"join", "gone"}
        /\ owner' = "uninitialize" <=> Uninitialize
        /\ owner' \in {"initialize", "unwind"} => owner = "initialize" /\ requests' = requests
        /\ operational' = IF Uninitialize THEN FALSE ELSE operational
    BY <1>11 DEF AllStarted, StartFails, Enparallel, Deparallel, Uninitialize
  <2>2. In("left")' = In("left")
    BY <2>1 DEF In
  <2>4. CASE Uninitialize
    BY <2>1, <2>2, <2>4, <1>1 DEF Uninitialize
  <2>5. CASE ~Uninitialize
    BY <2>1, <2>2, <2>5, <1>1
  <2> QED
    BY <2>4, <2>5
<1> QED
  BY <1>3, <1>4, <1>5, <1>6, <1>7, <1>8, <1>9, <1>10, <1>11 DEF Next, Consume, Proceed
-----------------------------------------------------------------------------
\* For any number of threads and tasks, every invariant of the pool holds.
THEOREM Invariance == Spec => []IInv
<1>1. IInv /\ [Next]_vars => IInv'
  <2>1. CASE Next
    BY <2>1, TypeStep, OrderStep, AwakeStep, EndStep DEF IInv
  <2>2. CASE UNCHANGED vars
    BY <2>2 DEF vars, IInv, TypeOK, InOrderOnce, EnoughAwake, Unsent, NothingLeft, EndInv,
                In, Started
  <2> QED
    BY <2>1, <2>2
<1> QED
  BY <1>1, Begins, PTL DEF Spec

\* taskConsumer_ waits without a predicate, and no notification is wasted by it.
THEOREM NoWakeupLost == Spec => []EnoughAwake
<1>1. IInv => EnoughAwake
  BY DEF IInv
<1> QED
  BY <1>1, Invariance, PTL

\* uninitialize drops no accepted task while a thread could still take it.
THEOREM NoTaskDropped == Spec => []NothingLeft
<1>1. IInv => NothingLeft
  BY DEF IInv
<1> QED
  BY <1>1, Invariance, PTL
=============================================================================
