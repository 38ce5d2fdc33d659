------------------------------ MODULE ThreadPool ------------------------------
(***************************************************************************)
(* dcool::concurrency::ThreadPool (thread_pool.hpp): consumer threads that *)
(* take tasks from one queue.  Each round of taskConsumer_ is one critical *)
(* section of m_mutex_: serve a request to leave, take a task, leave a     *)
(* pool that is no longer operational, or wait, without a predicate, on    *)
(* m_blocker_.  Tasks run, and threads are started and joined, outside it. *)
(* enqueTask notifies under the mutex, deparallel and uninitialize after   *)
(* they released it.                                                       *)
(*                                                                         *)
(* One thread owns the pool: it constructs and destroys it and is the only *)
(* one to call enparallel and deparallel, which touch m_threads_ without   *)
(* the mutex.  Every thread, a running task included, may call enqueTask.  *)
(* An enqueTask that throws, because its task cannot be constructed or the *)
(* pool is not operational, changes nothing.                               *)
(***************************************************************************)
EXTENDS Naturals, Sequences, FiniteSets

CONSTANTS
    Workers,     \* the consumer threads that may ever be started
    Tasks        \* the tasks, each enqueued once

ASSUME FiniteAssumption == IsFiniteSet(Workers) /\ IsFiniteSet(Tasks)

VARIABLES
    requests,      \* m_deparallelRequestCount_
    operational,   \* m_operational_
    tasks,         \* m_tasks_
    worker,        \* worker[w]: where thread w is, see WorkerStates
    owner,         \* where the owner of the pool is, see OwnerStates
    toStart,       \* count_ of enparallel: the threads still to be started
    accepted,      \* history: the tasks that enqueTask took, in order
    begun,         \* history: the tasks that were begun, in order
    retired        \* history: the threads that left on a request

vars == <<requests, operational, tasks, worker, owner, toStart, accepted, begun, retired>>

\* "awake" is about to start a round of taskConsumer_, "asleep" is in wait.
WorkerStates == {"none", "awake", "asleep", "busy", "left"}
OwnerStates  == {"initialize", "unwind", "free", "enparallel", "notifyOne",
                 "notifyAll", "uninitialize", "join", "gone"}

In(state) == {w \in Workers : worker[w] = state}
Started   == Workers \ In("none")

Init ==
    /\ requests = 0 /\ operational = TRUE /\ tasks = << >>
    /\ worker = [w \in Workers |-> "none"]
    /\ owner = "initialize" /\ toStart \in 0 .. Cardinality(Workers)
    /\ accepted = << >> /\ begun = << >> /\ retired = {}
-----------------------------------------------------------------------------
(***************************************************************************)
(* taskConsumer_                                                           *)
(***************************************************************************)
Retire(w) ==
    /\ worker[w] = "awake" /\ requests > 0
    /\ requests' = requests - 1
    /\ worker' = [worker EXCEPT ![w] = "left"] /\ retired' = retired \cup {w}
    /\ UNCHANGED <<operational, tasks, owner, toStart, accepted, begun>>

\* Mutant of Take: the newest task is taken first.
TakeLast(w) ==
    /\ worker[w] = "awake" /\ requests = 0 /\ tasks # << >>
    /\ tasks' = SubSeq(tasks, 1, Len(tasks) - 1) /\ begun' = Append(begun, tasks[Len(tasks)])
    /\ worker' = [worker EXCEPT ![w] = "busy"]
    /\ UNCHANGED <<requests, operational, owner, toStart, accepted, retired>>

Take(w) ==
    /\ worker[w] = "awake" /\ requests = 0 /\ tasks # << >>
    /\ tasks' = Tail(tasks) /\ begun' = Append(begun, Head(tasks))
    /\ worker' = [worker EXCEPT ![w] = "busy"]
    /\ UNCHANGED <<requests, operational, owner, toStart, accepted, retired>>

\* Mutant of LeaveOrSleep: a pool that is not operational is left at once.
LeaveAtOnce(w) ==
    /\ worker[w] = "awake" /\ requests = 0 /\ (operational => tasks = << >>)
    /\ worker' = [worker EXCEPT ![w] = IF operational THEN "asleep" ELSE "left"]
    /\ UNCHANGED <<requests, operational, tasks, owner, toStart, accepted, begun, retired>>

LeaveOrSleep(w) ==
    /\ worker[w] = "awake" /\ requests = 0 /\ tasks = << >>
    /\ worker' = [worker EXCEPT ![w] = IF operational THEN "asleep" ELSE "left"]
    /\ UNCHANGED <<requests, operational, tasks, owner, toStart, accepted, begun, retired>>

\* The task returns (it is noexcept) and is destroyed.
Finish(w) ==
    /\ worker[w] = "busy"
    /\ worker' = [worker EXCEPT ![w] = "awake"]
    /\ UNCHANGED <<requests, operational, tasks, owner, toStart, accepted, begun, retired>>

\* std::condition_variable::wait may return without a notification.
SpuriousWake(w) ==
    /\ worker[w] = "asleep"
    /\ worker' = [worker EXCEPT ![w] = "awake"]
    /\ UNCHANGED <<requests, operational, tasks, owner, toStart, accepted, begun, retired>>

Wake(woken) == worker' = [w \in Workers |-> IF w \in woken THEN "awake" ELSE worker[w]]
NotifyOne   == IF In("asleep") = {} THEN Wake({}) ELSE \E w \in In("asleep") : Wake({w})
NotifyAll   == Wake(In("asleep"))
-----------------------------------------------------------------------------
\* Mutant of Enqueue: nobody is notified.
EnqueueQuietly(t) ==
    /\ owner \notin {"initialize", "unwind", "gone"} /\ operational
    /\ t \notin {accepted[i] : i \in DOMAIN accepted}
    /\ tasks' = Append(tasks, t) /\ accepted' = Append(accepted, t)
    /\ UNCHANGED <<requests, operational, worker, owner, toStart, begun, retired>>

Enqueue(t) ==
    /\ owner \notin {"initialize", "unwind", "gone"} /\ operational
    /\ t \notin {accepted[i] : i \in DOMAIN accepted}
    /\ tasks' = Append(tasks, t) /\ accepted' = Append(accepted, t)
    /\ NotifyOne
    /\ UNCHANGED <<requests, operational, owner, toStart, begun, retired>>

\* initialize and enparallel start their threads one by one.
StartThread(w) ==
    /\ owner \in {"initialize", "enparallel"} /\ toStart > 0 /\ worker[w] = "none"
    /\ worker' = [worker EXCEPT ![w] = "awake"]
    /\ toStart' = toStart - 1
    /\ UNCHANGED <<requests, operational, tasks, owner, accepted, begun, retired>>
AllStarted ==
    /\ owner \in {"initialize", "enparallel"} /\ toStart = 0
    /\ owner' = "free"
    /\ UNCHANGED <<requests, operational, tasks, worker, toStart, accepted, begun, retired>>

\* A thread cannot be started: enparallel throws, leaving those it started; the
\* initialize that called it destroys m_tasks_ and joins them, m_operational_
\* still being true.
StartFails ==
    /\ owner \in {"initialize", "enparallel"} /\ toStart > 0
    /\ toStart' = 0
    /\ owner' = IF owner = "initialize" THEN "unwind" ELSE "free"
    /\ UNCHANGED <<requests, operational, tasks, worker, accepted, begun, retired>>
Unwound ==
    /\ owner = "unwind" /\ Started = In("left")
    /\ owner' = "gone"
    /\ UNCHANGED <<requests, operational, tasks, worker, toStart, accepted, begun, retired>>

Enparallel ==
    /\ owner = "free" /\ toStart' \in 1 .. Cardinality(In("none"))
    /\ owner' = "enparallel"
    /\ UNCHANGED <<requests, operational, tasks, worker, accepted, begun, retired>>

\* Mutant of Deparallel: one thread is notified, however many shall leave.
DeparallelOne ==
    /\ owner = "free"
    /\ \E count \in 1 .. Cardinality(Started) - requests : requests' = requests + count
    /\ owner' = "notifyOne"
    /\ UNCHANGED <<operational, tasks, worker, toStart, accepted, begun, retired>>

\* The assertion of deparallel counts the threads in m_threads_, from which
\* those that left are never removed.
Deparallel ==
    /\ owner = "free"
    /\ \E count \in 1 .. Cardinality(Started) - requests :
          /\ requests' = requests + count
          /\ owner' = IF count > 1 THEN "notifyAll" ELSE "notifyOne"
    /\ UNCHANGED <<operational, tasks, worker, toStart, accepted, begun, retired>>
Notify ==
    /\ \/ owner = "notifyOne" /\ NotifyOne
       \/ owner = "notifyAll" /\ NotifyAll
    /\ owner' = "free"
    /\ UNCHANGED <<requests, operational, tasks, toStart, accepted, begun, retired>>

Uninitialize ==
    /\ owner = "free"
    /\ operational' = FALSE /\ owner' = "uninitialize"
    /\ UNCHANGED <<requests, tasks, worker, toStart, accepted, begun, retired>>
\* Mutant of NotifyEnd: one thread is notified of the end.
NotifyEndOne ==
    /\ owner = "uninitialize" /\ NotifyOne
    /\ owner' = "join"
    /\ UNCHANGED <<requests, operational, tasks, toStart, accepted, begun, retired>>

NotifyEnd ==
    /\ owner = "uninitialize" /\ NotifyAll
    /\ owner' = "join"
    /\ UNCHANGED <<requests, operational, tasks, toStart, accepted, begun, retired>>

\* The threads are joined; then the tasks that are left are destroyed.
Join ==
    /\ owner = "join" /\ Started = In("left")
    /\ tasks' = << >> /\ owner' = "gone"
    /\ UNCHANGED <<requests, operational, worker, toStart, accepted, begun, retired>>
-----------------------------------------------------------------------------
Consume(w) == Retire(w) \/ Take(w) \/ LeaveOrSleep(w) \/ Finish(w)
Proceed    == \/ AllStarted \/ Unwound \/ Notify \/ NotifyEnd \/ Join
              \/ \E w \in Workers : StartThread(w)

Next ==
    \/ \E w \in Workers : Consume(w) \/ SpuriousWake(w)
    \/ \E t \in Tasks : Enqueue(t)
    \/ Proceed \/ StartFails \/ Enparallel \/ Deparallel \/ Uninitialize

Spec == Init /\ [][Next]_vars

\* Threads run, tasks end, and a call of the owner that was begun goes on.
FairSpec == Spec /\ WF_vars(Proceed) /\ \A w \in Workers : WF_vars(Consume(w))
-----------------------------------------------------------------------------
TypeOK ==
    /\ requests \in Nat /\ operational \in BOOLEAN
    /\ tasks \in Seq(Tasks) /\ accepted \in Seq(Tasks) /\ begun \in Seq(Tasks)
    /\ worker \in [Workers -> WorkerStates] /\ owner \in OwnerStates
    /\ toStart \in Nat /\ retired \subseteq Workers

\* Every task that was accepted waits or was begun, once, and tasks are begun
\* in the order in which they were accepted.
InOrderOnce == owner # "gone" => accepted = begun \o tasks

\* No lost wakeup: while a consumer sleeps, at least as many consumers are
\* about to start a round as there are tasks and requests to take up, counting
\* the notification that deparallel is about to send.
Unsent == IF owner = "notifyOne" THEN 1 ELSE 0
EnoughAwake ==
    In("asleep") # {} /\ owner # "notifyAll" =>
        Cardinality(In("awake")) + Unsent >= Len(tasks) + requests

\* The destructor leaves no task behind: when the pool is gone every accepted
\* task was begun, and has ended, unless every thread that was ever started had
\* been told to leave by deparallel.
NothingLeft ==
    owner = "gone" /\ begun # accepted => Started = retired

\* What ties the end of the pool to its threads.
EndInv ==
    /\ In("left") # {} /\ operational => In("left") = retired
    /\ retired \subseteq In("left")
    /\ owner \in {"initialize", "unwind"} => accepted = << >> /\ begun = << >> /\ requests = 0
    /\ owner \in {"uninitialize", "join"} <=> ~operational /\ owner # "gone"
    /\ owner = "gone" => Started = In("left")
    /\ In("left") # retired => tasks = << >>
    /\ owner = "join" => In("asleep") = {}

IInv == TypeOK /\ InOrderOnce /\ EnoughAwake /\ NothingLeft /\ EndInv

\* A task in the queue is begun, as long as the pool has a consumer left.
Live == Workers \ (In("none") \cup In("left"))
EachTaskTaken == \A t \in Tasks :
    (\E i \in DOMAIN tasks : tasks[i] = t) ~>
        (\E i \in DOMAIN begun : begun[i] = t) \/ Live = {}

\* The destructor returns: every consumer hears that the pool has ended.
DestructorReturns == owner = "uninitialize" ~> owner = "gone"
=============================================================================
