# A verification project for dcool

dcool is a C++20 library of containers, resources, concurrency primitives and coroutines, almost
all of it header-only templates.  This directory holds TLA+ models of its concurrent parts and of its
containers, the TLC configurations that check them on small instances, and theorems about them that TLAPS proves
for instances of any size.  `PROJECT.json` says, definition by definition, which lines of the
source each model stands for.

## Running it

    tlc -workers 2 -config MCFlexiblePrefer.cfg MCFlexibleMutex     (and so on, see the table of runs)
    tlapm FlexibleMutexProofs.tla                                   (and MutexLedger, and the other six modules named ...Proofs)

## The system: an inventory

Paths are below `src/include/dcool`, unless they start with `source/`.

| Component | State it keeps | Operations | What is hard about it |
|---|---|---|---|
| Atom (`concurrency/atom.hpp`, `atom_basic.hpp`) | a value, and a stamp that counts its updates; a std::atomic, a std::atomic_ref, or a mutex with a condition variable | load, store, exchange, comparisons, transformations, tasks with hints, arithmetic, waits, notifications | loops over a stale value; a wait that misses its notification; a wrong answer of one build |
| Mutex (`concurrency/mutex.hpp`) | one counter that encodes shares, an order and exclusive ownership; two condition variables, or the counter alone | lock, lockShared, orderLock, upgrade, downgrade, completeLockOrder, cancelLockOrder, their try and timed forms | which waiter a notification reaches; what a deadline leaves behind; the width of the counter |
| Locker (`concurrency/mutex.hpp`) | what its thread owns | forwards to Mutex and moves its status | keeping in step with the counter |
| Latch, Semaphore (`concurrency/latch.hpp`, `semaphore.hpp`) | a counter and a condition variable, or an atomic | countDown, wait, arriveAndWait; release, acquire | notify_one to waiters with different needs |
| ThreadPool (`concurrency/thread_pool.hpp`) | a queue of tasks, a count of requests to leave, a flag, the threads | enqueTask, enparallel, deparallel, destruction | a wait without a predicate; tasks left at the end |
| AsyncMutex (`coroutine/async_mutex.hpp`, `source/coroutine/async_mutex.cpp`) | a linked list through the frames of the coroutines that wait | tryLock, co_await lockAsync, unlock | resumption during await_suspend; pointers that are not initialised |
| Task, syncWait, Generator (`coroutine/`) | a coroutine frame, the handle of who awaits it | co_await, resume, destroy | who destroys a frame that still runs |
| OnceInvoker (`service/once_invoker.hpp`) | a flag, a mutex or a busy status | invoke, done | double checking, memory order, a call that throws |
| Sealer (`service/sealer.hpp`), copy on write (`utility/cow.hpp`) | a value and a mutex | emplace, runTransaction, runObserver | replacing a value whose construction may fail |
| QuickTimer (`service/timer.hpp`) | a thread, a stop token, a condition variable | start, stop, waitUntilDone | stop notifies without the mutex |
| Shared pointers (`resource/shared.hpp`, `core/counter.hpp`) | strong and weak counts | record, unrecord, lock | destruction that races revival |
| Pools, free lists (`resource/`) | blocks and a list of the free ones | allocate, deallocate | a block given out twice |
| List, Linked, String (`container/`) | storage, length; nodes and their links | insertion, erasure, growth | roll-back of a failed construction |
| Function, Any, Variant, Optional (`utility/`, `core/`) | one value of a type known at run time | assign, move, swap, destroy | what is held after a failure |
| Integers, layout, binary data, ranges, compile-time machinery, console, test framework | none, or sequential | | |

How they interact: Mutex (its spinning build) and OnceInvoker keep their state in an Atom, Semaphore,
Latch and the counters of the shared pointers in a std::atomic.  AsyncMutex, Sealer, OnceInvoker and the shared pointers use Mutex (or the
MinimalMutex chosen by configuration) for their critical sections.  ThreadPool uses std::mutex and
std::condition_variable directly, a List for its threads, a Linked for its tasks and Function for
a task.  Pools and engines are passed by reference into every `Chassis`, so that an owner and its
chassis share state through calls only.  Callbacks: a task of the pool may enqueue tasks; unlock of
an AsyncMutex runs the next coroutine on its own stack; an observer of a Sealer runs under its lock.

`PROJECT.json` lists every component with its status, and under `hazards` what in this code is hard
to test, each at the line where it bites, with the properties that watch it.

## The modules

### Mutex

`SharedMutexContract` is the abstract specification: what each thread owns (the `Status` of its
`Locker`) and which changes of ownership a call may make.  No counter, no waiting.

`MutexState` holds what the two implementations share: `statusCount` (statusCount_), `own` (the
status of each Locker), `pc` (the call a thread is inside of), the conditions of the waits
(`Admits`), the documented preconditions of the calls that wait, the invariants, and the refinement
mapping `Stand`, under which a thread that has placed the order of its `lock` or `upgrade` counts as
one that ordered.

`FlexibleMutex` is the build with a std::mutex and two condition variables (FlexibleUnderlying_).
Every critical section is one action; going to sleep is another (`Sleep`); and the notifications of
unlock, unlockShared, downgrade and the cancels are actions of their own, since the code sends them
after it has released the mutex and every other thread may move in between.  notify_one chooses any
sleeper; a sleeper may wake without a notification.  `blocker` and `shareBlocker` are the sets of
sleepers.

`TimedFlexibleMutex` adds the calls with a deadline.  A deadline may pass at any time, but a call
that gives up evaluates its predicate once more, as wait_until does.

`SpinMutex` is the busy-waiting build (SpinnableUnderlying_): every change of the counter is one
atomic step, a failed attempt is a stuttering step, and a spin is a step that is not enabled yet.
upgrade and orderUpgrade retry while the count is exclusive_ and assert that it is not above it: a
thread that finds it above goes to "aborted", and nothing moves any more (`Running`).  Without
assertions the header does not compile (see Divergences), so that there is no other build to model.
`FlexibleMutex` leaves the same assertion of its upgrade (mutex.hpp:1123) out: what it shows is what
the calls do where that assertion does not stop them.

`MutexLedger`, `FlexibleMutexProofs` and `SpinMutexProofs` hold the proofs; `MCFlexibleMutex`, `MCTimedFlexibleMutex`
and `MCSpinMutex` the instances for TLC.

### AsyncMutex

`FifoLock` is the abstract specification: an owner and a queue.  `AsyncMutex` has the code's
pointers: `latestEnqued`, `nextInQueue` and `next[c]`, the last two with arbitrary values at first,
since the code does not initialise them.  tryLock, lockOrQueue and unlock are critical sections;
between the failed tryLock of await_ready and lockOrQueue, and between the critical section of unlock
and the resumption, every other coroutine may move.  A resumed coroutine runs on the stack of the one
that resumed it (`toResume`, the state "below").  It is in the queue before its await_suspend has
returned, so that it may be resumed, unlock and come again while the stack it was suspended on is still
on the way out of that call: the coroutine below goes on ("returning", `ComeBack`) only in a step of
its own.  `queue` is a history variable; the actions never read it.

### ThreadPool

`ThreadPool` models the consumers (taskConsumer_, one critical section per round), enqueTask (which
notifies under the mutex), deparallel and uninitialize (which notify after they released it),
enparallel, and the failure to start a thread in enparallel or in the constructor.  One thread owns
the pool, because enparallel and deparallel use m_threads_ without the mutex; enqueTask may be called
by every thread, a running task included.  `accepted`, `begun` and `retired` are history variables.

### OnceInvoker

`OnceContract` is what document/service/once_invoker.md promises: calls that run the function follow each
other, each with the effects of those before it visible; all but the last throw; the rest are passive and see
everything.  `OnceInvoker` has the strategies "regular" and "busy".  It is the one module where memory orders
matter, so the flag is its modification order: a load returns any value not older than the newest one the
caller has seen, an acquire takes over what the writer of the value saw, the mutex hands over what its last
owner saw (`passed`).  `view` is what a caller has seen; `ended` counts the functions that have ended.

### QuickTimer

`QuickTimer` models the performer thread step by step (it looks at the stop token, sleeps, wakes for one of
three reasons, looks again, acts), its owner in stop, waitUntilDone and the destructor, a clock, and actions
that end, ask to be repeated or ask for a reset.  stop takes no mutex: in the quick build its notification can
fall between the look and the sleep, and then the performer ends at its deadline only, as it always does in the
minimal build.  The actions may ask for one more for ever.  The clock is exact up to `Horizon`, where it means
"then or later": the performer goes on beyond it, so that nothing but a stop or the answer of an action ends a
timer.  `begun` (which counts up to Horizon) and `late` count the actions that have begun, and those after a stop.
`MCServices` explores either an OnceInvoker or a QuickTimer, as its initial state says.

### Atom and the shared pointers

`AtomCalls` gives the calls of an Atom one form: a rule says what becomes of each value (write this, stop, look
again, look again after a change).  `AtomContract` is what document/concurrency/atom.md promises: a call takes
effect at one instant and answers with the value (and stamp) of that instant.  `Atom` is the code: one action
Begin... for each family of calls says in which builds and forms it compiles and with which step it starts; over a
std::atomic or a std::atomic_ref a call is a loop in which every load, compare_exchange_weak, comparison and
sleep of a wait is a step of its own; under a mutex it is a critical section.  The constant `OnlyConforming`
leaves out the calls that answer otherwise than the document says (see Divergences).  `Programs` says which
thread makes which calls on which builds.

`SharedReferences` is the life of one agent: strong pointers are wrapped, copied, assigned, moved and dropped by
their threads, a pointer is locked out of a borrowed one (a load and a loop of compare-exchanges), and who drops
the last destroys the value, then the agent.  `MCAtom` explores either.

### Containers

`List` has the arrays of container/list.hpp slot by slot: every relocation, construction and destruction is made
in the order of the code, and the list is plain, static, small, stuffed or circular.  A constructor that throws in
a new array leaves everything as it was (a step that changes nothing); one that throws in place leaves the list one
item too long.  `OnlySound`, which all runs and theorems assume, leaves out the latter and the other calls that
lose items: ranges of a ring that inPlaceErase_ gets wrong (`PopsTheErased` tells which it gets right), and popFront
of a range.  The swaps of two inside lists that never end have no step (`SwapEndsWell`).  See Divergences.
`Linked` has the rings of container/linked.hpp over `ConcretePool`, whose chain of free units lies in the same
storage as the links of a node.  Copying and destroying a list take a step per item.  `LinkedContract` is what
document/container/linked.md promises: a list is a sequence of items with positions that stay valid, a call
returns the position next to what it did, a copy holds the items of its source or, when it fails, gives
everything back.  `MCContainers` explores either.

### Semaphore and Latch

latch.hpp and semaphore.hpp wait in the same way, and so share `CountWaiting`: a count under a mutex with a
condition variable, or a std::atomic with wait and notify; the sleepers; the notifications, which both send
after the count has changed and the mutex is free; and what a call does at its deadline.  `Semaphore` and
`Latch` add the calls.  A critical section is one action; in the atomic build a load and the
compare_exchange_weak that follows are two.  A call that ends forgets its locals (`Forget`).
`CountContract` is what both promise, and `MCCountWaiting` explores the one or the other, as its initial
state says.  `Mixes` lists the sets of amounts that the acquisitions of one semaphore ask for.  tryAcquireFor
asks for one permit whatever it is given (semaphore.hpp:155), so that it mixes amounts unless the others ask for one
too: it is in the model where they do.

## What the runs check

All runs end without an error except the two marked as violations; states are distinct states.

| Run | Instance | Checked | States |
|---|---|---|---|
| MCFlexiblePrefer | 4 interchangeable threads, maxShare 3, exclusives preferred, upgrades and downgrades | the inductive invariant IInv, MutualExclusion, CountFits, SharersNoticed, OrderBlocksReaders, and that FlexibleMutex implements SharedMutexContract | 12856 |
| MCFlexibleLive | 3 threads, maxShare 4, at most one thread at a time in a call that waits on blocker_ | NoLostWakeup, OrderCompletes, ReadersAdmitted | 4514 |
| MCTimedFlexible | 4 threads, maxShare 2, no preference, deadlines | CountInv, the contract | 5261 |
| MCSpin | 3 threads, maxShare 2, exclusives preferred, deadlines, upgrades as mutex.md asks for them | CountInv, AssertionsHold, the contract, OrderCompletes | 2484 |
| MCSpinUpgrade (violation) | as MCSpin | UpgradeAssertionHolds | |
| MCFlexibleLostLock (violation) | as MCFlexibleLive, any number of waiters, no upgrades | NoLostWakeup | |
| AsyncMutex | 3 coroutines | AsyncInv, FifoLock, EachResumed | 43354 |
| ThreadPool | 3 threads, 2 tasks | IInv, EnoughAwake, NothingLeft, EachTaskTaken, DestructorReturns | 12819 |
| MCServices | OnceInvoker: 3 callers, both strategies, 2 functions that throw; QuickTimer: both builds, a period of 2 ticks, 9 ticks | IInv, that OnceInvoker implements OnceContract, EachCallReturns; TimerInv, TimerStops | 18359 |
| MCAtom | 3 threads, values of 2 bits, stamps of 1 bit, all builds; 3 strong pointers | StampCountsUpdates, that Atom implements AtomContract, WaitersReturn; LastOneDestroys | 122268 |
| MCContainers | 2 lists, 2 interchangeable values, 5 configurations of arrays of at most 4 slots; a pool of 5 units, both directions | ItemsInPlace, ActsAsSequence; LinksAgree, EachUnitOnce, that Linked implements LinkedContract | 122920 |
| MCCountWaiting | 3 threads, both builds, at most 4 permits that all ask for 1 or all for 2, latches of 1 and 3 | NoWakeupLost, that both implement CountContract, NobodyForgotten | 99345 |

Each property has a mutant in the module it is about: a definition next to the true one, with the
comment "Mutant of ...", that changes the code the way a plausible bug would, and under which TLC
finds the property violated.

Why the bounds are enough.  Every rule of Mutex compares the counter with 0, 1, exclusive_ - 1 and
exclusive_; three threads make each comparison fall both ways, a fourth lets a thread overtake two
others that are at odds, and a maxShare below the number of threads makes the mutex full.  In
MCFlexibleLive it is above it, so that no thread sleeps for want of room only.  Three coroutines give
the list of AsyncMutex an inner element; three consumers allow one to be busy, one asleep and one on
its way to sleep, and two tasks suffice to confuse their order or to waste a notification.  Four permits let
two threads take two each; three arrivals are the fewest of which one is neither the first nor the last.  The counters
of these models are bounded by the number of threads, tasks or coroutines, and by nothing else.  MCSpin does not
check for deadlock: two orderUpgrade on a full mutex spin for good, and the assertion of upgrade stops the program.  `MaxThrows`
bounds the functions that throw under OnceInvoker: two of them follow each other before one returns.  Without
a bound a caller could be overtaken for ever, in the code too.
A period of two ticks separates a performer that wakes early, in time and too late, and nine ticks let it fall
behind by more than one period and catch up; after them the timer goes on, with a clock that shows the last tick.  In MCAtom two bits give every operation a carry, a wrap and a
value it leaves alone; a stamp of one bit wraps after two of the three updates that `MaxUpdates` allows; a third
thread can write between the two that race.  Three pointers are the last, the one before it, and one that locks.
Arrays of four slots make a ring wrap while it holds items on both sides of the wrap, and let an array grow
twice; two lists on five units, two of them sentries, leave three nodes: a neighbour on either side, and a pool
that is exhausted by a copy half way.

Preconditions.  The callers of Mutex keep what document/concurrency/mutex.md and the assertions ask
for: a thread calls lock or lockShared only while it owns nothing, upgrades only when no other thread
has an order, and so on.  `UpgradeIsolated` tells how closely they keep the last one.  Without it the
assertion of upgrade and orderUpgrade can fail (MCSpinUpgrade), as described below.  With TRUE the
callers keep more than the document asks: that is how MCTimedFlexible and the two instances of
NoLostWakeup run.  MCFlexiblePrefer and both instances of SpinMutex have FALSE.

Fairness.  The scheduler runs every thread that is able to run (weak fairness of what a thread does
inside a call), and owners give back what they own (weak fairness of unlock and its like); nothing is
assumed of which sleeper notify_one chooses, of spurious wakeups, or of threads that begin a call.
For AsyncMutex: the owner unlocks, await_suspend goes on, and unlock resumes.  For ThreadPool: consumers
run, tasks end, and a call the owner has begun goes on.  For Semaphore and Latch: threads
go on with their calls, and a compare_exchange_weak that is tried again and again while it could succeed does
(strong fairness).  For Atom: threads go on with
the calls they are inside of (weak fairness), not with compare-exchanges that others make fail for ever.  For
QuickTimer: the performer runs, its actions end, the destructor and the joins go on, and the clock does; nothing
says that the timer is ever stopped, or woken unasked.  For OnceInvoker: callers run, functions end, and a
caller that goes on reading an atomic reads its newest value at last, which C++ asks of implementations.

## What is proved

`FlexibleMutexProofs`, for every finite set of threads, every maxShare and every combination of the
flags, from the assumptions of MutexState only: `IInv` is an invariant, and from it mutual exclusion,
one order at a time, the bound of the counter, that an order keeps new readers out, and that
FlexibleMutex implements SharedMutexContract.  The argument: MutualExclusion is not inductive, since
what a call finds out from statusCount says nothing of the threads unless the count is consistent with
what they own.  IInv adds exactly that (`Consistent`: the count is the number of shares plus the weight
of the one order or exclusive owner), and what a thread inside a call owns (`CallInv`), which tells by
how much the count is about to change.  `MutexLedger` proves, once, for each kind of change a call makes,
that the test on the count is enough; the proof of each action cites one of its lemmas.

Three theorems of the same module are about wakeups, and between them say where they are not lost.

`SharersReached`: with a maxShare above 1 and at most maxShare + 1 threads (`Spacious`), in every configuration and any mix of calls, the
mutex full or not, readers that sleep on a mutex that has room are being woken (`SharersNoticed`).  The count need
not be known for this: it is enough that when a full mutex is left, the one who leaves it notifies shareBlocker_ before
anything else, and that at most one thread can be asleep there for want of room.  With maxShare + 2 threads it does
not hold.

`NoLockerForgotten`: where exclusives are not preferred and nobody upgrades, with as many threads, any
number of them in lock at once, NoLostWakeup, and that lockers asleep on a free mutex have a notification on its
way, or one of them already awake.

`WakeupsReach`: in every configuration, while all threads together cannot fill the mutex (`Roomy`) and at most one
of them is in a call that waits on blocker_ (`OneWaiterSpec`): whoever sleeps on either condition variable although
its wait is over has a thread about to notify it (`BlockersNoticed`, `SharersNoticed`).  Its conditions leave
out the two wakeups that the code does lose, two threads in different waits of lock and a waiter on blocker_ while the
mutex is full (see Divergences).  NoLostWakeup, which the runs check, says less: that another thread is awake in a call
or owns something.  That is not inductive: it has to be the right condition variable that is notified when what
is owned is given back.  `WakeInv` says which threads sleep where, and names the notification.  A thread that gives
back a share, an order or the whole of the mutex makes a condition true only where it is about to notify, and a
notification goes to the one thread there is on blocker_.

With deadlines, where exclusives are not preferred, IInv is kept too: a timed call waits before it has changed
anything, so giving up changes what nobody owns.  Hence CountInv and the contract of TimedSpec,
from the assumption ~PreferExclusive; with the preference tryUpgradeUntil breaks them (see Divergences).

`SpinMutexProofs` rests on the same lemmas of `MutexLedger`: CountInv and the contract, deadlines included, assuming
CheckedTryOrder, without which tryOrderUpgrade breaks both.  Its IInv adds what a thread owned before it placed the
order it spins for (`Placed`), since a deadline gives that status back.  AssertionsHold
follows from it, for callers that keep mutex.md as it is worded: unlock and downgrade find the count at exclusive_,
complete and cancel not below it, unlockShared and tryUpgrade not at zero.  The assertion of upgrade and orderUpgrade
about other threads is not among them: it can fail (MCSpinUpgrade).  `IsolatedUpgradesNeverAbort` says what would be
enough for it (UpgradeIsolated, which no document asks for), from a second invariant, `UpgradeAlone`: while a
thread is in the first wait for an upgrade no other has an order or is inside of a call that will place one, so that
the count it asserts about holds shares only.

`ListProofs`, in its middle part, for any set of coroutines: the pointers of the awaiters of AsyncMutex spell the
history queue (`AsyncInv`), so that no
pointer is followed before it was written and every suspended coroutine is in the list exactly once; one
coroutine at most has the mutex; and AsyncMutex implements FifoLock.

`ThreadPoolProofs`, for every finite set of threads and tasks: `IInv`, and from it that no notification is
wasted (`EnoughAwake`) and that the destructor drops no task a thread could still take (`NothingLeft`).
NothingLeft needs to know why a consumer has left: on a request, or because the pool had ended and the queue
was empty, after which no task is accepted (`EndInv`).  EnoughAwake counts the consumers that are awake; a
deparallel that has released the mutex but not yet notified counts as one.

`ServicesProofs`, for any number of callers and failures: `IInv`, and from it that OnceInvoker implements
OnceContract, memory orders included.  The contract is not inductive, since it says nothing of what a caller
will see that has yet to come: IInv says where everything done so far is recorded, in the view of the caller
inside, in the mutex while it is free, or in the newest value of the status, and so why the relaxed load under
the mutex and the acquire on the fast path are enough.

The same module proves `TimerInv` of QuickTimer, for every period, both builds and any mix of repeat and reset.  That
n actions take n periods is not inductive: after an action that lasted long the next deadline lies in the past.  What
is inductive is that the deadline itself never lies less than begun + 1 periods after the start (begun, while an
action runs); and that at most one action begins after stop, because the performer looks at the token before it acts
a second time.

`AtomProofs`, in its second part, for any finite set of pointers and any bound of the count: `LastOneDestroys`.  It is
inductive once the stages are typed: the count equals the number of pointers that own, plus one for each that is
being assigned and has not yet dropped its old reference, so that a drop that finds a count of one finds no other
owner.

`ListProofs`, in its first part, for a pool of every size and any set of lists: `LinksAgree`, over rings and free list at once.
That links lead back is not inductive: the destructor goes along a ring, and it has to be known that it comes past
all nodes of its list.  IInv says so without recursion: there is a function `pos` that grows along every ring from
its sentry on, and what the destructor has come past is gone.  Each action gives the next function: an inserted
node takes a place between its neighbours, where the later ones have moved up, and a swap leaves it as it is.

From these positions follows what the links spell when they are followed.  `EachUnitOnce` says that the walk along a
ring, and along the free list, meets every unit of it: the walk from a unit is the unit and the walk from the next,
so that a property of all walks is shown by induction over the positions, from the last one down.  The induction is
made in sets (the units without the property would have a greatest one), with the well-foundedness of the numbers.
The free list has positions of its own (`PoolInv`).  `ImplementsLinkedContract` needs the converse: a sequence that
starts with the sentry, in which each unit is followed by the next one of the memory and the last by the sentry, is
the sequence that the links spell (`SpelledAlike`), so that it suffices to name, for every action, the sequence the
contract asks for (`InsertsSpelled`, `ErasesSpelled`).  `RefInv` adds how far a copy in progress has come, that
sentries hold no item, and what destroy will have answered.

The last part of `ListProofs`, for arrays of any size, any finite set of lists and every configuration, assuming
`OnlySound`: `ItemsInPlace` and `ActsAsSequence`.  The second says of every insertion that constructs its items, and
of erasing at every position, that it acts as on a sequence; of erasing a range, unless inPlaceErase_ pops other items
of a ring than the erased; and of swapping, unless both lists keep their items inside and the swap does not end well.
Both follow from the invariant that there is, for each list, a
sequence that it holds (`Holds`): the array has the shape its configuration asks for, its slots have the items of the
sequence in order from the offset on, wherever they wrap around, and all other slots are empty.  What the code does
to slots one by one is related to this once: items that are relocated along the ring, by any number of places, arrive
as they were, provided that they are taken in an order in which no slot is written before it has been read
(`CarriedAll`, `Shifts`), and makeRoom_ and inPlaceErase_ take them in such an order on either side (`RoomBehind`,
`RoomBefore`, `ErasesBehind`, `ErasesBefore`).  Each call then turns the sequence into the one that is asked for
(`Inserts`, `ErasesItems`, `Expands`, `SwapsItems`), and what it constructs, destroys, allocates and deallocates is
the difference of the lengths and blocks before and after (`TotalExcept`).

`CountProofs`, for any finite set of threads, any number of permits and any latches, both builds: Semaphore and
Latch implement CountContract, and, assuming that the acquisitions of one semaphore all ask for the same amount
(`OneAmount`, without which release loses wakeups, see Divergences), `NoWakeupLost`.  That a sleeper who could pass
has somebody on the way is not inductive: permits may be released one by one, notify nobody in particular, and be
taken by others.  `WakeInv` counts: as long as anybody sleeps there are fewer permits than n times one more than the
threads that will look at the count or notify one who will (`Few`), n being what all ask for.  A release adds a permit
and such a thread, a look that takes removes one and n permits, a look that refuses has seen fewer than n.

`AtomProofs`, for any threads, values, width of the stamp and programs, assuming `OnlyConforming`: the stamp
counts the updates, and Atom implements AtomContract.  The invariant relates the stamps, in the atom and in every
answer, to the number of updates at that time (`Numbers`), and says what a thread inside a call has decided from
the value it holds, so that a compare-exchange that finds this value unchanged writes what the rule of the call
says of it (`Inside`).  A step of a loop that does not end the call is a
stutter; the compare-exchange that succeeds, the load that ends a wait, and the critical section are the instant
at which the call takes effect.

Only model-checked.  Liveness is out of the reach of this prover: OrderCompletes, ReadersAdmitted, EachResumed,
EachTaskTaken, DestructorReturns, EachCallReturns, NobodyForgotten, WaitersReturn, TimerStops.  Of safety, nothing:
every invariant and every refinement that a passing run checks is stated by a theorem.

## Divergences met

Shown by a run: `unlockShared` sends one notification to blocker_ where the threads in the first wait of
`lock` sleep next to the thread whose order has just become completable.  When one of them takes it,
both sleep for good (MCFlexibleLostLock; mutex.hpp:923, against document/concurrency/mutex.md:74).

`upgrade` and `orderUpgrade` assert each time they look at the count that it is at most exclusive_: "Another thread is
locking. This would be a deadlock." (mutex.hpp:1083, 1123, 1283).  A thread may call upgrade while nobody waits, as
mutex.md:157 and 159 ask, and find at its first look an order that tryOrderLock has placed since; whoever placed it is
in no call and may cancel it, and the assertion stops the program (MCSpinUpgrade).

Seen while modelling, and left out of the passing runs by the constants named:

- With exclusives preferred, the first wait of `lock` or `upgrade` that begins on a full mutex sleeps on blocker_, and
  the share that leaves is told to shareBlocker_ (mutex.hpp:918): one waiter is enough, and
  MCFlexibleLive with MaxShare = 2 violates NoLostWakeup.
- Two threads that call orderUpgrade on a full spinning mutex both find the count at exclusive_ and spin for good: each
  waits for the other to leave.  This is a reason why MCSpin does not check for deadlock.
- `atomically##Operation_##Fetch_` returns what the standard's fetch operation returned plus the operand, for
  subtraction, and, or and exclusive or too: subtractFetch(5, 1) writes 4 and returns 6 (atom_basic.hpp:1097, against
  document/concurrency/atom.md:459).
- A Mutex that is full lets threads of lockShared sleep on shareBlocker_.  The share that leaves notifies one of them,
  and the last share notifies blocker_ only (mutex.hpp:915): with MaxShare = 2 and four threads two can sleep there, and
  the second one sleeps for good.  MCFlexibleLive with MaxShare = 2 and a fourth thread violates NoLostWakeup.  Where
  exclusives are not preferred and maxShare is 2, a share that leaves behind one other is told to shareBlocker_ only,
  while the other one may be waiting in upgrade.
- tryUpgradeUntil of the condition-variable build that prefers exclusives leaves its order in the count at
  its deadline (mutex.hpp:1049).  MCTimedFlexible with PreferExclusive = TRUE and MaxShare = 3 violates
  CountInv.
- tryOrderUpgrade of the spinning build returns true whether or not the order was placed (mutex.hpp:1262).
  MCSpin with CheckedTryOrder = FALSE violates CountInv.
- Not to be modelled, since they do not compile or do not return: the tryLockUntil of the condition-variable
  build that prefers exclusives (mutex.hpp:598); the whole of mutex.hpp without debug, where two assertions
  without a semicolon (879, 1154) become syntax errors; lock_shared and unlock_shared, which call themselves (mutex.hpp:1393); and the emplace
  of a SealerChassis, which calls itself (service/sealer.hpp:236).
- release of a Semaphore notifies one waiter.  When waiters ask for different amounts the one that is woken may
  need more than there is, while another could go on (semaphore.hpp:111).  MCCountWaiting with
  Mixes = {{1, 2}} violates NoWakeupLost and NobodyForgotten.
- tryAcquireFor of a Semaphore takes one permit, whatever it is asked for (semaphore.hpp:155).  Where the others ask
  for two it mixes the amounts, and is left out with the mixtures.
- countDown of the atomic build of a latch that counts with a Boolean calls testAndClear on a std::atomic inside an
  assertion (latch.hpp:88): it does not compile with debug, and without debug it does nothing but notify.
- A ThreadPool whose constructor fails to start a thread joins those it started without ending the pool
  (thread_pool.hpp:118), and hangs.

- Atom.  Answers that differ from document/concurrency/atom.md:247 and 459: transformFetch and the *Fetch
  operations of the mutex-based and the phoney build and of sequenced calls return the old value;
  sequencedTransformFetchOrLoad does on all builds; sequenced arithmetic of an unstamped Atom that is not a
  std::atomic always adds.  OnlyConforming = TRUE leaves these out.  Do not compile: timed waits on std::atomic,
  most stamped comparisons and waits by value, stamped *execute*, and notify on the mutex-based build, whose
  waiters can therefore not be notified.
- QuickTimer.  repeat counts from the old deadline, so that an action that lasted longer is repeated at once until
  it has caught up.  stop of the minimal build takes effect at the next deadline; so does that of the quick build
  when its notification is lost.  After stop has returned one more action may begin.
- List.  popFront of a range of a list that is not circular destroys the first items and leaves them in the list
  (list.hpp:1737, against document/container/list.md:365); a range erased near the front of a circular list pops as
  many items as precede the range (1880), and where these reach past the end of the array the list then begins at
  its start, whatever is left behind (1758); a list both stuffed and circular forgets the size of its array (1763); an emplace in place whose constructor throws leaves the length one too
  long (1533); swapWith and assignment of two lists that both keep their items inside never end, since
  itemWiseSwapWith_ does not advance its index (813); a batch of copies that fails destroys one of its items only
  (1462); initialize is noexcept, so that a failing allocation terminates.  popFront() of the wrapper, List(capacity)
  of a static list and eraseAndShrink of a circular one do not compile.
- Linked.  erase reads the next link of a node it has just destroyed (linked.hpp:1082), and so returns no position,
  against document/container/linked.md:190; eraseAfter returns the right one.  With a pool of ordinary pointers the
  sentry lies in the list, and swapWith and relocateTo move it without telling its neighbours.  popNode and
  popNodeAfter do not compile.  Of the moves only the assignment compiles (linked.hpp:1174); it takes over the other's
  sentry and drops what the list held.
- Task.  return_value keeps the address of what was co_returned (task.hpp:57); a local of the coroutine is destroyed
  before await_resume reads it.

## Not modelled, and why

- Mutex: recursive configurations; those that wrap std::mutex or std::shared_mutex, where nothing of dcool is
  left to check; memory orders (each read-modify-write is one step; the model is sequentially consistent).
- Atom: memory orders, and AtomicFlag, which forwards to std::atomic_flag.
- OnceInvoker: the strategy that hands everything to std::call_once, and the one without synchronisation.
- ThreadPool: the memory of tasks and threads, and an enqueTask that runs out of memory other than as a call that
  changed nothing.
- Shared pointers: weak references, whose code does not compile; deleters.
- QuickTimer: an action that throws and waitUntilDone of a timer without a thread, which terminate or throw.
- Latch: the Boolean atomic build; the widths of the counts of Latch and Semaphore.
- List and Linked: the calls listed under divergences; iterators; pools that expand a block in place.  Of the pools
  only ConcretePinnedPool: the others ask another resource for memory, or adapt handles.
- Sealer: each call is one critical section of a Mutex; the calls that would relate two of them call themselves
  (service/sealer.hpp:236) or do not compile.
- Task, Generator: one coroutine and its one awaiter in lock step.  syncWait: its two threads meet in std::promise.
- Function, Any, Variant, Optional, copy on write, String: sequential holders of values, or fronts of what is
  modelled.  Compile-time machinery, integers, console control sequences and the test framework keep no state
  that a model could explore.

## What comes next

The memory orders of Atom, with the modification order that OnceInvoker has already; the weak references of the
shared pointers, once their code compiles; and the pools that ask another resource for memory.
