------------------------------- MODULE Linked -------------------------------
(***************************************************************************)
(* container/linked.hpp: linked lists whose nodes come from one pool.  The *)
(* nodes of a list are linked in a ring, which begins and ends at a sentry *)
(* without an item.  The pool is a ConcreteReferencePool: the handles are  *)
(* indices, and the sentry is a unit of the pool as well, since            *)
(* HandleReferenceable is not compact for it.                              *)
(*                                                                         *)
(* Copying and destroying a list runs constructors and destructors of its  *)
(* items, and takes a step for each of them.                               *)
(***************************************************************************)
EXTENDS Containers, ConcretePool, SequencesExt

NoItem == "no item"
NoUnit == -1
Pool == "pool"
Idle == [op |-> "idle"]

ASSUME PoolAssumption == Pool \notin Lists

VARIABLES
    bidirectional, \* the nodes of all lists also have links to the previous ones
    sentry, \* of each list, NoUnit while there is no such list
    item,   \* the value of each node
    owner,  \* history: the list that a unit is of, or the pool
    call,   \* the copying or destroying call that goes on
    answer  \* how the last call has ended, and the position it has returned

linkedVars == <<memory, bidirectional, sentry, item, owner, call, answer>>

Living == {l \in Lists : sentry[l] # NoUnit}
Of(l) == {u \in Units : owner[u] = l}
Nodes(l) == Of(l) \ {sentry[l]}

Answer(of, u) == [of |-> of, unit |-> u]

-----------------------------------------------------------------------------
(* Rings                                                                   *)

\* connectLinkedNodeHeader_: a header of a forward list has no previous handle.
Connect(m, leading, following) ==
    [m EXCEPT !.next[leading] = following,
              !.previous[following] = IF bidirectional THEN leading ELSE @]

\* insertLinkedNodeHeaderAfter_
InsertedAfter(m, leading, u) == Connect(Connect(m, u, m.next[leading]), leading, u)

\* Mutant of InsertedBefore: what is before is not connected.
InsertedBeforeOneWay(m, tailing, u) == Connect(m, u, tailing)

\* insertLinkedNodeHeaderBefore_
InsertedBefore(m, tailing, u) == Connect(Connect(m, u, tailing), m.previous[tailing], u)

\* popLinkedNodeHeader_ and popLinkedNodeHeaderAfter_
Popped(m, u) == Connect(m, m.previous[u], m.next[u])
PoppedAfter(m, leading) == Connect(m, leading, m.next[m.next[leading]])

-----------------------------------------------------------------------------
(* Calls                                                                   *)

\* A unit u goes from one owner to the next.
Take(u, l, x) ==
    /\ owner' = [owner EXCEPT ![u] = l]
    /\ item' = [item EXCEPT ![u] = x]

\* The call returns.
Return(of, u) ==
    /\ answer' = Answer(of, u)
    /\ call' = Idle

\* The sentry is allocated, and connected with itself.
InitializeSentry(l) ==
    LET u == memory.first IN
    /\ l \notin Living /\ ~Exhausted
    /\ memory' = Connect(Allocate(memory), u, u)
    /\ sentry' = [sentry EXCEPT ![l] = u]
    /\ Take(u, l, NoItem)

\* initialize.  It is noexcept: on an exhausted pool the program terminates.
Initialize(l) ==
    /\ call = Idle
    /\ InitializeSentry(l)
    /\ Return("create", NoUnit)
    /\ UNCHANGED bidirectional

\* emplace, emplaceBack
Emplace(l, position, x) ==
    LET u == memory.first IN
    /\ call = Idle /\ bidirectional /\ ~Exhausted
    /\ owner[position] = l
    /\ LET m == InsertedBefore(Allocate(memory), position, u)
       IN  memory' = m /\ Return("insert", m.previous[position])
    /\ Take(u, l, x)
    /\ UNCHANGED <<bidirectional, sentry>>

\* emplaceAfter, emplaceFront
EmplaceAfter(l, position, x) ==
    LET u == memory.first IN
    /\ call = Idle /\ ~Exhausted
    /\ owner[position] = l
    /\ LET m == InsertedAfter(Allocate(memory), position, u)
       IN  memory' = m /\ Return("insert", m.next[position])
    /\ Take(u, l, x)
    /\ UNCHANGED <<bidirectional, sentry>>

\* createNode_ throws, at once or after the unit of a node that could not be constructed has
\* been deallocated.
EmplaceFails(l) ==
    /\ call = Idle /\ l \in Living
    /\ memory' = IF Exhausted THEN memory ELSE Deallocate(Allocate(memory), memory.first)
    /\ Return("throw", NoUnit)
    /\ UNCHANGED <<bidirectional, sentry, item, owner>>

\* erase_, popBack.  The next position is read after the node has been destroyed.
EraseNode(l, position) ==
    /\ call = Idle /\ bidirectional
    /\ l \in Living /\ position \in Nodes(l)
    /\ LET m == Deallocate(Popped(memory, position), position)
       IN  memory' = m /\ Return("erase", m.next[position])
    /\ Take(position, Pool, NoItem)
    /\ UNCHANGED <<bidirectional, sentry>>

\* eraseAfter_, popFront
EraseAfter(l, before) ==
    LET erased == memory.next[before] IN
    /\ call = Idle
    /\ l \in Living /\ before \in Of(l) /\ erased # sentry[l]
    /\ LET m == Deallocate(PoppedAfter(memory, before), erased)
       IN  memory' = m /\ Return("eraseAfter", m.next[before])
    /\ Take(erased, Pool, NoItem)
    /\ UNCHANGED <<bidirectional, sentry>>

\* swapWith: of a pool with handles the sentries change places.
SwapWith(l, m) ==
    LET Other(k) == CASE k = l -> m [] k = m -> l [] OTHER -> k IN
    /\ call = Idle /\ {l, m} \subseteq Living
    /\ sentry' = [k \in Lists |-> sentry[Other(k)]]
    /\ owner' = [u \in Units |-> Other(owner[u])]
    /\ Return("swap", NoUnit)
    /\ UNCHANGED <<memory, bidirectional, item>>

-----------------------------------------------------------------------------
(* Copying and destroying                                                  *)

\* cloneTo: begin_ goes along what is copied, current_ along the copy.
CloneTo(l, m) ==
    /\ call = Idle /\ l \in Living
    /\ InitializeSentry(m)
    /\ call' = [op |-> "clone", from |-> l, to |-> m,
                begin |-> memory.next[sentry[l]], current |-> memory.first]
    /\ UNCHANGED <<bidirectional, answer>>

CloneOne ==
    LET u == memory.first IN
    /\ call.op = "clone" /\ call.begin # sentry[call.from] /\ ~Exhausted
    /\ memory' = InsertedAfter(Allocate(memory), call.current, u)
    /\ Take(u, call.to, item[call.begin])
    /\ call' = [call EXCEPT !.begin = memory'.next[@], !.current = u]
    /\ UNCHANGED <<bidirectional, sentry, answer>>

Cloned ==
    /\ call.op = "clone" /\ call.begin = sentry[call.from]
    /\ Return("clone", NoUnit)
    /\ UNCHANGED <<memory, bidirectional, sentry, item, owner>>

\* uninitialize, and what it does for the call that it is a part of.
Uninitializing(l, reason) ==
    [op |-> "uninitialize", list |-> l, begin |-> memory.next[sentry[l]], reason |-> reason]

\* Mutant of CloneFails: what has been copied stays.
CloneFailsLeaving ==
    /\ call.op = "clone" /\ call.begin # sentry[call.from]
    /\ memory' = IF Exhausted THEN memory ELSE Deallocate(Allocate(memory), memory.first)
    /\ Return("throw", NoUnit)
    /\ UNCHANGED <<bidirectional, sentry, item, owner>>

\* The pool is exhausted or a constructor throws: what has been copied is destroyed.
CloneFails ==
    /\ call.op = "clone" /\ call.begin # sentry[call.from]
    /\ memory' = IF Exhausted THEN memory ELSE Deallocate(Allocate(memory), memory.first)
    /\ call' = Uninitializing(call.to, "throw")
    /\ UNCHANGED <<bidirectional, sentry, item, owner, answer>>

\* The destructor.
Uninitialize(l) ==
    /\ call = Idle /\ l \in Living
    /\ call' = Uninitializing(l, "destroy")
    /\ answer' = Answer("destroy", NoUnit)
    /\ UNCHANGED <<memory, bidirectional, sentry, item, owner>>

\* A node is destroyed after begin_ has left it, and is not taken out of the ring before.
UninitializeOne ==
    /\ call.op = "uninitialize" /\ call.begin # sentry[call.list]
    /\ memory' = Deallocate(memory, call.begin)
    /\ Take(call.begin, Pool, NoItem)
    /\ call' = [call EXCEPT !.begin = memory.next[@]]
    /\ UNCHANGED <<bidirectional, sentry, answer>>

\* At last the sentry.
Uninitialized ==
    LET u == sentry[call.list] IN
    /\ call.op = "uninitialize" /\ call.begin = u
    /\ memory' = Deallocate(memory, u)
    /\ Take(u, Pool, NoItem)
    /\ sentry' = [sentry EXCEPT ![call.list] = NoUnit]
    /\ Return(call.reason, NoUnit)
    /\ UNCHANGED bidirectional

-----------------------------------------------------------------------------
LinkedInit ==
    /\ memory = Filled
    /\ bidirectional \in BOOLEAN
    /\ sentry = [l \in Lists |-> NoUnit]
    /\ item = [u \in Units |-> NoItem]
    /\ owner = [u \in Units |-> Pool]
    /\ call = Idle
    /\ answer = Answer("none", NoUnit)

LinkedNext ==
    \/ \E l \in Lists :
        \/ Initialize(l) \/ EmplaceFails(l) \/ Uninitialize(l)
        \/ \E u \in Units :
            \/ \E x \in Items : Emplace(l, u, x) \/ EmplaceAfter(l, u, x)
            \/ EraseNode(l, u) \/ EraseAfter(l, u)
        \/ \E m \in Lists : SwapWith(l, m) \/ CloneTo(l, m)
    \/ CloneOne \/ Cloned \/ CloneFails
    \/ UninitializeOne \/ Uninitialized

LinkedSpec == LinkedInit /\ [][LinkedNext]_linkedVars

-----------------------------------------------------------------------------
(* Properties                                                              *)

\* The sentry of a list whose destructor is on its way: its links are those of destroyed nodes.
Leaving == IF call.op = "uninitialize" THEN {sentry[call.list]} ELSE {}
Followed == Units \ Leaving

\* No unit is the next one of two others, and none that a ring or the pool's chain leads to is
\* also the first of the pool, so that the pool never hands out a unit that is in a ring; from a
\* ring no link leads out of it, and each next link has its previous one back
\* (connectLinkedNodeHeader_, ConcretePinnedPool::link_, over their shared storage).
LinksAgree ==
    /\ \A u, v \in Followed : memory.next[u] = memory.next[v] => u = v
    /\ \A u \in Followed : memory.next[u] # memory.first
    /\ \A u \in Followed :
        LET v == memory.next[u]
        IN  IF v = UnitCount THEN owner[u] = Pool
            ELSE owner[v] = owner[u] /\ (bidirectional /\ owner[u] # Pool => memory.previous[v] = u)

\* What is in the units of a memory from one on, along next, up to the end of the pool or to
\* where they began, and no further than n links from each.
Trails(m, held, from) ==
    LET trail[n \in 0 .. UnitCount] == [u \in Units |->
            <<[unit |-> u, item |-> held[u]]>> \o
                IF n = 0 \/ m.next[u] \in {from, UnitCount} THEN <<>> ELSE trail[n - 1][m.next[u]]]
    IN  trail

Along(m, held, from) == IF from = UnitCount THEN <<>> ELSE Trails(m, held, from)[UnitCount][from]

\* The sequence that the links of the memory spell from a unit on.
From(u) == Along(memory, item, u)

\* Following the links from the sentry of a list passes each of its nodes once and comes back, and
\* following them through the pool passes each unit that is in no list, to the last: none is lost,
\* in two places or in a ring apart, whatever has been inserted, erased, copied and destroyed.
EachUnitOnce ==
    /\ {x.unit : x \in ToSet(From(memory.first))} = Of(Pool)
    /\ \A l \in Living : Leaving # {sentry[l]} => {x.unit : x \in ToSet(From(sentry[l]))} = Of(l)

\* A list is there for its user once it is copied and until it is being destroyed.
Ring(l) ==
    IF l \notin Living \/ Leaving = {sentry[l]} \/ (call.op = "clone" /\ call.to = l) THEN <<>>
    ELSE From(sentry[l])

Contract == INSTANCE LinkedContract WITH rings <- [l \in Lists |-> Ring(l)]

\* The lists are the sequences that their document promises, every call that is not erase returns
\* the position it should, positions of other nodes stay as they are, and a copy that fails half
\* way leaves nothing behind (LinkedChassis).
ImplementsLinkedContract == Contract!ContractSpec
=============================================================================
