----------------------------- MODULE ListProofs -----------------------------
(***************************************************************************)
(* Proofs about lists: first the two that go through what they list, the   *)
(* rings of Linked and the awaiters of AsyncMutex, then the List that has  *)
(* its items in an array.                                                  *)
(*                                                                         *)
(* For any number of linked lists over a pool of any size: the links of    *)
(* the rings and of the pool agree, they pass each unit once, and the      *)
(* lists are the sequences of LinkedContract.                              *)
(*                                                                         *)
(* That a link leads back is not inductive: it has to be known that the    *)
(* destructor of a list, which goes along its ring, comes past all of its  *)
(* nodes, that is, that they are one ring.  To say so without following    *)
(* links, the invariant gives each unit a position, which grows along each *)
(* ring from its sentry on.  What the links spell when they are followed   *)
(* comes from there by induction over the positions.                       *)
(***************************************************************************)
EXTENDS Linked, AsyncMutex, List, SequenceTheorems, WellFoundedInduction, NaturalsInduction,
        FiniteSetTheorems, TLAPS

Memories == [next : [Units -> Units \cup {UnitCount}], previous : [Units -> Units],
             first : Units \cup {UnitCount}]
Owners == [Units -> Lists \cup {Pool}]
Sentries == [Lists -> Units \cup {NoUnit}]

\* The parts of LinksAgree, for a memory m whose units have the owners o.
Linking(m, o, followed) ==
    /\ \A u, v \in followed : m.next[u] = m.next[v] => u = v
    /\ \A u \in followed : m.next[u] # m.first
    /\ \A u \in followed : m.next[u] = UnitCount => o[u] = Pool
    /\ \A u \in followed : m.next[u] # UnitCount => o[m.next[u]] = o[u]
    /\ \A u \in followed : bidirectional /\ o[u] # Pool => m.previous[m.next[u]] = u

Back(m, o, kept) == bidirectional =>
    \A v \in kept : o[v] # Pool => o[m.previous[v]] = o[v] /\ m.next[m.previous[v]] = v

\* The next unit of a ring has the next position there is, and the last one the greatest.
Ordered(pos, m, o, s, followed) ==
    /\ \A u, v \in Units : o[u] = o[v] /\ o[u] # Pool /\ pos[u] = pos[v] => u = v
    /\ \A u \in Units : o[u] # Pool => pos[s[o[u]]] <= pos[u]
    /\ \A u \in followed : o[u] # Pool /\ m.next[u] = s[o[u]] =>
            \A v \in Units : o[v] = o[u] => pos[v] <= pos[u]
    /\ \A u \in followed : o[u] # Pool /\ m.next[u] # s[o[u]] =>
            /\ pos[m.next[u]] > pos[u]
            /\ \A v \in Units : o[v] = o[u] /\ pos[v] > pos[u] => pos[v] >= pos[m.next[u]]

\* The pool owns what it hands out, and a list its sentry.
Owned(m, o, s) ==
    /\ m \in Memories /\ o \in Owners /\ s \in Sentries
    /\ m.first \in Units => o[m.first] = Pool
    /\ \A u \in Units : o[u] # Pool => s[o[u]] # NoUnit
    /\ \A l \in Lists : s[l] # NoUnit => o[s[l]] = l

Consistent(pos, m, o, s) ==
    /\ Owned(m, o, s) /\ Linking(m, o, Units) /\ Back(m, o, Units)
    /\ pos \in [Units -> Nat] /\ Ordered(pos, m, o, s, Units)

\* The lists of which all nodes still have their previous ones.
Kept == IF call.op = "uninitialize" THEN Units \ Of(call.list) ELSE Units

Cloning ==
    /\ call \in [op : {"clone"}, from : Living, to : Living, begin : Units, current : Units]
    /\ owner[call.begin] = call.from /\ owner[call.current] = call.to

Uninitializes ==
    /\ call \in [op : {"uninitialize"}, list : Living, begin : Units, reason : {"throw", "destroy"}]
    /\ owner[call.begin] = call.list
    /\ \A u \in Followed : memory.next[u] # call.begin

\* What the destructor has come past is gone.
Past(pos) == call.op = "uninitialize" =>
    \A u \in Of(call.list) \ {sentry[call.list]} :
        call.begin # sentry[call.list] /\ pos[u] >= pos[call.begin]

IInv ==
    /\ bidirectional \in BOOLEAN
    /\ call = Idle \/ Cloning \/ Uninitializes
    /\ Owned(memory, owner, sentry)
    /\ Linking(memory, owner, Followed) /\ Back(memory, owner, Kept)
    /\ \E pos \in [Units -> Nat] : Ordered(pos, memory, owner, sentry, Followed) /\ Past(pos)

LEMMA Agree == IInv => LinksAgree
<1> SUFFICES ASSUME IInv PROVE LinksAgree
  OBVIOUS
<1>1. /\ memory \in Memories /\ owner \in Owners /\ Followed \subseteq Units
      /\ Linking(memory, owner, Followed) /\ Back(memory, owner, Kept)
  BY DEF IInv, Owned, Followed
<1>2. UnitCount \notin Units
  BY UnitCountAssumption DEF Units
<1> QED
  BY <1>1, <1>2 DEF LinksAgree, Linking

-----------------------------------------------------------------------------
(* Memories                                                                *)

LEMMA Bounds == UnitCount \notin Units /\ NoUnit \notin Units /\ \A u \in Units : 0 \in Units
BY UnitCountAssumption DEF Units, NoUnit

\* What each of them does, link by link.
Connected(m, u, v, m2) ==
    /\ m2 \in Memories /\ m2.first = m.first
    /\ \A x \in Units : m2.next[x] = IF x = u THEN v ELSE m.next[x]
    /\ bidirectional => \A x \in Units : m2.previous[x] = IF x = v THEN u ELSE m.previous[x]

Deallocated(m, u, m2) ==
    /\ m2 \in Memories /\ m2.first = u
    /\ \A x \in Units : m2.next[x] = IF x = u THEN m.first ELSE m.next[x]
    /\ \A x \in Units : m2.previous[x] = IF x = u THEN 0 ELSE m.previous[x]

LEMMA Connects ==
    ASSUME NEW m \in Memories, NEW u \in Units, NEW v \in Units
    PROVE  Connected(m, u, v, Connect(m, u, v))
BY DEF Connect, Connected, Memories

LEMMA Allocates ==
    ASSUME NEW m \in Memories, m.first \in Units
    PROVE  /\ Allocate(m) \in Memories
           /\ Allocate(m).next = m.next /\ Allocate(m).previous = m.previous
           /\ Allocate(m).first = m.next[m.first]
BY DEF Allocate, Memories

LEMMA Deallocates ==
    ASSUME NEW m \in Memories, NEW u \in Units
    PROVE  Deallocated(m, u, Deallocate(m, u))
BY Bounds DEF Deallocate, Deallocated, Memories

\* What the insertion of the first unit of the pool after another one does to all links.
LinkedBehind(m, leading, m2) ==
    /\ m2 \in Memories /\ m2.first = m.next[m.first]
    /\ \A x \in Units : m2.next[x] =
            IF x = leading THEN m.first ELSE IF x = m.first THEN m.next[leading] ELSE m.next[x]
    /\ bidirectional => \A x \in Units : m2.previous[x] =
            IF x = m.first THEN leading ELSE IF x = m.next[leading] THEN m.first ELSE m.previous[x]

LEMMA InsertsAfter ==
    ASSUME NEW m \in Memories, m.first \in Units, NEW leading \in Units, m.next[leading] \in Units
    PROVE  LinkedBehind(m, leading, InsertedAfter(Allocate(m), leading, m.first))
<1> DEFINE a == Allocate(m)
           c == Connect(a, m.first, m.next[leading])
           d == Connect(c, leading, m.first)
<1>1. a \in Memories /\ a.next = m.next /\ a.previous = m.previous /\ a.first = m.next[m.first]
  BY Allocates
<1>2. InsertedAfter(a, leading, m.first) = d
  BY <1>1 DEF InsertedAfter
<1> HIDE DEF a
<1>3. Connected(a, m.first, m.next[leading], c)
  BY <1>1, Connects
<1>4. c \in Memories
  BY <1>3 DEF Connected
<1> HIDE DEF c
<1>5. Connected(c, leading, m.first, d)
  BY <1>4, Connects
<1> HIDE DEF d
<1>6. LinkedBehind(m, leading, d)
  BY <1>1, <1>3, <1>5 DEF Connected, LinkedBehind
<1> QED
  BY <1>2, <1>6 DEF a

\* Before a unit that the links come back to is after the previous one.
LEMMA InsertsBefore ==
    ASSUME NEW m \in Memories, m.first \in Units, NEW tailing \in Units, m.previous[tailing] \in Units,
           m.next[m.previous[tailing]] = tailing
    PROVE  InsertedBefore(Allocate(m), tailing, m.first)
                = InsertedAfter(Allocate(m), m.previous[tailing], m.first)
BY Allocates DEF InsertedBefore, InsertedAfter

\* What the erasure of the unit after another one does.
Erased(m, leading, m2) ==
    /\ m2 \in Memories /\ m2.first = m.next[leading]
    /\ \A x \in Units : m2.next[x] =
            IF x = m.next[leading] THEN m.first
            ELSE IF x = leading THEN m.next[m.next[leading]] ELSE m.next[x]
    /\ bidirectional => \A x \in Units : m2.previous[x] =
            IF x = m.next[leading] THEN 0
            ELSE IF x = m.next[m.next[leading]] THEN leading ELSE m.previous[x]

LEMMA ErasesAfter ==
    ASSUME NEW m \in Memories, NEW leading \in Units, m.next[leading] \in Units,
           m.next[m.next[leading]] \in Units
    PROVE  Erased(m, leading, Deallocate(PoppedAfter(m, leading), m.next[leading]))
<1> DEFINE c == PoppedAfter(m, leading)
           d == Deallocate(c, m.next[leading])
<1>1. Connected(m, leading, m.next[m.next[leading]], c)
  BY Connects DEF PoppedAfter
<1>2. c \in Memories
  BY <1>1 DEF Connected
<1> HIDE DEF c
<1>3. Deallocated(c, m.next[leading], d)
  BY <1>2, Deallocates
<1> HIDE DEF d
<1>4. Erased(m, leading, d)
  BY <1>1, <1>3 DEF Connected, Deallocated, Erased
<1> QED
  BY <1>4 DEF c, d

LEMMA Erases ==
    ASSUME NEW m \in Memories, NEW u \in Units, m.next[m.previous[u]] = u
    PROVE  Popped(m, u) = PoppedAfter(m, m.previous[u])
BY DEF Popped, PoppedAfter

-----------------------------------------------------------------------------
(* Rings                                                                   *)

\* There is a unit after each one that a list owns, and it is not the pool's first one.
LEMMA Follows ==
    ASSUME NEW m, NEW o, NEW s, Owned(m, o, s), NEW followed, Linking(m, o, followed), followed \subseteq Units,
           NEW u \in followed, o[u] # Pool
    PROVE  m.next[u] \in Units /\ o[m.next[u]] = o[u] /\ m.next[u] # m.first
BY DEF Owned, Linking, Memories

LEMMA InsertedConsistent ==
    ASSUME NEW pos, NEW m, NEW o, NEW s, Consistent(pos, m, o, s), m.first \in Units,
           NEW leading \in Units, o[leading] # Pool, NEW m2, LinkedBehind(m, leading, m2)
    PROVE  \E pos2 : Consistent(pos2, m2, [o EXCEPT ![m.first] = o[leading]], s)
<1> DEFINE u == m.first
           l == o[leading]
           o2 == [o EXCEPT ![u] = l]
           pos2 == [x \in Units |-> IF x = u THEN pos[leading] + 1
                        ELSE IF o[x] = l /\ pos[x] > pos[leading] THEN pos[x] + 1 ELSE pos[x]]
<1>1. /\ m \in Memories /\ o \in Owners /\ s \in Sentries /\ pos \in [Units -> Nat]
      /\ Linking(m, o, Units) /\ Back(m, o, Units) /\ Ordered(pos, m, o, s, Units) /\ Owned(m, o, s)
  BY DEF Consistent, Owned
<1>2. u = m.first /\ l = o[leading] /\ l \in Lists /\ l # Pool /\ o[u] = Pool /\ u # leading /\ u \in Units /\ s[l] # NoUnit
  BY <1>1, PoolAssumption DEF Owned, Owners
<1>3. /\ m.next[leading] \in Units /\ o[m.next[leading]] = l /\ m.next[leading] # u
      /\ \A x \in Units : o[x] # Pool => m.next[x] \in Units /\ o[m.next[x]] = o[x] /\ m.next[x] # u
      /\ \A x \in Units : m.next[x] \in Units \cup {UnitCount}
  BY <1>1, Follows DEF Memories
<1>4. /\ m2 \in Memories /\ m2.first = m.next[u]
      /\ \A x \in Units : m2.next[x] =
            IF x = leading THEN u ELSE IF x = u THEN m.next[leading] ELSE m.next[x]
      /\ bidirectional => \A x \in Units : m2.previous[x] =
            IF x = u THEN leading ELSE IF x = m.next[leading] THEN u ELSE m.previous[x]
  BY DEF LinkedBehind
<1>5. /\ o2 \in Owners /\ o2[u] = l
      /\ \A x \in Units : x # u => o2[x] = o[x]
  BY <1>1, <1>2 DEF Owners
<1>6. \A k \in Lists : s[k] # NoUnit => s[k] \in Units /\ o[s[k]] = k /\ k # Pool /\ s[k] # u
  BY <1>1, <1>2, PoolAssumption DEF Owned, Sentries
<1> HIDE DEF u, l, o2
<1>7. Owned(m2, o2, s)
  <2>1. m2.first \in Units => o2[m2.first] = Pool
    BY <1>1, <1>2, <1>4, <1>5, Bounds DEF Linking
  <2> QED
    BY <1>1, <1>2, <1>4, <1>5, <1>6, <2>1 DEF Owned
<1>8. Linking(m2, o2, Units)
  <2>1. \A x, y \in Units : m2.next[x] = m2.next[y] => x = y
    BY <1>1, <1>2, <1>3, <1>4 DEF Linking
  <2>2. \A x \in Units : m2.next[x] # m2.first
    BY <1>1, <1>2, <1>3, <1>4 DEF Linking
  <2>3. \A x \in Units : m2.next[x] = UnitCount => o2[x] = Pool
    BY <1>1, <1>2, <1>3, <1>4, <1>5, Bounds DEF Linking
  <2>4. \A x \in Units : m2.next[x] # UnitCount => o2[m2.next[x]] = o2[x]
    BY <1>1, <1>2, <1>3, <1>4, <1>5, Bounds DEF Linking
  <2>5. \A x \in Units : bidirectional /\ o2[x] # Pool => m2.previous[m2.next[x]] = x
    BY <1>1, <1>2, <1>3, <1>4, <1>5 DEF Linking
  <2> QED
    BY <2>1, <2>2, <2>3, <2>4, <2>5 DEF Linking
<1>9. Back(m2, o2, Units)
  BY <1>1, <1>2, <1>3, <1>4, <1>5 DEF Back, Memories
<1>10. pos2 \in [Units -> Nat] /\ Ordered(pos2, m2, o2, s, Units)
  <2>1. /\ pos2 \in [Units -> Nat] /\ pos2[u] = pos[leading] + 1
        /\ \A x \in Units : o[x] # Pool => pos2[x] =
                IF o[x] = l /\ pos[x] > pos[leading] THEN pos[x] + 1 ELSE pos[x]
    BY <1>1, <1>2
  <2> HIDE DEF pos2
  <2>2. \A x, y \in Units : o2[x] = o2[y] /\ o2[x] # Pool /\ pos2[x] = pos2[y] => x = y
    BY <1>1, <1>2, <1>5, <2>1 DEF Ordered
  <2>3. \A x \in Units : o2[x] # Pool => pos2[s[o2[x]]] <= pos2[x]
    BY <1>1, <1>2, <1>5, <1>6, <2>1 DEF Ordered, Owners, Owned
  <2>4. \A x \in Units : o2[x] # Pool /\ m2.next[x] = s[o2[x]] =>
            \A y \in Units : o2[y] = o2[x] => pos2[y] <= pos2[x]
    BY <1>1, <1>2, <1>3, <1>4, <1>5, <1>6, <2>1 DEF Ordered
  <2>5. ASSUME NEW x \in Units, o2[x] # Pool, m2.next[x] # s[o2[x]]
        PROVE  /\ pos2[m2.next[x]] > pos2[x]
               /\ \A y \in Units : o2[y] = o2[x] /\ pos2[y] > pos2[x] => pos2[y] >= pos2[m2.next[x]]
    <3>1. CASE x = leading
      BY <1>1, <1>2, <1>4, <1>5, <2>1, <3>1
    <3>2. CASE x = u
      BY <1>1, <1>2, <1>3, <1>4, <1>5, <2>1, <2>5, <3>2 DEF Ordered
    <3>3. CASE x # u /\ x # leading
      BY <1>1, <1>2, <1>3, <1>4, <1>5, <2>1, <2>5, <3>3 DEF Ordered
    <3> QED
      BY <3>1, <3>2, <3>3
  <2> QED
    BY <2>1, <2>2, <2>3, <2>4, <2>5 DEF Ordered
<1> QED
  BY <1>7, <1>8, <1>9, <1>10 DEF Consistent, o2, u, l

LEMMA ErasedConsistent ==
    ASSUME NEW pos, NEW m, NEW o, NEW s, Consistent(pos, m, o, s), NEW leading \in Units, o[leading] # Pool,
           m.next[leading] # s[o[leading]], NEW m2, Erased(m, leading, m2)
    PROVE  Consistent(pos, m2, [o EXCEPT ![m.next[leading]] = Pool], s)
<1> DEFINE e == m.next[leading]
           f == m.next[e]
           l == o[leading]
           o2 == [o EXCEPT ![e] = Pool]
<1>1. /\ m \in Memories /\ o \in Owners /\ s \in Sentries /\ pos \in [Units -> Nat]
      /\ Linking(m, o, Units) /\ Back(m, o, Units) /\ Ordered(pos, m, o, s, Units) /\ Owned(m, o, s)
  BY DEF Consistent, Owned
<1>2. /\ e = m.next[leading] /\ f = m.next[e] /\ l = o[leading] /\ l \in Lists /\ l # Pool
      /\ e \in Units /\ o[e] = l /\ f \in Units /\ o[f] = l /\ e # m.first
  BY <1>1, Follows, PoolAssumption DEF Owners
<1>3. e # leading /\ f # e /\ e # s[l]
  BY <1>1, <1>2 DEF Ordered, Linking
<1>4. \A x \in Units : o[x] # Pool => m.next[x] \in Units /\ o[m.next[x]] = o[x]
  BY <1>1, Follows
<1>5. /\ m2 \in Memories /\ m2.first = e
      /\ \A x \in Units : m2.next[x] = IF x = e THEN m.first ELSE IF x = leading THEN f ELSE m.next[x]
      /\ bidirectional => \A x \in Units : m2.previous[x] =
            IF x = e THEN 0 ELSE IF x = f THEN leading ELSE m.previous[x]
  BY <1>2, <1>3 DEF Erased
<1>6. /\ o2 \in Owners /\ o2[e] = Pool
      /\ \A x \in Units : x # e => o2[x] = o[x]
      /\ \A x \in Units : m.next[x] \in Units \cup {UnitCount}
  BY <1>1, <1>2 DEF Owners, Memories
<1> HIDE DEF e, f, l, o2
<1>7. Owned(m2, o2, s)
  <2>1. \A x \in Units : o2[x] # Pool => s[o2[x]] # NoUnit
    BY <1>1, <1>6 DEF Owned
  <2>2. \A k \in Lists : s[k] # NoUnit => o2[s[k]] = k
    BY <1>1, <1>2, <1>3, <1>6 DEF Owned, Sentries
  <2> QED
    BY <1>1, <1>5, <1>6, <2>1, <2>2 DEF Owned
<1>8. Linking(m2, o2, Units)
  <2>1. m.first \in Units \cup {UnitCount} /\ (m.first \in Units => o[m.first] = Pool)
    BY <1>1 DEF Owned, Memories
  <2>2. \A x, y \in Units : m2.next[x] = m2.next[y] => x = y
    BY <1>1, <1>2, <1>3, <1>5 DEF Linking
  <2>3. \A x \in Units : m2.next[x] # m2.first
    BY <1>1, <1>2, <1>3, <1>5 DEF Linking
  <2>4. \A x \in Units : m2.next[x] = UnitCount => o2[x] = Pool
    BY <1>1, <1>2, <1>5, <1>6, Bounds DEF Linking
  <2>5. \A x \in Units : m2.next[x] # UnitCount => o2[m2.next[x]] = o2[x]
    <3>1. \A x \in Units : x # leading => m.next[x] # e
      BY <1>1, <1>2 DEF Linking
    <3> QED
      BY <1>1, <1>2, <1>3, <1>5, <1>6, <2>1, <3>1, Bounds DEF Linking
  <2>6. \A x \in Units : bidirectional /\ o2[x] # Pool => m2.previous[m2.next[x]] = x
    <3>1. \A x \in Units : x # leading => m.next[x] # e
      BY <1>1, <1>2 DEF Linking
    <3>2. \A x \in Units : x # e => m.next[x] # f
      BY <1>1, <1>2 DEF Linking
    <3> QED
      BY <1>1, <1>2, <1>3, <1>4, <1>5, <1>6, <3>1, <3>2 DEF Linking
  <2> QED
    BY <2>2, <2>3, <2>4, <2>5, <2>6 DEF Linking
<1>9. Back(m2, o2, Units)
  <2>1. SUFFICES ASSUME bidirectional, NEW v \in Units, o2[v] # Pool
                 PROVE  o2[m2.previous[v]] = o2[v] /\ m2.next[m2.previous[v]] = v
    BY DEF Back
  <2>2. v # e /\ o2[v] = o[v] /\ o[m.previous[v]] = o[v] /\ m.next[m.previous[v]] = v /\ m.previous[v] \in Units
    BY <1>1, <1>6, <2>1 DEF Back, Memories
  <2>3. CASE v = f
    BY <1>2, <1>3, <1>5, <1>6, <2>1, <2>2, <2>3
  <2>4. CASE v # f
    BY <1>2, <1>3, <1>5, <1>6, <2>1, <2>2, <2>4
  <2> QED
    BY <2>3, <2>4
<1>10. Ordered(pos, m2, o2, s, Units)
  <2>1. /\ \A x, y \in Units : o2[x] = o2[y] /\ o2[x] # Pool /\ pos[x] = pos[y] => x = y
        /\ \A x \in Units : o2[x] # Pool => pos[s[o2[x]]] <= pos[x]
    BY <1>1, <1>2, <1>6 DEF Ordered
  <2>2. /\ pos[e] > pos[leading]
        /\ \A v \in Units : o[v] = l /\ pos[v] > pos[leading] => pos[v] >= pos[e]
    BY <1>1, <1>2, <1>3 DEF Ordered
  <2>3. ASSUME NEW x \in Units, o2[x] # Pool, m2.next[x] = s[o2[x]], NEW v \in Units, o2[v] = o2[x]
        PROVE  pos[v] <= pos[x]
    <3>1. CASE x = leading
      <4>1. f = s[l] /\ o[v] = l /\ v # e
        BY <1>2, <1>3, <1>5, <1>6, <2>3, <3>1
      <4>2. pos[v] <= pos[e]
        BY <1>1, <1>2, <4>1 DEF Ordered
      <4> QED
        BY <1>1, <1>2, <2>2, <3>1, <4>1, <4>2 DEF Ordered
    <3>2. CASE x # leading
      BY <1>1, <1>2, <1>5, <1>6, <2>3, <3>2 DEF Ordered
    <3> QED
      BY <3>1, <3>2
  <2>4. ASSUME NEW x \in Units, o2[x] # Pool, m2.next[x] # s[o2[x]]
        PROVE  /\ pos[m2.next[x]] > pos[x]
               /\ \A v \in Units : o2[v] = o2[x] /\ pos[v] > pos[x] => pos[v] >= pos[m2.next[x]]
    <3>1. CASE x = leading
      <4>1. m2.next[x] = f /\ f # s[l] /\ o2[x] = l
        BY <1>2, <1>3, <1>5, <1>6, <2>4, <3>1
      <4>2. /\ pos[f] > pos[e]
            /\ \A v \in Units : o[v] = l /\ pos[v] > pos[e] => pos[v] >= pos[f]
        BY <1>1, <1>2, <4>1 DEF Ordered
      <4>3. \A v \in Units : o2[v] = l /\ pos[v] > pos[leading] => pos[v] > pos[e]
        BY <1>1, <1>2, <1>6, <2>2 DEF Ordered
      <4> QED
        BY <1>1, <1>2, <1>6, <2>2, <3>1, <4>1, <4>2, <4>3
    <3>2. CASE x # leading
      BY <1>1, <1>2, <1>5, <1>6, <2>4, <3>2 DEF Ordered
    <3> QED
      BY <3>1, <3>2
  <2> QED
    BY <2>1, <2>3, <2>4 DEF Ordered
<1> QED
  BY <1>1, <1>7, <1>8, <1>9, <1>10 DEF Consistent, o2, e

\* A sentry is created.
LEMMA InitializedConsistent ==
    ASSUME NEW pos, NEW m, NEW o, NEW s, Consistent(pos, m, o, s), m.first \in Units,
           NEW l \in Lists, s[l] = NoUnit
    PROVE  Consistent(pos, Connect(Allocate(m), m.first, m.first),
                      [o EXCEPT ![m.first] = l], [s EXCEPT ![l] = m.first])
<1> DEFINE u == m.first
           m2 == Connect(Allocate(m), u, u)
           o2 == [o EXCEPT ![u] = l]
           s2 == [s EXCEPT ![l] = u]
<1>1. /\ m \in Memories /\ o \in Owners /\ s \in Sentries /\ pos \in [Units -> Nat]
      /\ Linking(m, o, Units) /\ Back(m, o, Units) /\ Ordered(pos, m, o, s, Units) /\ Owned(m, o, s)
  BY DEF Consistent, Owned
<1>2. /\ Allocate(m) \in Memories
      /\ Allocate(m).next = m.next /\ Allocate(m).previous = m.previous /\ Allocate(m).first = m.next[u]
  BY <1>1, Allocates
<1>3. Connected(Allocate(m), u, u, m2)
  BY <1>2, Connects
<1>4. /\ m2 \in Memories /\ m2.first = m.next[u]
      /\ \A x \in Units : m2.next[x] = IF x = u THEN u ELSE m.next[x]
      /\ bidirectional => \A x \in Units : m2.previous[x] = IF x = u THEN u ELSE m.previous[x]
  BY <1>2, <1>3 DEF Connected
<1>5. u = m.first /\ u \in Units /\ l # Pool /\ o[u] = Pool /\ u # NoUnit
  BY <1>1, PoolAssumption, Bounds DEF Owned
<1>6. /\ \A x \in Units : o[x] # l /\ (o[x] # Pool => o[x] \in Lists)
      /\ o2 \in Owners /\ o2[u] = l /\ (\A x \in Units : x # u => o2[x] = o[x])
      /\ s2 \in Sentries /\ s2[l] = u /\ (\A k \in Lists : k # l => s2[k] = s[k])
      /\ \A k \in Lists : k # l /\ s[k] # NoUnit => s[k] \in Units /\ s[k] # u /\ o[s[k]] = k
  BY <1>1, <1>5, PoolAssumption DEF Owned, Owners, Sentries
<1>7. /\ \A x \in Units : o[x] # Pool => m.next[x] \in Units /\ o[m.next[x]] = o[x] /\ m.next[x] # u
      /\ \A x \in Units : m.next[x] \in Units \cup {UnitCount}
  BY <1>1, Follows DEF Memories
<1> HIDE DEF u, m2, o2, s2
<1>8. Owned(m2, o2, s2)
  <2>1. m2.first \in Units => o2[m2.first] = Pool
    BY <1>1, <1>4, <1>5, <1>6, Bounds DEF Linking
  <2>2. \A x \in Units : o2[x] # Pool => s2[o2[x]] # NoUnit
    BY <1>1, <1>5, <1>6 DEF Owned
  <2>3. \A k \in Lists : s2[k] # NoUnit => o2[s2[k]] = k
    BY <1>5, <1>6
  <2> QED
    BY <1>4, <1>6, <2>1, <2>2, <2>3 DEF Owned
<1>9. Linking(m2, o2, Units)
  <2>1. \A x, y \in Units : m2.next[x] = m2.next[y] => x = y
    BY <1>1, <1>4, <1>5 DEF Linking
  <2>2. \A x \in Units : m2.next[x] # m2.first
    BY <1>1, <1>4, <1>5 DEF Linking
  <2>3. \A x \in Units : m2.next[x] = UnitCount => o2[x] = Pool
    BY <1>1, <1>4, <1>5, <1>6, Bounds DEF Linking
  <2>4. \A x \in Units : m2.next[x] # UnitCount => o2[m2.next[x]] = o2[x]
    BY <1>1, <1>4, <1>5, <1>6, <1>7 DEF Linking
  <2>5. \A x \in Units : bidirectional /\ o2[x] # Pool => m2.previous[m2.next[x]] = x
    BY <1>1, <1>4, <1>5, <1>6, <1>7 DEF Linking
  <2> QED
    BY <2>1, <2>2, <2>3, <2>4, <2>5 DEF Linking
<1>10. Back(m2, o2, Units)
  <2>1. SUFFICES ASSUME bidirectional, NEW v \in Units, o2[v] # Pool
                 PROVE  o2[m2.previous[v]] = o2[v] /\ m2.next[m2.previous[v]] = v
    BY DEF Back
  <2>2. CASE v = u
    BY <1>4, <1>5, <1>6, <2>1, <2>2
  <2>3. CASE v # u
    <3>1. o2[v] = o[v] /\ o[m.previous[v]] = o[v] /\ m.next[m.previous[v]] = v /\ m.previous[v] \in Units
      BY <1>1, <1>6, <2>1, <2>3 DEF Back, Memories
    <3> QED
      BY <1>4, <1>5, <1>6, <2>1, <2>3, <3>1
  <2> QED
    BY <2>2, <2>3
<1>11. Ordered(pos, m2, o2, s2, Units)
  BY <1>1, <1>4, <1>5, <1>6, <1>7 DEF Ordered
<1> QED
  BY <1>1, <1>8, <1>9, <1>10, <1>11 DEF Consistent, m2, o2, s2, u

\* Two lists change their sentries, and with them all that is in them.
LEMMA SwappedConsistent ==
    ASSUME NEW pos, NEW m, NEW o, NEW s, Consistent(pos, m, o, s),
           NEW a \in Lists, NEW b \in Lists, s[a] # NoUnit, s[b] # NoUnit,
           NEW o2 \in Owners, NEW s2 \in Sentries,
           s2[a] = s[b], s2[b] = s[a], \A k \in Lists : k # a /\ k # b => s2[k] = s[k],
           \A u \in Units : o2[u] = IF o[u] = a THEN b ELSE IF o[u] = b THEN a ELSE o[u]
    PROVE  Consistent(pos, m, o2, s2)
<1>1. /\ m \in Memories /\ o \in Owners /\ s \in Sentries /\ pos \in [Units -> Nat]
      /\ Linking(m, o, Units) /\ Back(m, o, Units) /\ Ordered(pos, m, o, s, Units) /\ Owned(m, o, s)
  BY DEF Consistent, Owned
<1>2. /\ \A x, y \in Units : o2[x] = o2[y] <=> o[x] = o[y]
      /\ \A x \in Units : o2[x] = Pool <=> o[x] = Pool
      /\ \A x \in Units : o[x] # Pool => o[x] \in Lists /\ o2[x] \in Lists /\ s2[o2[x]] = s[o[x]]
  BY <1>1, PoolAssumption DEF Owners
<1>3. Owned(m, o2, s2)
  <2>1. \A k \in Lists : s2[k] # NoUnit => o2[s2[k]] = k
    BY <1>1, <1>2 DEF Owned, Sentries
  <2> QED
    BY <1>1, <1>2, <2>1 DEF Owned
<1>4. Linking(m, o2, Units)
  BY <1>1, <1>2, Bounds DEF Linking, Memories
<1>5. Back(m, o2, Units)
  BY <1>1, <1>2 DEF Back, Memories
<1>6. Ordered(pos, m, o2, s2, Units)
  BY <1>1, <1>2 DEF Ordered
<1> QED
  BY <1>1, <1>3, <1>4, <1>5, <1>6 DEF Consistent

\* A unit is allocated and given back.
LEMMA ReturnedConsistent ==
    ASSUME NEW pos, NEW m, NEW o, NEW s, Consistent(pos, m, o, s), m.first \in Units
    PROVE  /\ Consistent(pos, Deallocate(Allocate(m), m.first), o, s)
           /\ Deallocate(Allocate(m), m.first).first = m.first
           /\ \A x \in Units : Deallocate(Allocate(m), m.first).next[x] = m.next[x]
<1> DEFINE a == Allocate(m)
           m2 == Deallocate(a, m.first)
<1>1. /\ m \in Memories /\ o \in Owners /\ s \in Sentries /\ pos \in [Units -> Nat]
      /\ Linking(m, o, Units) /\ Back(m, o, Units) /\ Ordered(pos, m, o, s, Units) /\ Owned(m, o, s)
  BY DEF Consistent, Owned
<1>2. /\ a \in Memories
      /\ a.next = m.next /\ a.previous = m.previous /\ a.first = m.next[m.first]
  BY <1>1, Allocates
<1>3. Deallocated(a, m.first, m2)
  BY <1>2, Deallocates
<1>4. /\ m2 \in Memories /\ m2.first = m.first
      /\ \A x \in Units : m2.next[x] = m.next[x]
      /\ \A x \in Units : m2.previous[x] = IF x = m.first THEN 0 ELSE m.previous[x]
  BY <1>2, <1>3 DEF Deallocated
<1> HIDE DEF a, m2
<1>5. \A x \in Units : o[x] # Pool =>
        m.next[x] \in Units /\ m.next[x] # m.first /\ m.previous[x] \in Units /\ x # m.first
  BY <1>1, Follows DEF Memories, Owned
<1>6. Owned(m2, o, s)
  BY <1>1, <1>4 DEF Owned
<1>7. Linking(m2, o, Units)
  BY <1>1, <1>4, <1>5 DEF Linking
<1>8. Back(m2, o, Units)
  BY <1>1, <1>4, <1>5 DEF Back
<1>9. Ordered(pos, m2, o, s, Units)
  BY <1>1, <1>4 DEF Ordered
<1> QED
  BY <1>1, <1>4, <1>6, <1>7, <1>8, <1>9 DEF Consistent, m2, a

-----------------------------------------------------------------------------
(* The invariant                                                           *)

LEMMA Starts == LinkedInit => IInv
<1> SUFFICES ASSUME LinkedInit PROVE IInv
  OBVIOUS
<1>1. /\ memory \in Memories /\ memory.first = 0
      /\ \A u \in Units : memory.next[u] = u + 1 /\ u \in Nat /\ u < UnitCount
  BY UnitCountAssumption DEF LinkedInit, Filled, Memories, Units
<1>2. call = Idle /\ call.op = "idle" /\ bidirectional \in BOOLEAN
  BY DEF LinkedInit, Idle
<1>3. owner \in Owners /\ sentry \in Sentries /\ (\A u \in Units : owner[u] = Pool)
        /\ \A l \in Lists : sentry[l] = NoUnit
  BY DEF LinkedInit, Owners, Sentries
<1>4. Owned(memory, owner, sentry)
  BY <1>1, <1>3 DEF Owned
<1>5. Followed \subseteq Units /\ Kept \subseteq Units
  BY DEF Followed, Kept
<1>6. Linking(memory, owner, Followed) /\ Back(memory, owner, Kept)
  BY <1>1, <1>3, <1>5, UnitCountAssumption DEF Linking, Back, Units
<1>7. \E pos \in [Units -> Nat] : Ordered(pos, memory, owner, sentry, Followed) /\ Past(pos)
  <2> DEFINE pos == [u \in Units |-> 0]
  <2>1. Ordered(pos, memory, owner, sentry, Followed) /\ Past(pos)
    BY <1>2, <1>3, <1>5 DEF Ordered, Past
  <2> QED
    BY <2>1
<1> QED
  BY <1>2, <1>4, <1>6, <1>7 DEF IInv

\* While nothing is destroyed, all units are followed.
LEMMA Whole ==
    ASSUME IInv, call.op # "uninitialize"
    PROVE  \E pos : Consistent(pos, memory, owner, sentry)
BY DEF IInv, Followed, Leaving, Kept, Consistent

\* What is left to show of a step after which nothing is destroyed.
LEMMA Keeps ==
    ASSUME bidirectional \in BOOLEAN, UNCHANGED bidirectional,
           NEW pos, Consistent(pos, memory', owner', sentry'),
           call' = Idle \/ Cloning', call'.op # "uninitialize"
    PROVE  IInv'
<1>1. Followed' = Units /\ Kept' = Units /\ Past(pos)'
  BY DEF Followed, Leaving, Kept, Past
<1> QED
  BY <1>1 DEF IInv, Consistent, Owned, Linking, Back, Ordered

\* And of one with which a list begins to be destroyed.
LEMMA Leaves ==
    ASSUME bidirectional \in BOOLEAN, UNCHANGED bidirectional,
           NEW pos, Consistent(pos, memory', owner', sentry'),
           NEW l \in Lists, sentry'[l] # NoUnit, NEW reason \in {"throw", "destroy"},
           call' = [op |-> "uninitialize", list |-> l, begin |-> memory'.next[sentry'[l]], reason |-> reason]
    PROVE  IInv'
<1> DEFINE b == memory'.next[sentry'[l]]
<1>1. /\ Owned(memory', owner', sentry') /\ Linking(memory', owner', Units)
      /\ Back(memory', owner', Units) /\ pos \in [Units -> Nat]
      /\ Ordered(pos, memory', owner', sentry', Units)
  BY DEF Consistent
<1>2. sentry'[l] \in Units /\ owner'[sentry'[l]] = l /\ l # Pool /\ l \in Living'
  BY <1>1, PoolAssumption DEF Owned, Sentries, Living
<1>3. b \in Units /\ owner'[b] = l
  BY <1>1, <1>2, Follows
<1>4. /\ Followed' = Units \ {sentry'[l]}
      /\ Kept' = Units \ Of(l)'
      /\ call'.op = "uninitialize" /\ call'.list = l /\ call'.begin = b
  BY DEF Followed, Leaving, Kept
<1>5. Linking(memory', owner', Followed') /\ Back(memory', owner', Kept')
      /\ Ordered(pos, memory', owner', sentry', Followed')
  BY <1>1, <1>4 DEF Linking, Back, Ordered
<1>6. Uninitializes'
  BY <1>1, <1>2, <1>3, <1>4 DEF Linking, Uninitializes
<1>7. Past(pos)'
  <2>1. SUFFICES ASSUME NEW u \in Units, owner'[u] = l, u # sentry'[l]
                 PROVE  b # sentry'[l] /\ pos[u] >= pos[b]
    BY <1>4 DEF Past, Of
  <2>2. pos[u] > pos[sentry'[l]]
    BY <1>1, <1>2, <2>1 DEF Ordered
  <2>3. b # sentry'[l]
    BY <1>1, <1>2, <2>1, <2>2 DEF Ordered
  <2> QED
    BY <1>1, <1>2, <2>1, <2>2, <2>3 DEF Ordered
<1> QED
  BY <1>1, <1>5, <1>6, <1>7 DEF IInv, Owned, Linking, Back, Ordered

-----------------------------------------------------------------------------
(* The calls                                                               *)

LEMMA InitializesSentry ==
    ASSUME IInv, call.op # "uninitialize", NEW l \in Lists, InitializeSentry(l)
    PROVE  /\ \E pos : Consistent(pos, memory', owner', sentry')
           /\ memory.first \in Units /\ memory'.next[memory.first] = memory.first
<1>1. PICK pos : Consistent(pos, memory, owner, sentry)
  BY Whole
<1>2. memory.first \in Units /\ memory \in Memories /\ sentry[l] = NoUnit
  BY <1>1 DEF Consistent, Owned, Memories, InitializeSentry, Exhausted, Living
<1>3. /\ memory' = Connect(Allocate(memory), memory.first, memory.first)
      /\ owner' = [owner EXCEPT ![memory.first] = l]
      /\ sentry' = [sentry EXCEPT ![l] = memory.first]
  BY DEF InitializeSentry, Take
<1>4. Connected(Allocate(memory), memory.first, memory.first, memory')
  BY <1>2, <1>3, Allocates, Connects
<1> QED
  BY <1>1, <1>2, <1>3, <1>4, InitializedConsistent DEF Connected

LEMMA Positions == ASSUME IInv PROVE owner \in Owners /\ memory \in Memories /\ sentry \in Sentries
        /\ bidirectional \in BOOLEAN
BY DEF IInv, Owned

LEMMA Creates ==
    ASSUME IInv, NEW l \in Lists, Initialize(l) PROVE IInv'
<1>1. call.op # "uninitialize" /\ call' = Idle /\ call'.op # "uninitialize"
  BY DEF Initialize, Return, Idle
<1>2. \E pos : Consistent(pos, memory', owner', sentry')
  BY <1>1, InitializesSentry DEF Initialize
<1> QED
  BY <1>1, <1>2, Positions, Keeps DEF Initialize

\* Both insertions are one after some unit of the list.
LEMMA InsertsSome ==
    ASSUME IInv, NEW l \in Lists, NEW position \in Units, NEW x \in Items,
           Emplace(l, position, x) \/ EmplaceAfter(l, position, x)
    PROVE  /\ call = Idle /\ call' = Idle /\ UNCHANGED <<bidirectional, sentry>> /\ l # Pool
           /\ memory.first \in Units /\ Take(memory.first, l, x) /\ answer' = Answer("insert", memory.first)
           /\ \E leading \in Units : owner[leading] = l /\ LinkedBehind(memory, leading, memory')
<1>1. /\ call.op # "uninitialize" /\ call = Idle /\ call' = Idle
      /\ UNCHANGED <<bidirectional, sentry>> /\ owner[position] = l /\ l # Pool
      /\ Take(memory.first, l, x)
  BY PoolAssumption DEF Emplace, EmplaceAfter, Return, Idle
<1>2. PICK pos : Consistent(pos, memory, owner, sentry)
  BY <1>1, Whole
<1>3. memory.first \in Units /\ memory \in Memories /\ owner[memory.first] = Pool
  BY <1>2 DEF Consistent, Owned, Memories, Emplace, EmplaceAfter, Exhausted
<1>4. ASSUME NEW leading \in Units, owner[leading] = l,
             memory' = InsertedAfter(Allocate(memory), leading, memory.first)
      PROVE  LinkedBehind(memory, leading, memory')
  BY <1>1, <1>2, <1>3, <1>4, Follows, InsertsAfter DEF Consistent
<1>5. CASE Emplace(l, position, x)
  <2>1. /\ memory.previous[position] \in Units
        /\ owner[memory.previous[position]] = l /\ memory.next[memory.previous[position]] = position
    BY <1>1, <1>2, <1>3, <1>5 DEF Emplace, Consistent, Back, Memories
  <2>2. LinkedBehind(memory, memory.previous[position], memory')
    BY <1>3, <1>4, <1>5, <2>1, InsertsBefore DEF Emplace
  <2>3. answer' = Answer("insert", memory'.previous[position])
    BY <1>5 DEF Emplace, Return
  <2>4. memory'.previous[position] = memory.first
    BY <1>1, <1>3, <1>5, <2>1, <2>2 DEF Emplace, LinkedBehind
  <2> QED
    BY <1>1, <1>3, <2>1, <2>2, <2>3, <2>4
<1>6. CASE EmplaceAfter(l, position, x)
  <2>1. LinkedBehind(memory, position, memory')
    BY <1>1, <1>4, <1>6 DEF EmplaceAfter
  <2>2. answer' = Answer("insert", memory'.next[position])
    BY <1>6 DEF EmplaceAfter, Return
  <2>3. memory'.next[position] = memory.first
    BY <2>1 DEF LinkedBehind
  <2> QED
    BY <1>1, <1>3, <2>1, <2>2, <2>3
<1> QED
  BY <1>5, <1>6

LEMMA InsertsIt ==
    ASSUME IInv, NEW l \in Lists, NEW position \in Units, NEW x \in Items,
           Emplace(l, position, x) \/ EmplaceAfter(l, position, x)
    PROVE  IInv'
<1>1. PICK leading \in Units : owner[leading] = l /\ LinkedBehind(memory, leading, memory')
  BY InsertsSome
<1>2. /\ call.op # "uninitialize" /\ call' = Idle /\ call'.op # "uninitialize"
      /\ UNCHANGED <<bidirectional, sentry>> /\ l # Pool /\ memory.first \in Units
      /\ owner' = [owner EXCEPT ![memory.first] = l]
  BY InsertsSome DEF Idle, Take
<1>3. \E pos2 : Consistent(pos2, memory', owner', sentry)
  BY <1>1, <1>2, Whole, InsertedConsistent
<1> QED
  BY <1>2, <1>3, Positions, Keeps

\* Both erasures are of what comes after some unit of the list.
LEMMA ErasesSome ==
    ASSUME IInv, NEW l \in Lists, NEW u \in Units, EraseNode(l, u) \/ EraseAfter(l, u)
    PROVE  /\ call = Idle /\ call' = Idle /\ UNCHANGED <<bidirectional, sentry>> /\ l # Pool /\ l \in Living
           /\ \E leading \in Units :
                /\ owner[leading] = l /\ Erased(memory, leading, memory')
                /\ memory.next[leading] \in Units /\ memory.next[leading] # sentry[l]
                /\ Take(memory.next[leading], Pool, NoItem)
                /\ \/ answer'.of = "erase"
                   \/ answer' = Answer("eraseAfter", memory.next[memory.next[leading]])
<1>1. /\ call.op # "uninitialize" /\ call = Idle /\ call' = Idle
      /\ UNCHANGED <<bidirectional, sentry>> /\ l # Pool /\ l \in Living
  BY PoolAssumption DEF EraseNode, EraseAfter, Return, Idle
<1>2. PICK pos : Consistent(pos, memory, owner, sentry)
  BY <1>1, Whole
<1>3. memory \in Memories
  BY <1>2 DEF Consistent, Owned
<1>4. ASSUME NEW leading \in Units, owner[leading] = l, memory.next[leading] # sentry[l]
      PROVE  /\ memory.next[leading] \in Units /\ memory.next[memory.next[leading]] \in Units
             /\ memory.next[leading] # leading
             /\ Erased(memory, leading, Deallocate(PoppedAfter(memory, leading), memory.next[leading]))
  <2>1. memory.next[leading] \in Units /\ memory.next[memory.next[leading]] \in Units
    BY <1>1, <1>2, <1>4, Follows DEF Consistent
  <2>2. memory.next[leading] # leading
    BY <1>1, <1>2, <1>4 DEF Consistent, Ordered
  <2> QED
    BY <1>3, <2>1, <2>2, ErasesAfter
<1>5. CASE EraseNode(l, u)
  <2> DEFINE before == memory.previous[u]
  <2>1. before \in Units /\ owner[before] = l /\ memory.next[before] = u /\ u # sentry[l]
    BY <1>1, <1>2, <1>3, <1>5 DEF EraseNode, Nodes, Of, Consistent, Back, Memories
  <2>2. Popped(memory, u) = PoppedAfter(memory, before)
    BY <1>3, <2>1, Erases
  <2>3. memory' = Deallocate(Popped(memory, u), u) /\ Take(u, Pool, NoItem) /\ answer'.of = "erase"
    BY <1>5 DEF EraseNode, Return, Answer
  <2> HIDE DEF before
  <2> QED
    BY <1>1, <1>4, <2>1, <2>2, <2>3
<1>6. CASE EraseAfter(l, u)
  <2>1. /\ owner[u] = l /\ memory.next[u] # sentry[l] /\ Take(memory.next[u], Pool, NoItem)
        /\ memory' = Deallocate(PoppedAfter(memory, u), memory.next[u])
        /\ answer' = Answer("eraseAfter", memory'.next[u])
    BY <1>6 DEF EraseAfter, Of, Return
  <2>2. Erased(memory, u, memory') /\ memory.next[u] \in Units /\ memory.next[u] # u
    BY <1>4, <2>1
  <2>3. memory'.next[u] = memory.next[memory.next[u]]
    BY <2>2 DEF Erased
  <2> QED
    BY <1>1, <2>1, <2>2, <2>3
<1> QED
  BY <1>5, <1>6

LEMMA ErasesIt ==
    ASSUME IInv, NEW l \in Lists, NEW u \in Units, EraseNode(l, u) \/ EraseAfter(l, u)
    PROVE  IInv'
<1>1. PICK leading \in Units :
        /\ owner[leading] = l /\ Erased(memory, leading, memory') /\ memory.next[leading] # sentry[l]
        /\ Take(memory.next[leading], Pool, NoItem)
  BY ErasesSome
<1>2. /\ call.op # "uninitialize" /\ call' = Idle /\ call'.op # "uninitialize"
      /\ UNCHANGED <<bidirectional, sentry>> /\ l # Pool
  BY ErasesSome DEF Idle
<1>3. PICK pos : Consistent(pos, memory, owner, sentry)
  BY <1>2, Whole
<1>4. Consistent(pos, memory', owner', sentry)
  BY <1>1, <1>2, <1>3, ErasedConsistent DEF Take
<1> QED
  BY <1>2, <1>4, Positions, Keeps

LEMMA Throws ==
    ASSUME IInv, NEW l \in Lists, EmplaceFails(l) PROVE IInv'
<1>1. /\ call.op # "uninitialize" /\ call' = Idle /\ call'.op # "uninitialize"
      /\ UNCHANGED <<bidirectional, sentry, owner>>
  BY DEF EmplaceFails, Return, Idle
<1>2. PICK pos : Consistent(pos, memory, owner, sentry)
  BY <1>1, Whole
<1>3. memory.first \in Units \/ Exhausted
  BY <1>2 DEF Consistent, Owned, Memories, Exhausted
<1>4. Consistent(pos, memory', owner, sentry)
  BY <1>2, <1>3, ReturnedConsistent DEF EmplaceFails
<1> QED
  BY <1>1, <1>4, Positions, Keeps

LEMMA Swaps ==
    ASSUME IInv, NEW l \in Lists, NEW m \in Lists, SwapWith(l, m) PROVE IInv'
<1>1. /\ call.op # "uninitialize" /\ call' = Idle /\ call'.op # "uninitialize"
      /\ UNCHANGED <<bidirectional, memory>> /\ l # Pool /\ m # Pool
      /\ sentry[l] # NoUnit /\ sentry[m] # NoUnit
  BY PoolAssumption DEF SwapWith, Return, Idle, Living
<1>2. PICK pos : Consistent(pos, memory, owner, sentry)
  BY <1>1, Whole
<1>3. /\ owner' \in Owners /\ sentry' \in Sentries
      /\ sentry'[l] = sentry[m] /\ sentry'[m] = sentry[l]
      /\ \A k \in Lists : k # l /\ k # m => sentry'[k] = sentry[k]
      /\ \A u \in Units : owner'[u] = IF owner[u] = l THEN m ELSE IF owner[u] = m THEN l ELSE owner[u]
  BY <1>1, Positions DEF SwapWith, Owners, Sentries
<1>4. Consistent(pos, memory, owner', sentry')
  BY <1>1, <1>2, <1>3, SwappedConsistent
<1> QED
  BY <1>1, <1>4, Positions, Keeps

LEMMA ClonesFrom ==
    ASSUME IInv, NEW l \in Lists, NEW m \in Lists, CloneTo(l, m) PROVE IInv'
<1>1. /\ call.op # "uninitialize" /\ call'.op = "clone" /\ UNCHANGED bidirectional
      /\ call' = [op |-> "clone", from |-> l, to |-> m,
                  begin |-> memory.next[sentry[l]], current |-> memory.first]
      /\ l # Pool /\ sentry[l] # NoUnit /\ sentry[m] = NoUnit
      /\ sentry' = [sentry EXCEPT ![m] = memory.first] /\ owner' = [owner EXCEPT ![memory.first] = m]
  BY PoolAssumption DEF CloneTo, InitializeSentry, Take, Idle, Living
<1>2. PICK pos : Consistent(pos, memory, owner, sentry)
  BY <1>1, Whole
<1>3. (\E p : Consistent(p, memory', owner', sentry')) /\ memory.first \in Units
  BY <1>1, InitializesSentry DEF CloneTo
<1>4. sentry[l] \in Units /\ owner[sentry[l]] = l
  BY <1>1, <1>2 DEF Consistent, Owned, Sentries
<1>5. memory.next[sentry[l]] \in Units /\ owner[memory.next[sentry[l]]] = l
        /\ memory.next[sentry[l]] # memory.first
  BY <1>1, <1>2, <1>4, Follows DEF Consistent
<1>6. l \in Living' /\ m \in Living'
  BY <1>1, <1>3, Positions, Bounds DEF Living, Sentries
<1>7. Cloning'
  BY <1>1, <1>3, <1>5, <1>6, Positions DEF Cloning, Owners
<1> QED
  BY <1>1, <1>3, <1>7, Positions, Keeps

LEMMA ClonesOne == ASSUME IInv, CloneOne PROVE IInv'
<1>1. /\ call.op = "clone" /\ Cloning /\ UNCHANGED <<bidirectional, sentry>>
      /\ owner' = [owner EXCEPT ![memory.first] = call.to]
      /\ memory' = InsertedAfter(Allocate(memory), call.current, memory.first)
      /\ call' = [call EXCEPT !.begin = memory'.next[@], !.current = memory.first]
  BY DEF IInv, CloneOne, Take, Idle, Uninitializes
<1>2. PICK pos : Consistent(pos, memory, owner, sentry)
  BY <1>1, Whole
<1>3. memory.first \in Units /\ memory \in Memories /\ owner[memory.first] = Pool
  BY <1>2 DEF Consistent, Owned, Memories, CloneOne, Exhausted
<1>4. /\ call.from \in Lists /\ call.to \in Lists /\ call.from # Pool /\ call.to # Pool
      /\ call.current \in Units /\ owner[call.current] = call.to
      /\ call.begin \in Units /\ owner[call.begin] = call.from
  BY <1>1, PoolAssumption DEF Cloning, Living
<1>5. memory.next[call.current] \in Units
  BY <1>2, <1>4, Follows DEF Consistent
<1>6. LinkedBehind(memory, call.current, memory')
  BY <1>1, <1>3, <1>4, <1>5, InsertsAfter
<1>7. PICK p : Consistent(p, memory', owner', sentry)
  <2>1. owner' = [owner EXCEPT ![memory.first] = owner[call.current]]
    BY <1>1, <1>4
  <2>2. \E p : Consistent(p, memory', [owner EXCEPT ![memory.first] = owner[call.current]], sentry)
    BY <1>2, <1>3, <1>4, <1>6, InsertedConsistent
  <2> QED
    BY <2>1, <2>2
<1>8. /\ owner'[call.begin] = call.from /\ owner'[memory.first] = call.to
  BY <1>1, <1>3, <1>4, Positions DEF Owners
<1>9. memory'.next[call.begin] \in Units /\ owner'[memory'.next[call.begin]] = call.from
  BY <1>4, <1>7, <1>8, Follows DEF Consistent
<1>10. Cloning' /\ call'.op # "uninitialize"
  BY <1>1, <1>3, <1>8, <1>9 DEF Cloning, Living
<1> QED
  BY <1>1, <1>7, <1>10, Positions, Keeps

LEMMA ClonesAll == ASSUME IInv, Cloned PROVE IInv'
<1>1. /\ call.op # "uninitialize" /\ call' = Idle /\ call'.op # "uninitialize"
      /\ UNCHANGED <<bidirectional, memory, sentry, owner>>
  BY DEF Cloned, Return, Idle
<1> QED
  BY <1>1, Whole, Positions, Keeps

LEMMA FailsToClone == ASSUME IInv, CloneFails PROVE IInv'
<1>1. /\ call.op = "clone" /\ Cloning /\ UNCHANGED <<bidirectional, sentry, owner>>
  BY DEF IInv, CloneFails, Idle, Uninitializes
<1>2. PICK pos : Consistent(pos, memory, owner, sentry)
  BY <1>1, Whole
<1>3. memory.first \in Units \/ Exhausted
  BY <1>2 DEF Consistent, Owned, Memories, Exhausted
<1>4. Consistent(pos, memory', owner, sentry) /\ \A x \in Units : memory'.next[x] = memory.next[x]
  BY <1>2, <1>3, ReturnedConsistent DEF CloneFails
<1>5. call.to \in Lists /\ sentry[call.to] # NoUnit /\ sentry[call.to] \in Units
  BY <1>1, Positions DEF Cloning, Living, Sentries
<1>6. call' = [op |-> "uninitialize", list |-> call.to,
               begin |-> memory'.next[sentry'[call.to]], reason |-> "throw"]
  BY <1>1, <1>4, <1>5 DEF CloneFails, Uninitializing
<1> QED
  BY <1>1, <1>4, <1>5, <1>6, Positions, Leaves

LEMMA Destroys == ASSUME IInv, NEW l \in Lists, Uninitialize(l) PROVE IInv'
<1>1. /\ call.op # "uninitialize" /\ UNCHANGED <<memory, bidirectional, sentry, owner>> /\ sentry[l] # NoUnit
      /\ call' = [op |-> "uninitialize", list |-> l, begin |-> memory.next[sentry[l]], reason |-> "destroy"]
  BY DEF Uninitialize, Uninitializing, Idle, Living
<1> QED
  BY <1>1, Whole, Positions, Leaves

\* The destructor has come to b, and gives it back.
LEMMA DestroysOne == ASSUME IInv, UninitializeOne PROVE IInv'
<1> DEFINE b == call.begin
           l == call.list
           z == sentry[l]
<1>1. /\ call.op = "uninitialize" /\ Uninitializes /\ UNCHANGED <<bidirectional, sentry>>
      /\ b # z /\ memory' = Deallocate(memory, b) /\ owner' = [owner EXCEPT ![b] = Pool]
      /\ call' = [call EXCEPT !.begin = memory.next[b]]
  BY DEF IInv, UninitializeOne, Take, Idle, Cloning
<1>2. PICK pos \in [Units -> Nat] : Ordered(pos, memory, owner, sentry, Followed) /\ Past(pos)
  BY DEF IInv
<1>3. /\ Owned(memory, owner, sentry) /\ memory \in Memories /\ owner \in Owners /\ sentry \in Sentries
      /\ Linking(memory, owner, Followed) /\ Back(memory, owner, Kept)
  BY DEF IInv, Owned
<1>4. /\ l \in Lists /\ l # Pool /\ z \in Units /\ z # NoUnit /\ owner[z] = l
      /\ b \in Units /\ owner[b] = l /\ Followed = Units \ {z} /\ Kept = Units \ Of(l)
      /\ \A u \in Followed : memory.next[u] # b
  BY <1>1, <1>3, PoolAssumption DEF Uninitializes, Living, Owned, Sentries, Followed, Leaving, Kept
<1>5. memory.next[b] \in Units /\ owner[memory.next[b]] = l /\ memory.next[b] # memory.first
        /\ memory.next[b] # b
  BY <1>1, <1>3, <1>4, Follows
<1>6. Deallocated(memory, b, memory')
  BY <1>1, <1>3, <1>4, Deallocates
<1>7. /\ memory' \in Memories /\ memory'.first = b
      /\ \A x \in Units : memory'.next[x] = IF x = b THEN memory.first ELSE memory.next[x]
      /\ \A x \in Units : memory'.previous[x] = IF x = b THEN 0 ELSE memory.previous[x]
  BY <1>6 DEF Deallocated
<1>8. /\ owner' \in Owners /\ owner'[b] = Pool
      /\ \A x \in Units : x # b => owner'[x] = owner[x]
      /\ \A x \in Units : memory.next[x] \in Units \cup {UnitCount}
      /\ memory.first \in Units \cup {UnitCount} /\ (memory.first \in Units => owner[memory.first] = Pool)
  BY <1>1, <1>3, <1>4 DEF Owners, Memories, Owned
<1>9. Followed' = Units \ {z} /\ Living' = Living /\ call'.op = "uninitialize" /\ call'.list = l
        /\ Kept' = Units \ Of(l)' /\ call'.begin = memory.next[b]
  BY <1>1 DEF Followed, Leaving, Living, Kept, Uninitializes
<1>10. Owned(memory', owner', sentry)
  BY <1>1, <1>3, <1>4, <1>7, <1>8 DEF Owned
<1>11. Linking(memory', owner', Units \ {z})
  <2>1. \A x, y \in Units \ {z} : memory'.next[x] = memory'.next[y] => x = y
    BY <1>3, <1>4, <1>7 DEF Linking
  <2>2. \A x \in Units \ {z} : memory'.next[x] # memory'.first
    BY <1>3, <1>4, <1>7, <1>8 DEF Linking
  <2>3. \A x \in Units \ {z} : memory'.next[x] = UnitCount => owner'[x] = Pool
    BY <1>3, <1>4, <1>7, <1>8 DEF Linking
  <2>4. \A x \in Units \ {z} : memory'.next[x] # UnitCount => owner'[memory'.next[x]] = owner'[x]
    BY <1>3, <1>4, <1>7, <1>8 DEF Linking
  <2>5. \A x \in Units \ {z} : bidirectional /\ owner'[x] # Pool => memory'.previous[memory'.next[x]] = x
    <3>1. \A x \in Units \ {z} : owner[x] # Pool => memory.next[x] \in Units
      BY <1>3, <1>4, <1>8 DEF Linking
    <3> QED
      BY <1>3, <1>4, <1>7, <1>8, <3>1 DEF Linking
  <2> QED
    BY <2>1, <2>2, <2>3, <2>4, <2>5 DEF Linking
<1>12. Back(memory', owner', Kept')
  BY <1>3, <1>4, <1>7, <1>8, <1>9 DEF Back, Of, Memories
<1>13. Ordered(pos, memory', owner', sentry, Units \ {z})
  BY <1>2, <1>3, <1>4, <1>7, <1>8 DEF Ordered
<1>14. Uninitializes'
  <2>1. \A u \in Units \ {z} : memory'.next[u] # memory.next[b]
    BY <1>1, <1>3, <1>4, <1>5, <1>7 DEF Linking
  <2> QED
    BY <1>1, <1>4, <1>5, <1>8, <1>9, <2>1 DEF Uninitializes
<1>15. Past(pos)'
  <2>1. SUFFICES ASSUME NEW u \in Units, owner'[u] = l, u # z
                 PROVE  memory.next[b] # z /\ pos[u] >= pos[memory.next[b]]
    BY <1>1, <1>9 DEF Past, Of
  <2>2. u # b /\ owner[u] = l
    BY <1>4, <1>8, <2>1
  <2>3. pos[u] > pos[b]
    BY <1>1, <1>2, <1>4, <2>1, <2>2 DEF Past, Of, Ordered
  <2> QED
    BY <1>1, <1>2, <1>4, <2>2, <2>3 DEF Ordered
<1> QED
  BY <1>1, <1>2, <1>9, <1>10, <1>11, <1>12, <1>13, <1>14, <1>15, Positions
     DEF IInv, Owned, Linking, Back, Ordered

\* The destructor has come back to the sentry: nothing else is left of the list.
LEMMA DestroysSentry == ASSUME IInv, Uninitialized PROVE IInv'
<1> DEFINE l == call.list
           z == sentry[l]
<1>1. /\ call.op = "uninitialize" /\ Uninitializes /\ UNCHANGED bidirectional
      /\ call.begin = z /\ memory' = Deallocate(memory, z) /\ owner' = [owner EXCEPT ![z] = Pool]
      /\ sentry' = [sentry EXCEPT ![l] = NoUnit] /\ call' = Idle /\ call'.op # "uninitialize"
  BY DEF IInv, Uninitialized, Return, Take, Idle, Cloning
<1>2. PICK pos \in [Units -> Nat] : Ordered(pos, memory, owner, sentry, Followed) /\ Past(pos)
  BY DEF IInv
<1>3. /\ Owned(memory, owner, sentry) /\ memory \in Memories /\ owner \in Owners /\ sentry \in Sentries
      /\ Linking(memory, owner, Followed) /\ Back(memory, owner, Kept)
  BY DEF IInv, Owned
<1>4. /\ l \in Lists /\ l # Pool /\ z \in Units /\ z # NoUnit /\ owner[z] = l
      /\ Followed = Units \ {z} /\ Kept = Units \ Of(l)
      /\ \A u \in Followed : memory.next[u] # z
  BY <1>1, <1>3, PoolAssumption DEF Uninitializes, Living, Owned, Sentries, Followed, Leaving, Kept
<1>5. \A u \in Units : owner[u] = l => u = z
  BY <1>1, <1>2 DEF Past, Of
<1>6. Deallocated(memory, z, memory')
  BY <1>1, <1>3, <1>4, Deallocates
<1>7. /\ memory' \in Memories /\ memory'.first = z
      /\ \A x \in Units : memory'.next[x] = IF x = z THEN memory.first ELSE memory.next[x]
      /\ \A x \in Units : memory'.previous[x] = IF x = z THEN 0 ELSE memory.previous[x]
  BY <1>6 DEF Deallocated
<1>8. /\ owner' \in Owners /\ owner'[z] = Pool
      /\ \A x \in Units : x # z => owner'[x] = owner[x]
      /\ \A x \in Units : memory.next[x] \in Units \cup {UnitCount}
      /\ memory.first \in Units \cup {UnitCount} /\ (memory.first \in Units => owner[memory.first] = Pool)
      /\ sentry' \in Sentries /\ sentry'[l] = NoUnit /\ \A k \in Lists : k # l => sentry'[k] = sentry[k]
  BY <1>1, <1>3, <1>4 DEF Owners, Memories, Owned, Sentries
<1>9. Owned(memory', owner', sentry')
  <2>1. \A u \in Units : owner'[u] # Pool => sentry'[owner'[u]] # NoUnit
    BY <1>3, <1>4, <1>5, <1>8 DEF Owned, Owners
  <2>2. \A k \in Lists : sentry'[k] # NoUnit => owner'[sentry'[k]] = k
    BY <1>3, <1>4, <1>8 DEF Owned, Sentries
  <2> QED
    BY <1>7, <1>8, <2>1, <2>2 DEF Owned
<1>10. Linking(memory', owner', Units)
  <2>1. \A x, y \in Units : memory'.next[x] = memory'.next[y] => x = y
    BY <1>3, <1>4, <1>7 DEF Linking
  <2>2. \A x \in Units : memory'.next[x] # memory'.first
    BY <1>3, <1>4, <1>7, <1>8 DEF Linking
  <2>3. \A x \in Units : memory'.next[x] = UnitCount => owner'[x] = Pool
    BY <1>3, <1>4, <1>7, <1>8 DEF Linking
  <2>4. \A x \in Units : memory'.next[x] # UnitCount => owner'[memory'.next[x]] = owner'[x]
    BY <1>3, <1>4, <1>7, <1>8 DEF Linking
  <2>5. \A x \in Units : bidirectional /\ owner'[x] # Pool => memory'.previous[memory'.next[x]] = x
    <3>1. \A x \in Units \ {z} : owner[x] # Pool => memory.next[x] \in Units
      BY <1>3, <1>4, <1>8 DEF Linking
    <3> QED
      BY <1>3, <1>4, <1>7, <1>8, <3>1 DEF Linking
  <2> QED
    BY <2>1, <2>2, <2>3, <2>4, <2>5 DEF Linking
<1>11. Back(memory', owner', Units)
  BY <1>3, <1>4, <1>5, <1>7, <1>8 DEF Back, Of, Memories
<1>12. Ordered(pos, memory', owner', sentry', Units)
  BY <1>2, <1>3, <1>4, <1>5, <1>7, <1>8 DEF Ordered, Owners
<1> QED
  BY <1>1, <1>2, <1>9, <1>10, <1>11, <1>12, Positions, Keeps DEF Consistent

-----------------------------------------------------------------------------
LEMMA Steps == IInv /\ [LinkedNext]_linkedVars => IInv'
<1> SUFFICES ASSUME IInv, [LinkedNext]_linkedVars PROVE IInv'
  OBVIOUS
<1>1. ASSUME NEW l \in Lists, Initialize(l) \/ EmplaceFails(l) \/ Uninitialize(l) PROVE IInv'
  BY <1>1, Creates, Throws, Destroys
<1>2. ASSUME NEW l \in Lists, NEW u \in Units, NEW x \in Items, Emplace(l, u, x) \/ EmplaceAfter(l, u, x)
      PROVE  IInv'
  BY <1>2, InsertsIt
<1>3. ASSUME NEW l \in Lists, NEW u \in Units, EraseNode(l, u) \/ EraseAfter(l, u) PROVE IInv'
  BY <1>3, ErasesIt
<1>4. ASSUME NEW l \in Lists, NEW m \in Lists, SwapWith(l, m) \/ CloneTo(l, m) PROVE IInv'
  BY <1>4, Swaps, ClonesFrom
<1>5. CASE CloneOne \/ Cloned \/ CloneFails
  BY <1>5, ClonesOne, ClonesAll, FailsToClone
<1>6. CASE UninitializeOne \/ Uninitialized
  BY <1>6, DestroysOne, DestroysSentry
<1>7. CASE UNCHANGED linkedVars
  BY <1>7 DEF linkedVars, IInv, Cloning, Uninitializes, Owned, Linking, Back, Kept, Followed, Leaving,
        Living, Of, Ordered, Past
<1> QED
  BY <1>1, <1>2, <1>3, <1>4, <1>5, <1>6, <1>7 DEF LinkedNext

\* Over pools of every size, the links of the lists and the chain of the pool agree: no unit is
\* in two places, none that is in a list is handed out again, and what is linked forward is linked
\* back, in the course of every insertion, erasure, copy and destruction, failures included
\* (LinkedChassis over ConcretePinnedPool).
THEOREM AgreeAlways == LinkedSpec => []LinksAgree
BY Starts, Steps, Agree, PTL DEF LinkedSpec

-----------------------------------------------------------------------------
(***************************************************************************)
(* What the links spell.  From(u) follows them, and is defined by          *)
(* recursion on how far it goes.  Here are a form of induction, that the   *)
(* recursion has a solution, and what it is for units that are linked one  *)
(* after the other.                                                        *)
(***************************************************************************)
LEMMA Least ==
    ASSUME NEW T, T \subseteq Nat, T # {}
    PROVE  \E x \in T : \A y \in T : x <= y
<1> DEFINE R == {ss \in Nat \X Nat : ss[1] < ss[2]}
<1>1. IsWellFoundedOn(R, Nat)
  BY NatLessThanWellFounded DEF OpToRel
<1> HIDE DEF R
<1>2. PICK x \in T : \A y \in T : <<y, x>> \notin R
  BY <1>1, WFMin
<1>3. \A y \in T : ~(y < x)
  BY <1>2 DEF R
<1> QED
  BY <1>3

LEMMA Induction ==
    ASSUME NEW S, 0 \in S, \A n \in Nat : n \in S => n + 1 \in S
    PROVE  Nat \subseteq S
<1> SUFFICES ASSUME NEW n \in Nat, n \notin S PROVE FALSE
  OBVIOUS
<1> DEFINE T == {k \in Nat : k \notin S}
<1>1. PICK x \in T : \A y \in T : x <= y
  BY Least
<1>2. x # 0 /\ x \in Nat
  OBVIOUS
<1>3. x - 1 \in Nat /\ x - 1 \in S
  BY <1>1, <1>2
<1> QED
  BY <1>2, <1>3

\* A unit with what it holds, and what the links spell from it on.
Cell(h, u) == [unit |-> u, item |-> h[u]]
Cells(h) == {Cell(h, u) : u \in Units}
Ends(m, from, u) == m.next[u] \in {from, UnitCount}
Rest(m, from, u, n, t) == IF n = 0 \/ Ends(m, from, u) THEN <<>> ELSE t[n - 1][m.next[u]]
Lap(m, h, from, n, t) == [u \in Units |-> <<Cell(h, u)>> \o Rest(m, from, u, n, t)]

LEMMA TrailsAre ==
    ASSUME NEW m, NEW h, NEW from, NEW n \in 0 .. UnitCount
    PROVE  Trails(m, h, from)[n] = Lap(m, h, from, n, Trails(m, h, from))
<1> DEFINE Solves(g, k) == g = [i \in 0 .. k |-> Lap(m, h, from, i, g)]
           S == {k \in Nat : \E g : Solves(g, k)}
<1>1. 0 \in S
  <2> DEFINE g == [i \in 0 .. 0 |-> Lap(m, h, from, 0, <<>>)]
  <2>1. \A i \in 0 .. 0 : Lap(m, h, from, i, g) = Lap(m, h, from, 0, <<>>)
    BY DEF Lap, Rest
  <2>2. Solves(g, 0)
    BY <2>1
  <2> QED
    BY <2>2
<1>2. ASSUME NEW k \in Nat, k \in S PROVE k + 1 \in S
  <2>1. PICK g : Solves(g, k)
    BY <1>2
  <2> DEFINE f == [i \in 0 .. k + 1 |-> IF i <= k THEN g[i] ELSE Lap(m, h, from, i, g)]
  <2>2. ASSUME NEW i \in 0 .. k + 1 PROVE f[i] = Lap(m, h, from, i, f)
    <3>1. i # 0 => f[i - 1] = g[i - 1]
      OBVIOUS
    <3>2. i <= k => i \in 0 .. k /\ g[i] = Lap(m, h, from, i, g)
      BY <2>1
    <3>3. f[i] = Lap(m, h, from, i, g)
      BY <3>2
    <3>4. Lap(m, h, from, i, g) = Lap(m, h, from, i, f)
      BY <3>1 DEF Lap, Rest
    <3> QED
      BY <3>3, <3>4
  <2>3. Solves(f, k + 1)
    BY <2>2
  <2> HIDE DEF f
  <2> QED
    BY <2>3
<1>3. UnitCount \in S
  <2> HIDE DEF S
  <2> QED
    BY <1>1, <1>2, Induction, UnitCountAssumption
<1>4. \E g : Solves(g, UnitCount)
  BY <1>3
<1>5. Trails(m, h, from) = CHOOSE g : Solves(g, UnitCount)
  BY DEF Trails, Lap, Rest, Ends, Cell
<1> HIDE DEF Solves
<1>6. Solves(Trails(m, h, from), UnitCount)
  BY <1>4, <1>5
<1> QED
  BY <1>6 DEF Solves

\* The units of P are linked one after the other, downwards, from the highest to the lowest.
Chain(m, P, rank, from) ==
    /\ \A u, v \in P : rank[u] = rank[v] => u = v
    /\ \A u \in P : rank[u] <= rank[from]
    /\ \A u \in P : Ends(m, from, u) => \A v \in P : rank[u] <= rank[v]
    /\ \A u \in P : ~Ends(m, from, u) =>
            /\ m.next[u] \in P /\ rank[m.next[u]] < rank[u]
            /\ \A v \in P : rank[v] < rank[u] => rank[v] <= rank[m.next[u]]

\* q is what the links say from u on.
Spells(q, m, h, u, from) ==
    /\ q \in Seq(Cells(h)) /\ Len(q) \in Nat \ {0}
    /\ q[1] = Cell(h, u)
    /\ \A k \in 1 .. Len(q) - 1 : ~Ends(m, from, q[k].unit) /\ m.next[q[k].unit] = q[k + 1].unit
    /\ Ends(m, from, q[Len(q)].unit)

\* It lists the units of P up to u, each once.
Visits(q, P, rank, u) ==
    /\ \A k \in 1 .. Len(q) : q[k].unit \in P /\ rank[q[k].unit] <= rank[u]
    /\ \A v \in P : rank[v] <= rank[u] => \E k \in 1 .. Len(q) : q[k].unit = v
    /\ \A j, k \in 1 .. Len(q) : q[j].unit = q[k].unit => j = k

LEMMA CellOf ==
    ASSUME NEW h, NEW c \in Cells(h)
    PROVE  c.unit \in Units /\ c = Cell(h, c.unit) /\ c.item = h[c.unit]
  BY DEF Cells, Cell

LEMMA OneCell ==
    ASSUME NEW h, NEW c \in Cells(h)
    PROVE  <<c>> \in Seq(Cells(h)) /\ Len(<<c>>) = 1 /\ <<c>>[1] = c
  OBVIOUS

LEMMA SpelledFrom ==
    ASSUME NEW m \in Memories, NEW h, NEW P, P \subseteq Units, NEW rank \in [Units -> Int],
           NEW from \in P, Chain(m, P, rank, from)
    PROVE  LET q == Trails(m, h, from)[UnitCount][from]
           IN  Spells(q, m, h, from, from) /\ Visits(q, P, rank, from)
<1> DEFINE T == Trails(m, h, from)
           Lower(u) == {v \in P : rank[v] < rank[u]}
           Good(n, u) == Spells(T[n][u], m, h, u, from) /\ Visits(T[n][u], P, rank, u)
           S == {n \in Nat : n <= UnitCount =>
                    \A u \in P : Cardinality(Lower(u)) <= n => Good(n, u)}
<1>1. IsFiniteSet(Units) /\ Cardinality(Units) = UnitCount /\ UnitCount \in Nat
  BY FS_Interval, UnitCountAssumption DEF Units
<1>2. ASSUME NEW u \in P PROVE IsFiniteSet(Lower(u)) /\ Cardinality(Lower(u)) \in Nat
  BY <1>1, FS_Subset, FS_CardinalityType
<1>3. ASSUME NEW u \in P, NEW n \in 0 .. UnitCount
      PROVE  T[n][u] = <<Cell(h, u)>> \o Rest(m, from, u, n, T)
  <2>1. u \in Units /\ T[n] = Lap(m, h, from, n, T)
    BY <1>3, TrailsAre
  <2> HIDE DEF T
  <2> QED
    BY <2>1 DEF Lap
<1> HIDE DEF T
<1>4. ASSUME NEW u \in P, NEW n \in 0 .. UnitCount, Ends(m, from, u) PROVE Good(n, u)
  <2> DEFINE q == T[n][u]
  <2>1. q = <<Cell(h, u)>>
    <3>1. Cell(h, u) \in Cells(h)
      BY DEF Cells
    <3>2. <<Cell(h, u)>> \in Seq(Cells(h))
      BY <3>1, OneCell
    <3>3. Rest(m, from, u, n, T) = <<>>
      BY <1>4 DEF Rest
    <3> QED
      BY <3>2, <3>3, <1>3, ConcatEmptySeq
  <2>2. q \in Seq(Cells(h)) /\ Len(q) = 1 /\ q[1] = Cell(h, u) /\ q[1].unit = u
    BY <2>1, OneCell DEF Cells, Cell
  <2> HIDE DEF q
  <2>3. Spells(q, m, h, u, from)
    BY <2>2, <1>4 DEF Spells
  <2>4. \A v \in P : rank[v] <= rank[u] => v = u
    BY <1>4 DEF Chain
  <2>5. Visits(q, P, rank, u)
    BY <2>2, <2>4 DEF Visits
  <2> QED
    BY <2>3, <2>5 DEF q
<1>5. 0 \in S
  <2>1. SUFFICES ASSUME NEW u \in P, Cardinality(Lower(u)) <= 0 PROVE Ends(m, from, u)
    BY <1>1, <1>4
  <2>2. Lower(u) = {}
    <3>1. Cardinality(Lower(u)) = 0
      BY <1>2, <2>1
    <3> QED
      BY <1>2, <3>1, FS_EmptySet
  <2> QED
    BY <2>2 DEF Chain
<1>6. ASSUME NEW n \in Nat, n \in S PROVE n + 1 \in S
  <2>1. SUFFICES ASSUME n + 1 <= UnitCount, NEW u \in P, Cardinality(Lower(u)) <= n + 1, ~Ends(m, from, u)
                 PROVE  Good(n + 1, u)
    BY <1>1, <1>4
  <2> DEFINE w == m.next[u]
             t == T[n][w]
             q == T[n + 1][u]
  <2>2. w \in P /\ rank[w] < rank[u] /\ \A v \in P : rank[v] < rank[u] => rank[v] <= rank[w]
    BY <2>1 DEF Chain
  <2>3. Cardinality(Lower(w)) <= n
    <3>1. Lower(w) \cup {w} \subseteq Lower(u) /\ w \notin Lower(w)
      BY <2>2
    <3>2. Cardinality(Lower(w) \cup {w}) = Cardinality(Lower(w)) + 1
      BY <1>2, <2>2, <3>1, FS_AddElement
    <3>3. Cardinality(Lower(w) \cup {w}) <= Cardinality(Lower(u))
      BY <1>2, <3>1, FS_Subset
    <3>4. Cardinality(Lower(w)) \in Nat /\ Cardinality(Lower(u)) \in Nat /\ Cardinality(Lower(u)) <= n + 1
      BY <1>2, <2>1, <2>2
    <3> HIDE DEF Lower
    <3> QED
      BY <3>2, <3>3, <3>4
  <2>4. Good(n, w)
    <3> HIDE DEF Good, Lower, w
    <3>1. n <= UnitCount
      BY <1>1, <2>1
    <3> QED
      BY <1>6, <2>2, <2>3, <3>1
  <2>5. q = <<Cell(h, u)>> \o t
    BY <1>1, <1>3, <2>1 DEF Rest
  <2>6. Cell(h, u) \in Cells(h) /\ Cell(h, u).unit = u
    BY DEF Cells, Cell
  <2>7. t \in Seq(Cells(h)) /\ Len(t) \in Nat \ {0}
    BY <2>4 DEF Spells
  <2> HIDE DEF q, t, w
  <2>8. /\ q \in Seq(Cells(h)) /\ Len(q) = Len(t) + 1 /\ q[1] = Cell(h, u)
        /\ \A k \in 2 .. Len(q) : q[k] = t[k - 1]
    <3>1. /\ q \in Seq(Cells(h)) /\ Len(q) = 1 + Len(t)
          /\ \A i \in 1 .. 1 + Len(t) : q[i] = IF i <= 1 THEN <<Cell(h, u)>>[i] ELSE t[i - 1]
      BY <2>5, <2>6, <2>7, OneCell, ConcatProperties
    <3> QED
      BY <2>6, <2>7, <3>1, OneCell
  <2>9. /\ Spells(t, m, h, w, from) /\ Visits(t, P, rank, w)
        /\ w = m.next[u] /\ w \in P /\ rank[w] < rank[u] /\ ~Ends(m, from, u)
    BY <2>1, <2>2, <2>4 DEF t, w
  <2>10. t[1].unit = w
    BY <2>9 DEF Spells, Cell
  <2>11. Spells(q, m, h, u, from)
    <3>1. ASSUME NEW k \in 1 .. Len(q) - 1
          PROVE  ~Ends(m, from, q[k].unit) /\ m.next[q[k].unit] = q[k + 1].unit
      <4>1. CASE k = 1
        BY <2>6, <2>7, <2>8, <2>9, <2>10, <4>1
      <4>2. CASE k # 1
        <5>1. k - 1 \in 1 .. Len(t) - 1 /\ q[k] = t[k - 1] /\ q[k + 1] = t[(k - 1) + 1]
          BY <2>7, <2>8, <4>2
        <5> QED
          BY <2>9, <5>1 DEF Spells
      <4> QED
        BY <4>1, <4>2
    <3>2. Ends(m, from, q[Len(q)].unit)
      BY <2>7, <2>8, <2>9 DEF Spells
    <3> QED
      BY <2>7, <2>8, <3>1, <3>2 DEF Spells
  <2>12. Visits(q, P, rank, u)
    <3>1. \A k \in 2 .. Len(q) : q[k].unit \in P /\ rank[q[k].unit] <= rank[w]
      BY <2>7, <2>8, <2>9 DEF Visits
    <3>2. q[1].unit = u /\ \A k \in 2 .. Len(q) : q[k].unit # u
      BY <2>6, <2>8, <2>9, <3>1
    <3>3. ASSUME NEW v \in P, rank[v] <= rank[u] PROVE \E k \in 1 .. Len(q) : q[k].unit = v
      <4>1. CASE v = u
        BY <2>7, <2>8, <3>2, <4>1
      <4>2. CASE v # u
        <5>1. rank[v] <= rank[w]
          BY <2>1, <3>3, <4>2 DEF Chain, w
        <5>2. PICK k \in 1 .. Len(t) : t[k].unit = v
          BY <2>9, <5>1 DEF Visits
        <5>3. k + 1 \in 2 .. Len(q) /\ q[k + 1] = t[(k + 1) - 1]
          BY <2>7, <2>8
        <5> QED
          BY <2>7, <5>2, <5>3
      <4> QED
        BY <4>1, <4>2
    <3>4. ASSUME NEW j \in 2 .. Len(q), NEW k \in 2 .. Len(q), q[j].unit = q[k].unit PROVE j = k
      BY <2>7, <2>8, <2>9, <3>4 DEF Visits
    <3>5. \A j, k \in 1 .. Len(q) : q[j].unit = q[k].unit => j = k
      BY <2>7, <2>8, <3>2, <3>4
    <3>6. \A k \in 1 .. Len(q) : q[k].unit \in P /\ rank[q[k].unit] <= rank[u]
      BY <2>7, <2>8, <2>9, <3>1, <3>2
    <3> QED
      BY <3>3, <3>5, <3>6 DEF Visits
  <2> QED
    BY <2>11, <2>12 DEF q
<1>7. UnitCount \in S
  <2> HIDE DEF S
  <2> QED
    BY <1>1, <1>5, <1>6, Induction
<1>8. Cardinality(Lower(from)) <= UnitCount
  BY <1>1, FS_Subset
<1> QED
  BY <1>1, <1>7, <1>8 DEF T

-----------------------------------------------------------------------------
(***************************************************************************)
(* The pool is a chain as well: the units it has are linked one after the  *)
(* other from its first one on, in the order in which they came back.      *)
(***************************************************************************)
Free(o) == {u \in Units : o[u] = Pool}

PoolChain(rank, m, o) ==
    /\ rank \in [Units -> Int]
    /\ Free(o) # {} => m.first \in Units /\ Chain(m, Free(o), rank, m.first)

PoolInv == \E rank : PoolChain(rank, memory, owner)

\* What is known of the first of the pool, and of those behind it.
Headed(m, o) ==
    /\ m \in Memories
    /\ m.first \in Units => o[m.first] = Pool
    /\ \A u \in Free(o) : m.next[u] # m.first /\ m.next[u] \in Free(o) \cup {UnitCount}

LEMMA ChainShrinks ==
    ASSUME NEW m, NEW o, Headed(m, o), NEW m2, NEW o2, Headed(m2, o2), NEW rank, PoolChain(rank, m, o),
           m.first \in Units, Free(o2) = Free(o) \ {m.first}, m2.first = m.next[m.first],
           \A u \in Free(o2) : m2.next[u] = m.next[u]
    PROVE  PoolChain(rank, m2, o2)
<1> DEFINE f == m.first
           P == Free(o)
           P2 == Free(o2)
<1>1. SUFFICES ASSUME P2 # {} PROVE m2.first \in Units /\ Chain(m2, P2, rank, m2.first)
  BY DEF PoolChain
<1>2. f \in P /\ P2 = P \ {f} /\ rank \in [Units -> Int] /\ P \subseteq Units /\ Chain(m, P, rank, f)
  BY DEF Headed, PoolChain, Free
<1>3. m2.first = m.next[f] /\ (\A u \in P2 : m2.next[u] = m.next[u]) /\ UnitCount \notin Units
  BY Bounds
<1>4. \A u \in P : m.next[u] # f /\ m.next[u] \in P \cup {UnitCount}
  BY DEF Headed
<1>5. \A u \in P2 : m2.next[u] # m2.first /\ m2.next[u] \in P2 \cup {UnitCount}
  BY DEF Headed
<1> HIDE DEF f, P, P2
<1>6. PICK v \in P2 : TRUE
  BY <1>1
<1>7. rank[v] < rank[f]
  BY <1>2, <1>6 DEF Chain
<1>8. ~Ends(m, f, f)
  BY <1>2, <1>6, <1>7 DEF Chain
<1>9. m2.first \in P2
  BY <1>2, <1>3, <1>4, <1>8 DEF Ends
<1>10. \A u \in P2 : rank[u] <= rank[m2.first]
  BY <1>2, <1>3, <1>8 DEF Chain
<1>11. \A u \in P2 : Ends(m2, m2.first, u) <=> Ends(m, f, u)
  BY <1>2, <1>3, <1>4, <1>5 DEF Ends
<1>12. Chain(m2, P2, rank, m2.first)
  BY <1>2, <1>3, <1>5, <1>10, <1>11 DEF Chain, Ends
<1> QED
  BY <1>2, <1>9, <1>12 DEF P2

LEMMA ChainGrows ==
    ASSUME NEW m, NEW o, Headed(m, o), NEW m2, NEW o2, Headed(m2, o2), NEW rank, PoolChain(rank, m, o),
           NEW b \in Units, b \notin Free(o), Free(o2) = Free(o) \cup {b}, m2.first = b, m2.next[b] = m.first,
           \A u \in Free(o) : m2.next[u] = m.next[u]
    PROVE  \E rank2 : PoolChain(rank2, m2, o2)
<1> DEFINE f == m.first
           P == Free(o)
           P2 == Free(o2)
           rank2 == [u \in Units |-> IF u = b THEN IF P = {} THEN 0 ELSE rank[f] + 1 ELSE rank[u]]
<1>1. f \in Units \cup {UnitCount} /\ (f \in Units => f \in P) /\ (P # {} => f \in P)
  BY DEF Headed, PoolChain, Free, Memories
<1>2. /\ P \subseteq Units /\ P2 = P \cup {b} /\ rank \in [Units -> Int] /\ b \notin P
      /\ P # {} => Chain(m, P, rank, f)
  BY DEF Headed, PoolChain, Free
<1>3. m2.first = b /\ m2.next[b] = f /\ (\A u \in P : m2.next[u] = m.next[u]) /\ UnitCount \notin Units
  BY Bounds
<1>4. \A u \in P : m.next[u] # f /\ m.next[u] \in P \cup {UnitCount}
  BY DEF Headed
<1> HIDE DEF f, P, P2
<1>5. rank2 \in [Units -> Int] /\ (\A u \in P : rank2[u] = rank[u])
      /\ rank2[b] = IF P = {} THEN 0 ELSE rank[f] + 1
  BY <1>1, <1>2
<1> HIDE DEF rank2
<1>6. CASE P = {}
  <2>1. P2 = {b} /\ Ends(m2, b, b)
    BY <1>1, <1>2, <1>3, <1>6 DEF Ends
  <2>2. Chain(m2, P2, rank2, b)
    BY <1>5, <2>1 DEF Chain
  <2> QED
    BY <1>3, <1>5, <2>2 DEF PoolChain, P2
<1>7. CASE P # {}
  <2>1. \A u \in P : rank2[u] < rank2[b] /\ rank2[f] >= rank2[u]
    BY <1>1, <1>2, <1>5, <1>7 DEF Chain
  <2>2. \A u \in P : Ends(m2, b, u) <=> Ends(m, f, u)
    BY <1>2, <1>3, <1>4 DEF Ends
  <2>3. ~Ends(m2, b, b) /\ f \in P
    BY <1>1, <1>2, <1>3, <1>7 DEF Ends
  <2>4. \A u, v \in P2 : rank2[u] = rank2[v] => u = v
    BY <1>2, <1>5, <1>7, <2>1 DEF Chain
  <2>5. \A u \in P2 : rank2[u] <= rank2[b]
    BY <1>2, <1>5, <2>1
  <2>6. \A u \in P2 : Ends(m2, b, u) => \A v \in P2 : rank2[u] <= rank2[v]
    BY <1>2, <1>5, <1>7, <2>1, <2>2, <2>3 DEF Chain
  <2>7. ASSUME NEW u \in P2, ~Ends(m2, b, u)
        PROVE  /\ m2.next[u] \in P2 /\ rank2[m2.next[u]] < rank2[u]
               /\ \A v \in P2 : rank2[v] < rank2[u] => rank2[v] <= rank2[m2.next[u]]
    <3>1. CASE u = b
      BY <1>2, <1>3, <1>5, <2>1, <2>3, <3>1
    <3>2. CASE u # b
      <4>1. u \in P /\ m2.next[u] = m.next[u] /\ ~Ends(m, f, u)
        BY <1>2, <1>3, <2>2, <2>7, <3>2
      <4>2. m.next[u] \in P /\ rank[m.next[u]] < rank[u]
            /\ \A v \in P : rank[v] < rank[u] => rank[v] <= rank[m.next[u]]
        BY <1>2, <1>7, <4>1 DEF Chain
      <4>3. \A v \in P2 : rank2[v] < rank2[u] => v \in P
        BY <1>2, <1>5, <2>1, <4>1
      <4> QED
        BY <1>2, <1>5, <4>1, <4>2, <4>3
    <3> QED
      BY <3>1, <3>2
  <2>8. Chain(m2, P2, rank2, b)
    BY <2>4, <2>5, <2>6, <2>7 DEF Chain
  <2> QED
    BY <1>3, <1>5, <2>8 DEF PoolChain, P2
<1> QED
  BY <1>6, <1>7

LEMMA ChainStays ==
    ASSUME NEW m, NEW o, NEW m2, NEW o2, NEW rank, PoolChain(rank, m, o), Headed(m, o),
           Free(o2) = Free(o), m2.first = m.first, \A u \in Free(o) : m2.next[u] = m.next[u]
    PROVE  PoolChain(rank, m2, o2)
  BY DEF PoolChain, Chain, Ends

-----------------------------------------------------------------------------
(* What the steps do to the pool.                                          *)

LEMMA HeadedNow == IInv => Headed(memory, owner)
<1> SUFFICES ASSUME IInv PROVE Headed(memory, owner)
  OBVIOUS
<1>1. /\ memory \in Memories /\ owner \in Owners /\ Owned(memory, owner, sentry)
      /\ Linking(memory, owner, Followed)
  BY DEF IInv, Owned
<1>2. Free(owner) \subseteq Followed
  <2>1. CASE call.op = "uninitialize"
    <3>1. Uninitializes
      BY <2>1 DEF IInv, Idle, Cloning
    <3>2. owner[sentry[call.list]] # Pool
      BY <1>1, <3>1, PoolAssumption DEF Uninitializes, Living, Owned
    <3> QED
      BY <2>1, <3>2 DEF Followed, Leaving, Free
  <2>2. CASE call.op # "uninitialize"
    BY <2>2 DEF Followed, Leaving, Free
  <2> QED
    BY <2>1, <2>2
<1> QED
  BY <1>1, <1>2 DEF Headed, Linking, Owned, Free, Memories

LEMMA HeadedThen == IInv' => Headed(memory', owner')
<1>1. (IInv => Headed(memory, owner))'
  BY HeadedNow, PTL
<1> QED
  BY <1>1

\* The pool hands out its first unit, takes one back, or stays as it is.
Shrank ==
    /\ memory.first \in Units /\ memory'.first = memory.next[memory.first]
    /\ Free(owner') = Free(owner) \ {memory.first}
    /\ \A u \in Free(owner') : memory'.next[u] = memory.next[u]
Grew ==
    \E b \in Units :
        /\ b \notin Free(owner) /\ Free(owner') = Free(owner) \cup {b}
        /\ memory'.first = b /\ memory'.next[b] = memory.first
        /\ \A u \in Free(owner) : memory'.next[u] = memory.next[u]
Stayed ==
    /\ memory'.first = memory.first /\ Free(owner') = Free(owner)
    /\ \A u \in Free(owner) : memory'.next[u] = memory.next[u]

LEMMA PoolKept == ASSUME IInv, IInv', Shrank \/ Grew \/ Stayed, PoolInv PROVE PoolInv'
<1>1. PICK rank : PoolChain(rank, memory, owner)
  BY DEF PoolInv
<1>2. Headed(memory, owner) /\ Headed(memory', owner')
  BY HeadedNow, HeadedThen
<1>3. \E rank2 : PoolChain(rank2, memory', owner')
  <2>1. CASE Shrank
    BY <1>1, <1>2, <2>1, ChainShrinks DEF Shrank
  <2>2. CASE Grew
    BY <1>1, <1>2, <2>2, ChainGrows DEF Grew
  <2>3. CASE Stayed
    BY <1>1, <1>2, <2>3, ChainStays DEF Stayed
  <2> QED
    BY <2>1, <2>2, <2>3
<1> QED
  BY <1>3 DEF PoolInv

LEMMA SentryBorn ==
    ASSUME IInv, call.op # "uninitialize", NEW l \in Lists, InitializeSentry(l)
    PROVE  /\ memory.first \in Units /\ owner[memory.first] = Pool /\ l # Pool
           /\ memory'.first = memory.next[memory.first] /\ Take(memory.first, l, NoItem)
           /\ sentry' = [sentry EXCEPT ![l] = memory.first] /\ sentry[l] = NoUnit
           /\ \A x \in Units :
                memory'.next[x] = IF x = memory.first THEN memory.first ELSE memory.next[x]
<1>1. PICK pos : Consistent(pos, memory, owner, sentry)
  BY Whole
<1>2. memory.first \in Units /\ memory \in Memories /\ sentry[l] = NoUnit /\ owner[memory.first] = Pool
  BY <1>1 DEF Consistent, Owned, Memories, InitializeSentry, Exhausted, Living
<1>3. Connected(Allocate(memory), memory.first, memory.first, memory')
  BY <1>2, Allocates, Connects DEF InitializeSentry
<1> QED
  BY <1>2, <1>3, Allocates, PoolAssumption DEF Connected, InitializeSentry

LEMMA Reverted ==
    ASSUME IInv, call.op # "uninitialize",
           memory' = IF Exhausted THEN memory ELSE Deallocate(Allocate(memory), memory.first)
    PROVE  memory'.first = memory.first /\ \A x \in Units : memory'.next[x] = memory.next[x]
<1>1. memory.first \in Units \/ Exhausted
  BY Positions DEF Memories, Exhausted
<1>2. CASE ~Exhausted
  <2>1. Deallocated(Allocate(memory), memory.first, memory') /\ memory \in Memories
    BY <1>1, <1>2, Positions, Allocates, Deallocates
  <2> QED
    BY <1>1, <1>2, <2>1, Allocates DEF Deallocated
<1> QED
  BY <1>2

\* A unit that is not the pool's is given back.
LEMMA GivenBack ==
    ASSUME IInv, NEW u \in Units, owner[u] # Pool, memory' = Deallocate(memory, u), Take(u, Pool, NoItem)
    PROVE  Deallocated(memory, u, memory') /\ Grew
<1>1. Deallocated(memory, u, memory')
  BY Positions, Deallocates
<1> QED
  BY <1>1, Positions DEF Deallocated, Grew, Free, Owners, Take

LEMMA PoolSteps == ASSUME IInv, LinkedNext PROVE Shrank \/ Grew \/ Stayed
<1>1. ASSUME NEW l \in Lists, call.op # "uninitialize", InitializeSentry(l) PROVE Shrank
  BY <1>1, SentryBorn, Positions DEF Shrank, Free, Owners, Take
<1>2. ASSUME NEW leading \in Units, NEW l \in Lists, owner[leading] = l, LinkedBehind(memory, leading, memory'),
             memory.first \in Units, NEW x, Take(memory.first, l, x)
      PROVE  Shrank
  BY <1>2, Positions, PoolAssumption DEF Shrank, Free, Owners, Take, LinkedBehind
<1>3. ASSUME NEW l \in Lists, NEW u \in Units, NEW x \in Items, Emplace(l, u, x) \/ EmplaceAfter(l, u, x)
      PROVE  Shrank
  BY <1>2, <1>3, InsertsSome
<1>4. ASSUME NEW l \in Lists, NEW u \in Units, EraseNode(l, u) \/ EraseAfter(l, u) PROVE Grew
  <2>1. PICK leading \in Units :
            /\ owner[leading] = l /\ Erased(memory, leading, memory') /\ memory.next[leading] \in Units
            /\ Take(memory.next[leading], Pool, NoItem)
    BY <1>4, ErasesSome
  <2>2. call.op # "uninitialize" /\ l # Pool
    BY <1>4, ErasesSome DEF Idle
  <2>3. owner[memory.next[leading]] = l
    BY <2>1, <2>2, Whole, Follows DEF Consistent
  <2> QED
    BY <2>1, <2>2, <2>3, Positions DEF Grew, Free, Owners, Take, Erased
<1>5. ASSUME memory' = (IF Exhausted THEN memory ELSE Deallocate(Allocate(memory), memory.first)),
             call.op # "uninitialize", owner' = owner
      PROVE  Stayed
  BY <1>5, Reverted DEF Stayed, Free
<1>6. ASSUME memory' = memory, owner' = owner PROVE Stayed
  BY <1>6 DEF Stayed, Free
<1>7. ASSUME NEW l \in Lists, NEW m \in Lists, SwapWith(l, m) PROVE Stayed
  <2>1. \A u \in Units : owner'[u] = IF owner[u] = l THEN m ELSE IF owner[u] = m THEN l ELSE owner[u]
    BY <1>7 DEF SwapWith
  <2> QED
    BY <1>7, <2>1, PoolAssumption DEF SwapWith, Stayed, Free
<1>8. ASSUME CloneOne PROVE Shrank
  <2>1. Cloning /\ call.op # "uninitialize"
    BY <1>8 DEF IInv, CloneOne, Idle, Uninitializes
  <2>2. PICK pos : Consistent(pos, memory, owner, sentry)
    BY <2>1, Whole
  <2>3. /\ memory.first \in Units /\ call.to \in Lists /\ call.current \in Units
        /\ owner[call.current] = call.to /\ call.to # Pool
    BY <1>8, <2>1, Positions, PoolAssumption DEF Cloning, Living, CloneOne, Exhausted, Memories
  <2>4. LinkedBehind(memory, call.current, memory')
    BY <1>8, <2>2, <2>3, Positions, Follows, InsertsAfter DEF CloneOne, Consistent
  <2> QED
    BY <1>2, <1>8, <2>3, <2>4 DEF CloneOne
<1>9. ASSUME UninitializeOne PROVE Grew
  BY <1>9, GivenBack, PoolAssumption DEF UninitializeOne, IInv, Idle, Cloning, Uninitializes, Living
<1>10. ASSUME Uninitialized PROVE Grew
  BY <1>10, GivenBack, PoolAssumption DEF Uninitialized, IInv, Idle, Cloning, Uninitializes, Living
<1>11. ASSUME NEW l \in Lists, Initialize(l) \/ EmplaceFails(l) \/ Uninitialize(l) PROVE Shrank \/ Stayed
  BY <1>1, <1>5, <1>6, <1>11 DEF Initialize, EmplaceFails, Uninitialize, Idle
<1>12. ASSUME NEW l \in Lists, NEW m \in Lists, SwapWith(l, m) \/ CloneTo(l, m) PROVE Shrank \/ Stayed
  BY <1>1, <1>7, <1>12 DEF CloneTo, Idle
<1>13. ASSUME Cloned \/ CloneFails PROVE Stayed
  BY <1>5, <1>6, <1>13 DEF Cloned, CloneFails
<1> QED
  BY <1>3, <1>4, <1>8, <1>9, <1>10, <1>11, <1>12, <1>13 DEF LinkedNext

LEMMA PoolBegins == LinkedInit => PoolInv
<1> SUFFICES ASSUME LinkedInit PROVE PoolInv
  OBVIOUS
<1> DEFINE rank == [u \in Units |-> 0 - u]
<1>1. /\ memory.first = 0 /\ Free(owner) = Units /\ UnitCount \in Nat
      /\ \A u \in Units : memory.next[u] = u + 1 /\ rank[u] = 0 - u /\ u \in Nat /\ u < UnitCount
  BY UnitCountAssumption DEF LinkedInit, Filled, Units, Free
<1>2. rank \in [Units -> Int]
  BY DEF Units
<1> HIDE DEF rank
<1>3. Free(owner) # {} => 0 \in Units
  BY <1>1, Bounds
<1>4. \A u \in Units : u + 1 # UnitCount => u + 1 \in Units
  BY <1>1 DEF Units
<1>5. \A u \in Units : Ends(memory, 0, u) <=> u + 1 = UnitCount
  BY <1>1 DEF Ends
<1>6. 0 \in Units => Chain(memory, Units, rank, 0)
  BY <1>1, <1>4, <1>5 DEF Chain
<1> QED
  BY <1>1, <1>2, <1>3, <1>6 DEF PoolInv, PoolChain

LEMMA PoolStep == IInv /\ IInv' /\ PoolInv /\ [LinkedNext]_linkedVars => PoolInv'
<1> SUFFICES ASSUME IInv, IInv', PoolInv, [LinkedNext]_linkedVars PROVE PoolInv'
  OBVIOUS
<1>1. CASE LinkedNext
  BY <1>1, PoolSteps, PoolKept
<1>2. CASE UNCHANGED linkedVars
  <2>1. Stayed
    BY <1>2 DEF linkedVars, Stayed, Free
  <2> QED
    BY <2>1, PoolKept
<1> QED
  BY <1>1, <1>2

\* What is read along the links is all of P, each unit once.
Reads(q, m, h, u, P) ==
    /\ Spells(q, m, h, u, u)
    /\ \A k \in 1 .. Len(q) : q[k].unit \in P
    /\ \A v \in P : \E k \in 1 .. Len(q) : q[k].unit = v
    /\ \A j, k \in 1 .. Len(q) : q[j].unit = q[k].unit => j = k

LEMMA ChainReads ==
    ASSUME NEW m \in Memories, NEW h, NEW P, P \subseteq Units, NEW rank \in [Units -> Int],
           NEW from \in P, Chain(m, P, rank, from)
    PROVE  Reads(Along(m, h, from), m, h, from, P)
<1> DEFINE q == Trails(m, h, from)[UnitCount][from]
<1>1. Spells(q, m, h, from, from) /\ Visits(q, P, rank, from)
  BY SpelledFrom
<1>2. Along(m, h, from) = q
  BY Bounds DEF Along
<1> HIDE DEF q
<1> QED
  BY <1>1, <1>2 DEF Reads, Visits, Chain

\* The ring of a list that is not being destroyed.
LEMMA RingReads ==
    ASSUME IInv, NEW l \in Lists, l \in Living, Leaving # {sentry[l]}
    PROVE  /\ sentry[l] \in Of(l)
           /\ Reads(From(sentry[l]), memory, item, sentry[l], Of(l))
           /\ \A u \in Of(l) : memory.next[u] \in Of(l)
<1> DEFINE s == sentry[l]
           P == Of(l)
<1>1. PICK pos \in [Units -> Nat] : Ordered(pos, memory, owner, sentry, Followed)
  BY DEF IInv
<1>2. /\ Owned(memory, owner, sentry) /\ Linking(memory, owner, Followed) /\ memory \in Memories
      /\ P \subseteq Units /\ s \in P /\ l # Pool
  BY PoolAssumption DEF IInv, Owned, Of, Living, Sentries
<1>3. \A u \in Followed : u \in P => memory.next[u] \in P
  BY <1>2, Follows DEF Of, Followed
<1>4. P \subseteq Followed
  <2>1. CASE call.op = "uninitialize"
    <3>1. Uninitializes
      BY <2>1 DEF IInv, Idle, Cloning
    <3>2. owner[sentry[call.list]] = call.list /\ call.list # l
      BY <1>2, <2>1, <3>1 DEF Uninitializes, Living, Owned, Leaving
    <3> QED
      BY <2>1, <3>2 DEF Followed, Leaving, Of
  <2>2. CASE call.op # "uninitialize"
    BY <2>2 DEF Followed, Leaving, Of
  <2> QED
    BY <2>1, <2>2
<1> DEFINE rank == [u \in Units |-> 0 - pos[u]]
<1>5. rank \in [Units -> Int] /\ \A u \in Units : rank[u] = 0 - pos[u]
  OBVIOUS
<1>6. \A u \in P : owner[u] = l /\ (Ends(memory, s, u) <=> memory.next[u] = s)
  BY <1>2, <1>3, <1>4, Bounds DEF Ends, Of
<1>7. \A u \in Units : owner[u] = l <=> u \in P
  BY DEF Of
<1> HIDE DEF rank, P, s
<1>8. Chain(memory, P, rank, s)
  <2>1. \A u, v \in P : rank[u] = rank[v] => u = v
    BY <1>1, <1>2, <1>5, <1>6 DEF Ordered
  <2>2. \A u \in P : rank[u] <= rank[s]
    BY <1>1, <1>2, <1>5, <1>6 DEF Ordered, s
  <2>3. \A u \in P : Ends(memory, s, u) => \A v \in P : rank[u] <= rank[v]
    BY <1>1, <1>2, <1>4, <1>5, <1>6 DEF Ordered, s
  <2>4. ASSUME NEW u \in P, ~Ends(memory, s, u)
        PROVE  /\ memory.next[u] \in P /\ rank[memory.next[u]] < rank[u]
               /\ \A v \in P : rank[v] < rank[u] => rank[v] <= rank[memory.next[u]]
    <3>1. u \in Followed /\ memory.next[u] \in P /\ memory.next[u] # s /\ u \in Units /\ memory.next[u] \in Units
      BY <1>2, <1>3, <1>4, <1>6, <2>4
    <3>2. /\ pos[memory.next[u]] > pos[u]
          /\ \A v \in Units : owner[v] = l /\ pos[v] > pos[u] => pos[v] >= pos[memory.next[u]]
      BY <1>1, <1>2, <1>6, <3>1 DEF Ordered, s
    <3> QED
      BY <1>2, <1>5, <1>6, <3>1, <3>2
  <2> QED
    BY <2>1, <2>2, <2>3, <2>4 DEF Chain
<1>9. Reads(From(s), memory, item, s, P)
  BY <1>2, <1>5, <1>8, ChainReads DEF From
<1> QED
  BY <1>2, <1>3, <1>4, <1>9 DEF s, P

LEMMA SetRead ==
    ASSUME NEW q, NEW m, NEW h, NEW u, NEW P, Reads(q, m, h, u, P)
    PROVE  {x.unit : x \in ToSet(q)} = P
<1>1. q \in Seq(Cells(h)) /\ Len(q) \in Nat
  BY DEF Reads, Spells
<1>2. ToSet(q) = {q[k] : k \in 1 .. Len(q)}
  BY <1>1 DEF ToSet
<1> QED
  BY <1>2 DEF Reads

LEMMA Once == IInv /\ PoolInv => EachUnitOnce
<1> SUFFICES ASSUME IInv, PoolInv PROVE EachUnitOnce
  OBVIOUS
<1>1. {x.unit : x \in ToSet(From(memory.first))} = Of(Pool)
  <2>1. Of(Pool) = Free(owner)
    BY DEF Of, Free
  <2>2. CASE Free(owner) = {}
    <3>1. memory.first = UnitCount
      BY <2>2, HeadedNow DEF Headed, Memories, Free
    <3>2. ToSet(From(memory.first)) = {}
      BY <3>1 DEF From, Along, ToSet
    <3> QED
      BY <2>1, <2>2, <3>2
  <2>3. CASE Free(owner) # {}
    <3>1. PICK rank : PoolChain(rank, memory, owner)
      BY DEF PoolInv
    <3>2. memory.first \in Free(owner) /\ memory \in Memories /\ Free(owner) \subseteq Units
      BY <2>3, <3>1, HeadedNow DEF PoolChain, Headed, Free
    <3>3. Reads(From(memory.first), memory, item, memory.first, Free(owner))
      BY <2>3, <3>1, <3>2, ChainReads DEF PoolChain, From
    <3> QED
      BY <2>1, <3>3, SetRead
  <2> QED
    BY <2>2, <2>3
<1>2. ASSUME NEW l \in Living, Leaving # {sentry[l]}
      PROVE  {x.unit : x \in ToSet(From(sentry[l]))} = Of(l)
  BY <1>2, RingReads, SetRead DEF Living
<1> QED
  BY <1>1, <1>2 DEF EachUnitOnce

\* Over pools of every size, what the links of each list spell from its sentry is all that the
\* list owns, and what those of the pool spell is all that is in no list: nothing is ever lost,
\* whatever is inserted, erased, swapped, copied and destroyed, and wherever a copy fails.
THEOREM EachUnitOnceAlways == LinkedSpec => []EachUnitOnce
BY Starts, Steps, PoolBegins, PoolStep, Once, PTL DEF LinkedSpec

-----------------------------------------------------------------------------
(* Sequences                                                               *)

LEMMA Elsewhere ==
    ASSUME NEW S, NEW T, NEW q \in Seq(S), \A j \in 1 .. Len(q) : q[j] \in T
    PROVE  q \in Seq(T)
OBVIOUS

LEMMA InsertedAt ==
    ASSUME NEW S, NEW q \in Seq(S), NEW k \in 1 .. Len(q), NEW c \in S
    PROVE  LET r == InsertAt(q, k + 1, c)
           IN  /\ r \in Seq(S) /\ Len(r) = Len(q) + 1 /\ r[k + 1] = c
               /\ \A j \in 1 .. k : r[j] = q[j]
               /\ \A j \in k + 2 .. Len(q) + 1 : r[j] = q[j - 1]
<1> DEFINE a == SubSeq(q, 1, k)
           b == SubSeq(q, k + 1, Len(q))
           d == a \o <<c>>
<1>1. Len(q) \in Nat /\ k \in Nat /\ \A i \in 1 .. Len(q) : q[i] \in S
  BY ElementOfSeq, LenProperties
<1>2. a \in Seq(S) /\ Len(a) = k /\ \A i \in 1 .. k : a[i] = q[i]
  BY <1>1, SubSeqProperties
<1>3. b \in Seq(S) /\ Len(b) = Len(q) - k /\ \A i \in 1 .. Len(q) - k : b[i] = q[k + i]
  <2>1. \A i \in k + 1 .. Len(q) : q[i] \in S
    BY <1>1
  <2>2. /\ b \in Seq(S) /\ Len(b) = (IF k + 1 <= Len(q) THEN Len(q) - (k + 1) + 1 ELSE 0)
        /\ \A i \in 1 .. Len(q) - (k + 1) + 1 : b[i] = q[(k + 1) + i - 1]
    BY <1>1, <2>1, SubSeqProperties
  <2> QED
    BY <1>1, <2>2
<1>4. <<c>> \in Seq(S) /\ Len(<<c>>) = 1 /\ <<c>>[1] = c
  OBVIOUS
<1>5. InsertAt(q, k + 1, c) = (a \o <<c>>) \o b
  <2>1. (k + 1) - 1 = k
    BY <1>1
  <2> QED
    BY <2>1 DEF InsertAt
<1> HIDE DEF a, b
<1>6. d \in Seq(S) /\ Len(d) = k + 1 /\ d[k + 1] = c /\ \A i \in 1 .. k : d[i] = q[i]
  BY <1>1, <1>2, <1>4, ConcatProperties
<1> HIDE DEF d
<1>7. /\ d \o b \in Seq(S) /\ Len(d \o b) = Len(q) + 1
      /\ \A i \in 1 .. Len(q) + 1 : (d \o b)[i] = IF i <= k + 1 THEN d[i] ELSE b[i - (k + 1)]
  BY <1>1, <1>3, <1>6, ConcatProperties
<1>8. ASSUME NEW j \in k + 2 .. Len(q) + 1 PROVE (d \o b)[j] = q[j - 1]
  <2>1. /\ j - (k + 1) \in 1 .. Len(q) - k /\ k + (j - (k + 1)) = j - 1
        /\ j \in 1 .. Len(q) + 1 /\ ~(j <= k + 1)
    BY <1>1
  <2> QED
    BY <1>3, <1>7, <2>1
<1>9. (d \o b)[k + 1] = c /\ \A j \in 1 .. k : (d \o b)[j] = q[j]
  BY <1>1, <1>6, <1>7
<1> QED
  BY <1>5, <1>7, <1>8, <1>9 DEF d

LEMMA RemovedAt ==
    ASSUME NEW S, NEW q \in Seq(S), NEW k \in 1 .. Len(q)
    PROVE  LET r == RemoveAt(q, k)
           IN  /\ r \in Seq(S) /\ Len(r) = Len(q) - 1
               /\ \A j \in 1 .. k - 1 : r[j] = q[j]
               /\ \A j \in k .. Len(q) - 1 : r[j] = q[j + 1]
<1> DEFINE a == SubSeq(q, 1, k - 1)
           b == SubSeq(q, k + 1, Len(q))
<1>1. Len(q) \in Nat /\ k \in Nat /\ k >= 1 /\ \A i \in 1 .. Len(q) : q[i] \in S
  BY ElementOfSeq, LenProperties
<1>2. a \in Seq(S) /\ Len(a) = k - 1 /\ \A i \in 1 .. k - 1 : a[i] = q[i]
  <2>1. /\ a \in Seq(S) /\ Len(a) = (IF 1 <= k - 1 THEN (k - 1) - 1 + 1 ELSE 0)
        /\ \A i \in 1 .. (k - 1) - 1 + 1 : a[i] = q[1 + i - 1]
    BY <1>1, SubSeqProperties
  <2> QED
    BY <1>1, <2>1
<1>3. b \in Seq(S) /\ Len(b) = Len(q) - k /\ \A i \in 1 .. Len(q) - k : b[i] = q[k + i]
  <2>1. \A i \in k + 1 .. Len(q) : q[i] \in S
    BY <1>1
  <2>2. /\ b \in Seq(S) /\ Len(b) = (IF k + 1 <= Len(q) THEN Len(q) - (k + 1) + 1 ELSE 0)
        /\ \A i \in 1 .. Len(q) - (k + 1) + 1 : b[i] = q[(k + 1) + i - 1]
    BY <1>1, <2>1, SubSeqProperties
  <2> QED
    BY <1>1, <2>2
<1>4. RemoveAt(q, k) = a \o b
  BY DEF RemoveAt
<1> HIDE DEF a, b
<1>5. /\ a \o b \in Seq(S) /\ Len(a \o b) = Len(q) - 1
      /\ \A i \in 1 .. Len(q) - 1 : (a \o b)[i] = IF i <= k - 1 THEN a[i] ELSE b[i - (k - 1)]
  BY <1>1, <1>2, <1>3, ConcatProperties
<1>6. ASSUME NEW j \in k .. Len(q) - 1 PROVE (a \o b)[j] = q[j + 1]
  <2>1. /\ j - (k - 1) \in 1 .. Len(q) - k /\ k + (j - (k - 1)) = j + 1
        /\ j \in 1 .. Len(q) - 1 /\ ~(j <= k - 1)
    BY <1>1
  <2> QED
    BY <1>3, <1>5, <2>1
<1>7. \A j \in 1 .. k - 1 : (a \o b)[j] = q[j]
  BY <1>1, <1>2, <1>5
<1> QED
  BY <1>4, <1>5, <1>6, <1>7

-----------------------------------------------------------------------------
(* Two sequences that the links spell from the same unit on are the same.  *)

LEMMA SpelledBefore ==
    ASSUME NEW m, NEW h, NEW u, NEW from, NEW q, Spells(q, m, h, u, from), NEW r, Spells(r, m, h, u, from)
    PROVE  Len(q) <= Len(r) /\ \A n \in 1 .. Len(q) : q[n] = r[n]
<1> DEFINE S == {n \in Nat : n \in 1 .. Len(q) => n <= Len(r) /\ q[n] = r[n]}
<1>1. /\ Len(q) \in Nat \ {0} /\ Len(r) \in Nat \ {0}
      /\ \A n \in 1 .. Len(q) : q[n] \in Cells(h)
      /\ \A n \in 1 .. Len(r) : r[n] \in Cells(h)
  BY ElementOfSeq DEF Spells
<1>2. 0 \in S
  OBVIOUS
<1>3. ASSUME NEW n \in Nat, n \in S PROVE n + 1 \in S
  <2>1. SUFFICES ASSUME n + 1 \in 1 .. Len(q) PROVE n + 1 <= Len(r) /\ q[n + 1] = r[n + 1]
    OBVIOUS
  <2>2. CASE n = 0
    BY <1>1, <2>2 DEF Spells
  <2>3. CASE n # 0
    <3>1. n \in 1 .. Len(q) - 1 /\ n <= Len(r) /\ q[n] = r[n]
      BY <1>1, <1>3, <2>1, <2>3
    <3>2. ~Ends(m, from, q[n].unit) /\ m.next[q[n].unit] = q[n + 1].unit
      BY <3>1 DEF Spells
    <3>3. n # Len(r)
      BY <3>1, <3>2 DEF Spells
    <3>4. n \in 1 .. Len(r) - 1
      BY <1>1, <3>1, <3>3
    <3>5. m.next[r[n].unit] = r[n + 1].unit
      BY <3>4 DEF Spells
    <3>6. q[n + 1] \in Cells(h) /\ r[n + 1] \in Cells(h) /\ q[n + 1].unit = r[n + 1].unit
      BY <1>1, <2>1, <3>1, <3>2, <3>4, <3>5
    <3> QED
      BY <1>1, <3>4, <3>6, CellOf
  <2> QED
    BY <2>2, <2>3
<1>4. Nat \subseteq S
  <2> HIDE DEF S
  <2> QED
    BY <1>2, <1>3, Induction
<1>5. \A n \in 1 .. Len(q) : n <= Len(r) /\ q[n] = r[n]
  BY <1>1, <1>4
<1> QED
  BY <1>1, <1>5

LEMMA SpelledAlike ==
    ASSUME NEW m, NEW h, NEW u, NEW from, NEW q, Spells(q, m, h, u, from), NEW r, Spells(r, m, h, u, from)
    PROVE  q = r
<1>1. q \in Seq(Cells(h)) /\ r \in Seq(Cells(h)) /\ Len(q) \in Nat /\ Len(r) \in Nat
  BY DEF Spells
<1>2. Len(q) <= Len(r) /\ Len(r) <= Len(q) /\ \A n \in 1 .. Len(q) : q[n] = r[n]
  BY SpelledBefore
<1>3. Len(q) = Len(r)
  BY <1>1, <1>2
<1> QED
  BY <1>1, <1>2, <1>3, SeqEqual

-----------------------------------------------------------------------------
(* What is spelled after a link has changed.                               *)

LEMMA CellsOf ==
    ASSUME NEW m, NEW h, NEW u, NEW P, P \subseteq Units, NEW q, Reads(q, m, h, u, P)
    PROVE  /\ q \in Seq(Cells(h)) /\ Len(q) \in Nat \ {0} /\ q[1] = Cell(h, u)
           /\ \A k \in 1 .. Len(q) : q[k].unit \in P /\ q[k] = Cell(h, q[k].unit)
           /\ \A j, k \in 1 .. Len(q) : q[j].unit = q[k].unit => j = k
           /\ \A k \in 1 .. Len(q) - 1 : ~Ends(m, u, q[k].unit) /\ m.next[q[k].unit] = q[k + 1].unit
           /\ Ends(m, u, q[Len(q)].unit)
  BY ElementOfSeq, CellOf DEF Reads, Spells

\* The units of P are as before, other than the link of one of them.
Same(m, h, m2, h2, P, but) == \A x \in P : h2[x] = h[x] /\ (x # but => m2.next[x] = m.next[x])

LEMMA StaysSpelled ==
    ASSUME NEW m, NEW h, NEW u, NEW P, P \subseteq Units, NEW q, Reads(q, m, h, u, P),
           NEW m2, NEW h2, Same(m, h, m2, h2, P, NoUnit), u \in P
    PROVE  Spells(q, m2, h2, u, u)
<1>0. \A x \in P : m2.next[x] = m.next[x] /\ h2[x] = h[x]
  BY Bounds DEF Same
<1>1. /\ q \in Seq(Cells(h)) /\ Len(q) \in Nat \ {0} /\ q[1] = Cell(h, u)
      /\ \A k \in 1 .. Len(q) : q[k].unit \in P /\ q[k] = Cell(h, q[k].unit)
      /\ \A j, k \in 1 .. Len(q) : q[j].unit = q[k].unit => j = k
      /\ \A k \in 1 .. Len(q) - 1 : ~Ends(m, u, q[k].unit) /\ m.next[q[k].unit] = q[k + 1].unit
      /\ Ends(m, u, q[Len(q)].unit)
  BY CellsOf
<1>2. \A x \in P : Cell(h2, x) = Cell(h, x) /\ Cell(h2, x) \in Cells(h2)
  BY <1>0 DEF Cell, Cells
<1>3. q \in Seq(Cells(h2))
  <2>1. \A k \in 1 .. Len(q) : q[k] \in Cells(h2)
    BY <1>1, <1>2
  <2> QED
    BY <1>1, <2>1
<1>4. \A x \in P : Ends(m2, u, x) <=> Ends(m, u, x)
  BY <1>0 DEF Ends
<1>5. q[1] = Cell(h2, u)
  BY <1>1, <1>2
<1>6. \A k \in 1 .. Len(q) - 1 : ~Ends(m2, u, q[k].unit) /\ m2.next[q[k].unit] = q[k + 1].unit
  <2>1. \A k \in 1 .. Len(q) - 1 : k \in 1 .. Len(q)
    BY <1>1
  <2> QED
    BY <1>0, <1>1, <1>4, <2>1
<1>7. Ends(m2, u, q[Len(q)].unit)
  BY <1>1, <1>4
<1> QED
  BY <1>1, <1>3, <1>5, <1>6, <1>7 DEF Spells

LEMMA InsertsSpelled ==
    ASSUME NEW m, NEW h, NEW s, NEW P, P \subseteq Units, s \in P, NEW q, Reads(q, m, h, s, P),
           NEW k \in 1 .. Len(q), NEW f \in Units, f \notin P, NEW m2, NEW h2,
           m2.next[q[k].unit] = f, m2.next[f] = m.next[q[k].unit],
           Same(m, h, m2, h2, P, q[k].unit)
    PROVE  Spells(InsertAt(q, k + 1, Cell(h2, f)), m2, h2, s, s)
<1> DEFINE c == Cell(h2, f)
           r == InsertAt(q, k + 1, c)
<1>1. /\ q \in Seq(Cells(h)) /\ Len(q) \in Nat \ {0} /\ q[1] = Cell(h, s)
      /\ \A j \in 1 .. Len(q) : q[j].unit \in P /\ q[j] = Cell(h, q[j].unit)
      /\ \A i, j \in 1 .. Len(q) : q[i].unit = q[j].unit => i = j
      /\ \A j \in 1 .. Len(q) - 1 : ~Ends(m, s, q[j].unit) /\ m.next[q[j].unit] = q[j + 1].unit
      /\ Ends(m, s, q[Len(q)].unit)
  BY CellsOf
<1>2. \A x \in P : Cell(h2, x) = Cell(h, x) /\ Cell(h2, x) \in Cells(h2)
  BY DEF Cell, Cells, Same
<1>3. q \in Seq(Cells(h2))
  <2>1. \A j \in 1 .. Len(q) : q[j] \in Cells(h2)
    BY <1>1, <1>2
  <2> QED
    BY <1>1, <2>1
<1>4. c \in Cells(h2) /\ c.unit = f
  BY DEF Cell, Cells
<1> HIDE DEF c
<1>5. /\ r \in Seq(Cells(h2)) /\ Len(r) = Len(q) + 1 /\ r[k + 1] = c
      /\ \A j \in 1 .. k : r[j] = q[j]
      /\ \A j \in k + 2 .. Len(q) + 1 : r[j] = q[j - 1]
  BY <1>3, <1>4, InsertedAt
<1> HIDE DEF r
<1>6. f # s /\ f # UnitCount
  BY Bounds
<1>7. ASSUME NEW j \in 1 .. Len(q), j # k
      PROVE  /\ m2.next[q[j].unit] = m.next[q[j].unit]
             /\ Ends(m2, s, q[j].unit) <=> Ends(m, s, q[j].unit)
  BY <1>1, <1>7 DEF Ends, Same
<1>8. ASSUME NEW j \in 1 .. Len(r) - 1
      PROVE  ~Ends(m2, s, r[j].unit) /\ m2.next[r[j].unit] = r[j + 1].unit
  <2>1. CASE j < k
    <3>1. j \in 1 .. Len(q) - 1 /\ j \in 1 .. Len(q) /\ r[j] = q[j] /\ r[j + 1] = q[j + 1]
      BY <1>1, <1>5, <2>1
    <3> QED
      BY <1>1, <1>7, <2>1, <3>1
  <2>2. CASE j = k
    <3>1. k \in 1 .. k
      BY <1>1
    <3>2. r[k] = q[k] /\ r[k + 1] = c
      BY <1>5, <3>1
    <3> QED
      BY <1>4, <1>6, <2>2, <3>2 DEF Ends
  <2>3. CASE j = k + 1
    <3>1. k \in 1 .. Len(q) - 1 /\ r[j] = c /\ r[j + 1] = q[k + 1]
      BY <1>1, <1>5, <2>3
    <3> QED
      BY <1>1, <1>4, <3>1 DEF Ends
  <2>4. CASE j > k + 1
    <3>1. /\ j - 1 \in 1 .. Len(q) - 1 /\ j - 1 \in 1 .. Len(q) /\ j - 1 # k
          /\ j \in k + 2 .. Len(q) + 1 /\ j + 1 \in k + 2 .. Len(q) + 1 /\ (j + 1) - 1 = j /\ (j - 1) + 1 = j
      BY <1>1, <1>5, <2>4
    <3>2. r[j] = q[j - 1] /\ r[j + 1] = q[j]
      BY <1>5, <3>1
    <3>3. ~Ends(m, s, q[j - 1].unit) /\ m.next[q[j - 1].unit] = q[(j - 1) + 1].unit
      BY <1>1, <3>1
    <3> QED
      BY <1>7, <3>1, <3>2, <3>3
  <2> QED
    BY <1>1, <1>5, <2>1, <2>2, <2>3, <2>4
<1>9. Ends(m2, s, r[Len(r)].unit)
  <2>1. CASE k = Len(q)
    BY <1>1, <1>4, <1>5, <2>1 DEF Ends
  <2>2. CASE k # Len(q)
    <3>1. Len(r) \in k + 2 .. Len(q) + 1 /\ Len(r) - 1 = Len(q) /\ Len(q) \in 1 .. Len(q)
      BY <1>1, <1>5, <2>2
    <3>2. r[Len(r)] = q[Len(q)]
      BY <1>5, <3>1
    <3> QED
      BY <1>1, <1>7, <2>2, <3>1, <3>2
  <2> QED
    BY <2>1, <2>2
<1>10. r[1] = Cell(h2, s) /\ Len(r) \in Nat \ {0}
  BY <1>1, <1>2, <1>5
<1> QED
  BY <1>5, <1>8, <1>9, <1>10 DEF Spells, r, c

LEMMA ErasesSpelled ==
    ASSUME NEW m, NEW h, NEW s, NEW P, P \subseteq Units, s \in P, NEW q, Reads(q, m, h, s, P),
           NEW k \in 2 .. Len(q), NEW m2, NEW h2,
           m2.next[q[k - 1].unit] = m.next[q[k].unit],
           Same(m, h, m2, h2, P \ {q[k].unit}, q[k - 1].unit)
    PROVE  Spells(RemoveAt(q, k), m2, h2, s, s)
<1> DEFINE r == RemoveAt(q, k)
<1>1. /\ q \in Seq(Cells(h)) /\ Len(q) \in Nat \ {0} /\ q[1] = Cell(h, s)
      /\ \A j \in 1 .. Len(q) : q[j].unit \in P /\ q[j] = Cell(h, q[j].unit)
      /\ \A i, j \in 1 .. Len(q) : q[i].unit = q[j].unit => i = j
      /\ \A j \in 1 .. Len(q) - 1 : ~Ends(m, s, q[j].unit) /\ m.next[q[j].unit] = q[j + 1].unit
      /\ Ends(m, s, q[Len(q)].unit)
  BY CellsOf
<1>2. k \in 1 .. Len(q) /\ k - 1 \in 1 .. Len(q) - 1
  BY <1>1
<1>3. /\ r \in Seq(Cells(h)) /\ Len(r) = Len(q) - 1
      /\ \A j \in 1 .. k - 1 : r[j] = q[j]
      /\ \A j \in k .. Len(q) - 1 : r[j] = q[j + 1]
  <2>1. q \in Seq(Cells(h)) /\ k \in 1 .. Len(q)
    BY <1>1, <1>2
  <2> QED
    BY <2>1, RemovedAt
<1> HIDE DEF r
<1>4. ASSUME NEW j \in 1 .. Len(q), j # k
      PROVE  q[j] \in Cells(h2) /\ q[j] = Cell(h2, q[j].unit)
  <2>1. q[j].unit \in P /\ q[j].unit # q[k].unit /\ q[j] = Cell(h, q[j].unit)
    BY <1>1, <1>2, <1>4
  <2> QED
    BY <2>1 DEF Cell, Cells, Same
<1>5. r \in Seq(Cells(h2))
  <2>1. \A j \in 1 .. Len(r) : r[j] \in Cells(h2)
    <3>1. ASSUME NEW j \in 1 .. Len(r) PROVE r[j] \in Cells(h2)
      <4>1. CASE j < k
        BY <1>1, <1>2, <1>3, <1>4, <4>1
      <4>2. CASE j >= k
        <5>1. j + 1 \in 1 .. Len(q) /\ j + 1 # k /\ r[j] = q[j + 1]
          BY <1>1, <1>2, <1>3, <4>2
        <5> QED
          BY <1>4, <5>1
      <4> QED
        BY <1>2, <4>1, <4>2
    <3> QED
      BY <3>1
  <2> QED
    BY <1>3, <2>1, Elsewhere
<1>6. ASSUME NEW j \in 1 .. Len(q), j # k, j # k - 1
      PROVE  /\ m2.next[q[j].unit] = m.next[q[j].unit]
             /\ Ends(m2, s, q[j].unit) <=> Ends(m, s, q[j].unit)
  <2>1. q[j].unit \in P \ {q[k].unit} /\ q[j].unit # q[k - 1].unit
    BY <1>1, <1>2, <1>6
  <2> QED
    BY <2>1 DEF Ends, Same
<1>7. ASSUME NEW j \in 1 .. Len(r) - 1
      PROVE  ~Ends(m2, s, r[j].unit) /\ m2.next[r[j].unit] = r[j + 1].unit
  <2>1. CASE j < k - 1
    <3>1. /\ j \in 1 .. Len(q) - 1 /\ j \in 1 .. Len(q) /\ j # k /\ j # k - 1
          /\ r[j] = q[j] /\ r[j + 1] = q[j + 1]
      BY <1>1, <1>2, <1>3, <2>1
    <3>2. ~Ends(m, s, q[j].unit) /\ m.next[q[j].unit] = q[j + 1].unit
      BY <1>1, <3>1
    <3> QED
      BY <1>6, <3>1, <3>2
  <2>2. CASE j = k - 1
    <3>1. /\ k \in 1 .. Len(q) - 1 /\ k - 1 \in 1 .. k - 1 /\ k \in k .. Len(q) - 1
          /\ j = k - 1 /\ j + 1 = k
      BY <1>1, <1>2, <1>3, <2>2
    <3>2. r[j] = q[k - 1] /\ r[j + 1] = q[k + 1]
      BY <1>3, <3>1
    <3>3. ~Ends(m, s, q[k].unit) /\ m.next[q[k].unit] = q[k + 1].unit
      BY <1>1, <3>1
    <3> QED
      BY <3>2, <3>3 DEF Ends
  <2>3. CASE j > k - 1
    <3>1. /\ j + 1 \in 1 .. Len(q) - 1 /\ j + 1 \in 1 .. Len(q) /\ j + 1 # k /\ j + 1 # k - 1
          /\ j \in k .. Len(q) - 1 /\ j + 1 \in k .. Len(q) - 1
      BY <1>1, <1>2, <1>3, <2>3
    <3>2. r[j] = q[j + 1] /\ r[j + 1] = q[(j + 1) + 1]
      BY <1>3, <3>1
    <3>3. ~Ends(m, s, q[j + 1].unit) /\ m.next[q[j + 1].unit] = q[(j + 1) + 1].unit
      BY <1>1, <3>1
    <3> QED
      BY <1>6, <3>1, <3>2, <3>3
  <2> QED
    BY <1>1, <1>2, <2>1, <2>2, <2>3
<1>8. Ends(m2, s, r[Len(r)].unit)
  <2>1. CASE k = Len(q)
    <3>1. r[Len(r)] = q[k - 1]
      BY <1>1, <1>2, <1>3, <2>1
    <3> QED
      BY <1>1, <2>1, <3>1 DEF Ends
  <2>2. CASE k # Len(q)
    <3>1. r[Len(r)] = q[Len(q)] /\ Len(q) # k - 1 /\ Len(q) \in 1 .. Len(q)
      BY <1>1, <1>2, <1>3, <2>2
    <3> QED
      BY <1>1, <1>6, <2>2, <3>1
  <2> QED
    BY <2>1, <2>2
<1>9. Len(r) \in Nat \ {0} /\ r[1] = Cell(h2, s)
  <2>1. r[1] = q[1] /\ 1 \in 1 .. Len(q) /\ 1 # k /\ q[1].unit = s
    BY <1>1, <1>2, <1>3 DEF Cell
  <2> QED
    BY <1>1, <1>2, <1>3, <1>4, <2>1
<1> QED
  BY <1>5, <1>7, <1>8, <1>9 DEF Spells, r

-----------------------------------------------------------------------------
(***************************************************************************)
(* Linked implements its contract.                                         *)
(***************************************************************************)

Intact(l) == l \in Living /\ Leaving # {sentry[l]}
Listed(l) == Intact(l) /\ ~(call.op = "clone" /\ call.to = l)

RingRead(l) ==
    /\ sentry[l] \in Of(l) /\ Of(l) \subseteq Units
    /\ Reads(From(sentry[l]), memory, item, sentry[l], Of(l))
    /\ \A u \in Of(l) : memory.next[u] \in Of(l)

LEMMA RingIs == \A l \in Lists : Ring(l) = IF Listed(l) THEN From(sentry[l]) ELSE <<>>
BY DEF Ring, Listed, Intact

LEMMA Readings == IInv => \A l \in Lists : Intact(l) => RingRead(l)
BY RingReads DEF RingRead, Intact, Of

LEMMA ReadingsThen == IInv' => \A l \in Lists : Intact(l)' => RingRead(l)'
<1>1. (IInv => \A l \in Lists : Intact(l) => RingRead(l))'
  BY Readings, PTL
<1> QED
  BY <1>1

LEMMA IntactNow == IInv => \A l \in Lists :
        Intact(l) <=> sentry[l] # NoUnit /\ ~(call.op = "uninitialize" /\ call.list = l)
<1> SUFFICES ASSUME IInv, NEW l \in Lists
             PROVE  Intact(l) <=> sentry[l] # NoUnit /\ ~(call.op = "uninitialize" /\ call.list = l)
  OBVIOUS
<1>1. \A k \in Lists : sentry[k] # NoUnit => owner[sentry[k]] = k
  BY DEF IInv, Owned
<1>2. call.op = "uninitialize" => call.list \in Lists /\ sentry[call.list] # NoUnit
  BY DEF IInv, Idle, Cloning, Uninitializes, Living
<1> QED
  BY <1>1, <1>2 DEF Intact, Living, Leaving

LEMMA IntactThen == IInv' => \A l \in Lists :
        Intact(l)' <=> sentry'[l] # NoUnit /\ ~(call'.op = "uninitialize" /\ call'.list = l)
<1>1. (IInv => \A l \in Lists :
        Intact(l) <=> sentry[l] # NoUnit /\ ~(call.op = "uninitialize" /\ call.list = l))'
  BY IntactNow, PTL
<1> QED
  BY <1>1

LEMMA Spelled ==
    ASSUME IInv', NEW l \in Lists, Intact(l)', NEW q, Spells(q, memory', item', sentry'[l], sentry'[l])
    PROVE  From(sentry[l])' = q
<1>1. Spells(From(sentry[l])', memory', item', sentry'[l], sentry'[l])
  BY ReadingsThen DEF RingRead, Reads
<1> QED
  BY <1>1, SpelledAlike

\* A ring of which no link has changed.
LEMMA RingStays ==
    ASSUME IInv, IInv', NEW l \in Lists, Intact(l), Intact(l)', sentry'[l] = sentry[l],
           \A x \in Of(l) : memory'.next[x] = memory.next[x] /\ item'[x] = item[x]
    PROVE  From(sentry[l])' = From(sentry[l])
<1> DEFINE q == From(sentry[l])
           s == sentry[l]
           P == Of(l)
<1>1. s \in P /\ P \subseteq Units /\ Reads(q, memory, item, s, P)
  BY Readings DEF RingRead
<1>2. Same(memory, item, memory', item', P, NoUnit)
  BY DEF Same
<1> HIDE DEF q, s, P
<1>3. Spells(q, memory', item', s, s)
  BY <1>1, <1>2, StaysSpelled
<1> QED
  BY <1>3, Spelled DEF q, s

\* After the last cell of a ring comes the first.
LEMMA NextCell ==
    ASSUME IInv, NEW l \in Lists, Intact(l), NEW k \in 1 .. Len(From(sentry[l]))
    PROVE  LET q == From(sentry[l])
           IN  memory.next[q[k].unit] = IF k = Len(q) THEN sentry[l] ELSE q[k + 1].unit
<1> DEFINE q == From(sentry[l])
           s == sentry[l]
           P == Of(l)
<1>1. P \subseteq Units /\ Reads(q, memory, item, s, P) /\ \A u \in P : memory.next[u] \in P
  BY Readings DEF RingRead
<1> HIDE DEF q, s, P
<1>2. /\ q \in Seq(Cells(item)) /\ Len(q) \in Nat \ {0} /\ q[1] = Cell(item, s)
      /\ \A j \in 1 .. Len(q) : q[j].unit \in P /\ q[j] = Cell(item, q[j].unit)
      /\ \A i, j \in 1 .. Len(q) : q[i].unit = q[j].unit => i = j
      /\ \A j \in 1 .. Len(q) - 1 : ~Ends(memory, s, q[j].unit) /\ memory.next[q[j].unit] = q[j + 1].unit
      /\ Ends(memory, s, q[Len(q)].unit)
  BY <1>1, CellsOf
<1>3. k \in 1 .. Len(q)
  BY DEF q
<1>4. CASE k = Len(q)
  <2>1. memory.next[q[k].unit] \in {s, UnitCount} /\ memory.next[q[k].unit] \in Units
    BY <1>1, <1>2, <1>4 DEF Ends
  <2> QED
    BY <1>4, <2>1, Bounds DEF q, s
<1>5. CASE k # Len(q)
  <2>1. k \in 1 .. Len(q) - 1
    BY <1>2, <1>3, <1>5
  <2> QED
    BY <1>2, <1>5, <2>1 DEF q, s
<1> QED
  BY <1>4, <1>5

\* The step leaves all lists but l alone.
Apart(l) == \A k \in Lists : k # l =>
    /\ sentry'[k] = sentry[k]
    /\ \A u \in Of(k) : memory'.next[u] = memory.next[u] /\ item'[u] = item[u]

LEMMA RingsStay ==
    ASSUME IInv, IInv', NEW l, Apart(l), NEW k \in Lists, k # l, Listed(k)' <=> Listed(k)
    PROVE  Ring(k)' = Ring(k)
<1>1. Ring(k)' = IF Listed(k)' THEN From(sentry[k])' ELSE <<>>
  BY DEF Ring, Listed, Intact
<1>2. Listed(k) => From(sentry[k])' = From(sentry[k])
  BY RingStays DEF Apart, Listed
<1> QED
  BY <1>1, <1>2, RingIs

\* How far a copy c of p has come.
CopiedFrom(p, c) ==
    /\ Len(c) <= Len(p) /\ \A k \in 1 .. Len(c) : c[k].item = p[k].item
    /\ c[Len(c)].unit = call.current
    /\ call.begin = IF Len(c) = Len(p) THEN sentry[call.from] ELSE p[Len(c) + 1].unit

RefInv ==
    /\ item \in [Units -> Items \cup {NoItem}]
    /\ \A l \in Living : item[sentry[l]] = NoItem
    /\ call.op = "clone" => /\ call.from # call.to
                            /\ CopiedFrom(From(sentry[call.from]), From(sentry[call.to]))
    /\ call.op = "uninitialize" /\ call.reason = "destroy" => answer = Answer("destroy", NoUnit)

LEMMA Values == ASSUME RefInv, NEW u, NEW o, NEW x \in Items \cup {NoItem}, Take(u, o, x)
                PROVE  item' \in [Units -> Items \cup {NoItem}]
BY DEF RefInv, Take

-----------------------------------------------------------------------------
(* Steps of the contract.                                                  *)

Rings == [l \in Lists |-> Ring(l)]

LEMMA RingsExcept ==
    ASSUME NEW l \in Lists, NEW r, Ring(l)' = r, \A k \in Lists : k # l => Ring(k)' = Ring(k)
    PROVE  Rings' = [Rings EXCEPT ![l] = r]
BY DEF Rings

LEMMA RingsSame ==
    ASSUME \A k \in Lists : Ring(k)' = Ring(k)
    PROVE  Rings' = Rings
BY DEF Rings

LEMMA Stutters == ASSUME Rings' = Rings, answer' = answer PROVE UNCHANGED Contract!contractVars
BY DEF Rings, Contract!contractVars

LEMMA Throwing == ASSUME Rings' = Rings, answer' = Answer("throw", NoUnit) PROVE Contract!ContractNext
BY DEF Rings, Contract!ContractNext, Contract!Throw, Contract!Answer, Contract!NoUnit, Answer, NoUnit

\* Whose the units of a ring are.
LEMMA UnitsIn ==
    ASSUME IInv, NEW l \in Lists
    PROVE  /\ Contract!UnitsOf(Ring(l)) \subseteq Of(l)
           /\ Listed(l) => Ring(l) # <<>> /\ DOMAIN Ring(l) = 1 .. Len(Ring(l)) /\ Len(Ring(l)) \in Nat \ {0}
<1>1. CASE Listed(l)
  <2>1. RingRead(l) /\ Ring(l) = From(sentry[l])
    BY <1>1, Readings, RingIs DEF Listed
  <2>2. /\ Ring(l) \in Seq(Cells(item)) /\ Len(Ring(l)) \in Nat \ {0}
        /\ \A k \in 1 .. Len(Ring(l)) : Ring(l)[k].unit \in Of(l)
    BY <2>1 DEF RingRead, Reads, Spells
  <2>3. DOMAIN Ring(l) = 1 .. Len(Ring(l)) /\ Ring(l) # <<>>
    BY <2>2
  <2> QED
    BY <2>2, <2>3 DEF Contract!UnitsOf
<1>2. CASE ~Listed(l)
  BY <1>2, RingIs DEF Contract!UnitsOf
<1> QED
  BY <1>1, <1>2

LEMMA Unused == ASSUME IInv, NEW u \in Units, owner[u] \notin Lists \/ ~Listed(owner[u]) PROVE u \notin Contract!Used
<1> SUFFICES ASSUME NEW l \in Lists, u \in Contract!UnitsOf(Rings[l]) PROVE FALSE
  BY DEF Contract!Used, Rings
<1>1. u \in Contract!UnitsOf(Ring(l))
  BY DEF Rings
<1>2. owner[u] = l
  BY <1>1, UnitsIn DEF Of
<1>3. Ring(l) = <<>>
  BY <1>2, RingIs
<1> QED
  BY <1>1, <1>3 DEF Contract!UnitsOf

Impl == [Contract!ContractNext]_Contract!contractVars

LEMMA SentryRings ==
    ASSUME IInv, RefInv, call.op # "uninitialize", NEW l \in Lists, InitializeSentry(l)
    PROVE  /\ Apart(l) /\ memory.first \in Units /\ owner[memory.first] = Pool /\ sentry'[l] = memory.first
           /\ sentry[l] = NoUnit /\ item'[memory.first] = NoItem
           /\ item' \in [Units -> Items \cup {NoItem}] /\ \A k \in Living' : item'[sentry'[k]] = NoItem
           /\ \A k \in Lists : k # l => (k \in Living' <=> k \in Living)
           /\ IInv' /\ Intact(l)' => From(sentry[l])' = <<Cell(item', memory.first)>>
<1> DEFINE f == memory.first
<1>1. /\ f \in Units /\ owner[f] = Pool /\ l # Pool /\ Take(f, l, NoItem)
      /\ sentry' = [sentry EXCEPT ![l] = f] /\ sentry[l] = NoUnit
      /\ \A x \in Units : memory'.next[x] = IF x = f THEN f ELSE memory.next[x]
  BY SentryBorn
<1> HIDE DEF f
<1>2. sentry \in Sentries /\ owner \in Owners
  BY Positions
<1>3. \A k \in Lists : k # l => sentry'[k] = sentry[k]
  BY <1>1, <1>2
<1>4. Apart(l)
  <2>1. \A k \in Lists : \A u \in Of(k) : u \in Units /\ u # f
    BY <1>1, PoolAssumption DEF Of
  <2> QED
    BY <1>1, <1>3, <2>1 DEF Apart, Take, RefInv
<1>5. item' \in [Units -> Items \cup {NoItem}] /\ item'[f] = NoItem /\ \A u \in Units : u # f => item'[u] = item[u]
  BY <1>1 DEF Take, RefInv
<1>6. sentry'[l] = f
  BY <1>1, <1>2 DEF Sentries
<1>7. \A k \in Living' : item'[sentry'[k]] = NoItem
  <2>1. SUFFICES ASSUME NEW k \in Lists, k # l, sentry[k] # NoUnit PROVE item'[sentry[k]] = NoItem
    BY <1>3, <1>5, <1>6 DEF Living
  <2>2. owner[sentry[k]] = k /\ sentry[k] \in Units /\ k # Pool
    BY <1>2, <2>1, PoolAssumption DEF IInv, Owned, Sentries
  <2>3. item[sentry[k]] = NoItem
    BY <2>1 DEF RefInv, Living
  <2> QED
    BY <1>1, <1>5, <2>2, <2>3
<1>8. ASSUME IInv', Intact(l)' PROVE From(sentry[l])' = <<Cell(item', f)>>
  <2> DEFINE c == Cell(item', f)
  <2>1. c \in Cells(item') /\ c.unit = f
    BY <1>1 DEF Cells, Cell
  <2> HIDE DEF c
  <2>2. <<c>> \in Seq(Cells(item')) /\ Len(<<c>>) = 1 /\ <<c>>[1] = c
    BY <2>1, OneCell
  <2>3. memory'.next[f] = f
    BY <1>1
  <2>4. Spells(<<c>>, memory', item', f, f)
    BY <2>1, <2>2, <2>3 DEF Spells, Ends, c
  <2> QED
    BY <1>6, <1>8, <2>4, Spelled DEF c
<1>9. \A k \in Lists : k # l => (k \in Living' <=> k \in Living)
  BY <1>3 DEF Living
<1> QED
  BY <1>1, <1>4, <1>5, <1>6, <1>7, <1>8, <1>9 DEF f

\* Nothing is copied or destroyed before or after the step, and the lists that there are remain.
LEMMA ListedAlike ==
    ASSUME IInv, IInv', call = Idle, call' = Idle, NEW k \in Lists, sentry'[k] = sentry[k]
    PROVE  (Listed(k)' <=> Listed(k)) /\ (Listed(k) <=> sentry[k] # NoUnit)
BY IntactNow, IntactThen DEF Listed, Idle

LEMMA CreateImpl ==
    ASSUME IInv, IInv', RefInv, NEW l \in Lists, Initialize(l)
    PROVE  RefInv' /\ Impl
<1> DEFINE f == memory.first
<1>1. call = Idle /\ call' = Idle /\ InitializeSentry(l) /\ answer' = Answer("create", NoUnit)
        /\ call.op = "idle" /\ call'.op = "idle"
  BY DEF Initialize, Return, Idle
<1>2. /\ Apart(l) /\ f \in Units /\ owner[f] = Pool /\ sentry'[l] = f /\ sentry[l] = NoUnit
      /\ item'[f] = NoItem /\ item' \in [Units -> Items \cup {NoItem}]
      /\ \A k \in Living' : item'[sentry'[k]] = NoItem
      /\ Intact(l)' => From(sentry[l])' = <<Cell(item', f)>>
  BY <1>1, SentryRings
<1> HIDE DEF f
<1>3. RefInv'
  BY <1>1, <1>2 DEF RefInv
<1>4. \A k \in Lists : k # l => Ring(k)' = Ring(k)
  BY <1>1, <1>2, ListedAlike, RingsStay DEF Apart
<1>5. ~Listed(l) /\ Listed(l)' /\ Intact(l)'
  BY <1>1, <1>2, Bounds, IntactNow, IntactThen DEF Listed
<1>6. Ring(l)' = <<Cell(item', f)>>
  BY <1>2, <1>5 DEF Ring, Listed, Intact
<1>7. Cell(item', f) = Contract!Holding(f, Contract!NoItem)
  BY <1>2 DEF Cell, Contract!Holding, Contract!NoItem, NoItem
<1>8. Rings' = [Rings EXCEPT ![l] = <<Contract!Holding(f, Contract!NoItem)>>]
  BY <1>4, <1>6, <1>7, RingsExcept
<1>9. f \notin Contract!Used
  BY <1>2, PoolAssumption, Unused
<1>10. Rings[l] = <<>>
  BY <1>5, RingIs DEF Rings
<1>11. Contract!Create(l)
  BY <1>1, <1>2, <1>8, <1>9, <1>10
     DEF Contract!Create, Contract!There, Contract!Answer, Contract!NoUnit, Answer, NoUnit, Rings
<1>12. Contract!ContractNext
  BY <1>11 DEF Contract!ContractNext
<1> QED
  BY <1>3, <1>12 DEF Impl

LEMMA InsertRing ==
    ASSUME IInv, IInv', RefInv, NEW l \in Lists, Intact(l), Intact(l)', memory.first \in Units,
           owner[memory.first] = Pool, NEW x \in Items \cup {NoItem}, Take(memory.first, l, x), sentry' = sentry,
           NEW leading \in Units, owner[leading] = l, LinkedBehind(memory, leading, memory')
    PROVE  /\ Apart(l) /\ item' \in [Units -> Items \cup {NoItem}]
           /\ item'[memory.first] = x /\ \A k \in Living' : item'[sentry'[k]] = NoItem
           /\ \E k \in 1 .. Len(From(sentry[l])) :
                /\ From(sentry[l])[k].unit = leading
                /\ From(sentry[l])' = InsertAt(From(sentry[l]), k + 1, Cell(item', memory.first))
<1> DEFINE f == memory.first
           s == sentry[l]
           P == Of(l)
           q == From(sentry[l])
<1>1. /\ f \in Units /\ owner[f] = Pool /\ l # Pool /\ f \notin P /\ P \subseteq Units /\ s \in P
      /\ Reads(q, memory, item, s, P)
  BY Readings, PoolAssumption DEF RingRead, Of
<1>2. /\ memory'.next[leading] = f /\ memory'.next[f] = memory.next[leading] /\ f # leading
      /\ \A y \in Units : y # f /\ y # leading => memory'.next[y] = memory.next[y]
  BY <1>1, PoolAssumption DEF LinkedBehind
<1>3. item' \in [Units -> Items \cup {NoItem}] /\ item'[f] = x /\ \A u \in Units : u # f => item'[u] = item[u]
  BY <1>1 DEF Take, RefInv
<1>4. Apart(l)
  <2>1. \A k \in Lists : \A u \in Of(k) : k # l => u \in Units /\ u # f /\ u # leading
    BY <1>1, PoolAssumption DEF Of
  <2> QED
    BY <1>2, <1>3, <2>1 DEF Apart
<1>5. \A k \in Living' : item'[sentry'[k]] = NoItem
  <2>1. SUFFICES ASSUME NEW k \in Lists, sentry[k] # NoUnit PROVE item'[sentry[k]] = NoItem
    BY DEF Living
  <2>2. owner[sentry[k]] = k /\ sentry[k] \in Units /\ k # Pool
    BY <2>1, PoolAssumption DEF IInv, Owned, Sentries
  <2>3. item[sentry[k]] = NoItem
    BY <2>1 DEF RefInv, Living
  <2> QED
    BY <1>1, <1>3, <2>2, <2>3
<1>6. PICK k \in 1 .. Len(q) : q[k].unit = leading
  BY <1>1 DEF Reads, Of
<1>7. Same(memory, item, memory', item', P, q[k].unit)
  BY <1>1, <1>2, <1>3, <1>6 DEF Same
<1> HIDE DEF f, s, P, q
<1>8. memory'.next[q[k].unit] = f /\ memory'.next[f] = memory.next[q[k].unit]
  BY <1>2, <1>6
<1>9. Spells(InsertAt(q, k + 1, Cell(item', f)), memory', item', s, s)
  BY <1>1, <1>7, <1>8, InsertsSpelled
<1>10. From(sentry[l])' = InsertAt(q, k + 1, Cell(item', f))
  BY <1>9, Spelled DEF s
<1> QED
  BY <1>3, <1>4, <1>5, <1>6, <1>10 DEF f, q

LEMMA InsertImpl ==
    ASSUME IInv, IInv', RefInv, NEW l \in Lists, NEW u \in Units, NEW x \in Items,
           Emplace(l, u, x) \/ EmplaceAfter(l, u, x)
    PROVE  RefInv' /\ Impl
<1> DEFINE f == memory.first
           q == From(sentry[l])
<1>1. /\ call = Idle /\ call' = Idle /\ sentry' = sentry /\ l # Pool /\ call.op = "idle" /\ call'.op = "idle"
      /\ f \in Units /\ Take(f, l, x) /\ answer' = Answer("insert", f)
  BY InsertsSome DEF Idle
<1>2. PICK leading \in Units : owner[leading] = l /\ LinkedBehind(memory, leading, memory')
  BY InsertsSome
<1>3. owner[f] = Pool /\ sentry[l] # NoUnit
  BY <1>1, <1>2 DEF IInv, Owned
<1>4. Intact(l) /\ Intact(l)' /\ Listed(l) /\ Listed(l)'
  BY <1>1, <1>3, IntactNow, IntactThen, ListedAlike
<1>5. /\ Apart(l) /\ item' \in [Units -> Items \cup {NoItem}]
      /\ item'[f] = x /\ \A k \in Living' : item'[sentry'[k]] = NoItem
      /\ \E k \in 1 .. Len(q) : q[k].unit = leading /\ q' = InsertAt(q, k + 1, Cell(item', f))
  BY <1>1, <1>2, <1>3, <1>4, InsertRing
<1>6. PICK k \in 1 .. Len(q) : q' = InsertAt(q, k + 1, Cell(item', f))
  BY <1>5
<1>7. RefInv'
  BY <1>1, <1>5 DEF RefInv
<1>8. \A j \in Lists : j # l => Ring(j)' = Ring(j)
  BY <1>1, <1>5, ListedAlike, RingsStay DEF Apart
<1>9. Ring(l) = q /\ Ring(l)' = q' /\ Rings[l] = Ring(l)
  BY <1>4, RingIs DEF Ring, Listed, Intact, Rings
<1>10. Cell(item', f) = Contract!Holding(f, x)
  BY <1>5 DEF Cell, Contract!Holding
<1> HIDE DEF q, f
<1>11. Rings' = [Rings EXCEPT ![l] = InsertAt(@, k + 1, Contract!Holding(f, x))]
  BY <1>6, <1>8, <1>9, <1>10, RingsExcept
<1>12. f \notin Contract!Used
  BY <1>1, <1>3, PoolAssumption, Unused
<1>13. k \in DOMAIN Rings[l]
  BY <1>4, <1>6, <1>9, UnitsIn
<1>14. Contract!Insert(l, k, x)
  BY <1>1, <1>11, <1>12 DEF Contract!Insert, Contract!Answer, Answer, Rings, InsertAt, Contract!InsertAt
<1>15. Contract!ContractNext
  BY <1>13, <1>14 DEF Contract!ContractNext, Rings
<1> QED
  BY <1>7, <1>15 DEF Impl

LEMMA EraseImpl ==
    ASSUME IInv, IInv', RefInv, NEW l \in Lists, NEW u \in Units, EraseNode(l, u) \/ EraseAfter(l, u)
    PROVE  RefInv' /\ Impl
<1> DEFINE s == sentry[l]
           P == Of(l)
           q == From(sentry[l])
<1>1. /\ call = Idle /\ call' = Idle /\ sentry' = sentry /\ l # Pool /\ call.op = "idle" /\ call'.op = "idle"
      /\ s # NoUnit
  BY ErasesSome DEF Idle, Living
<1>2. PICK leading \in Units :
        /\ owner[leading] = l /\ Erased(memory, leading, memory')
        /\ memory.next[leading] \in Units /\ memory.next[leading] # sentry[l]
        /\ Take(memory.next[leading], Pool, NoItem)
        /\ \/ answer'.of = "erase"
           \/ answer' = Answer("eraseAfter", memory.next[memory.next[leading]])
  BY ErasesSome
<1> DEFINE e == memory.next[leading]
<1>3. Intact(l) /\ Intact(l)' /\ Listed(l) /\ Listed(l)'
  BY <1>1, IntactNow, IntactThen, ListedAlike
<1>4. /\ P \subseteq Units /\ s \in P /\ Reads(q, memory, item, s, P) /\ leading \in P
      /\ \A y \in P : memory.next[y] \in P
  BY <1>2, <1>3, Readings DEF RingRead, Of
<1>5. \A y, z \in Units : memory.next[y] = memory.next[z] => y = z
  BY <1>1, Whole DEF Consistent, Linking
<1>6. e \in P /\ e # s /\ Take(e, Pool, NoItem) /\ e \in Units
  BY <1>2, <1>4
<1> HIDE DEF s, P, q
<1>7. /\ q \in Seq(Cells(item)) /\ Len(q) \in Nat \ {0} /\ q[1] = Cell(item, s)
      /\ \A k \in 1 .. Len(q) : q[k].unit \in P /\ q[k] = Cell(item, q[k].unit)
      /\ \A j, k \in 1 .. Len(q) : q[j].unit = q[k].unit => j = k
      /\ \A k \in 1 .. Len(q) - 1 : ~Ends(memory, s, q[k].unit) /\ memory.next[q[k].unit] = q[k + 1].unit
      /\ Ends(memory, s, q[Len(q)].unit)
  BY <1>4, CellsOf
<1>8. PICK k \in 1 .. Len(q) : q[k].unit = e
  BY <1>4, <1>6 DEF Reads
<1>9. q[1].unit = s
  BY <1>7 DEF Cell
<1>10. k \in 2 .. Len(q) /\ k - 1 \in 1 .. Len(q) - 1 /\ k - 1 \in 1 .. Len(q)
  BY <1>6, <1>7, <1>8, <1>9
<1>11. q[k - 1].unit = leading
  <2>1. memory.next[q[k - 1].unit] = q[(k - 1) + 1].unit
    BY <1>7, <1>10
  <2>2. (k - 1) + 1 = k /\ q[k - 1].unit \in Units
    BY <1>4, <1>7, <1>10
  <2> QED
    BY <1>2, <1>5, <1>8, <2>1, <2>2
<1>12. leading # e
  BY <1>7, <1>8, <1>10, <1>11
<1> HIDE DEF e
<1>13. /\ memory'.next[leading] = memory.next[e]
       /\ \A y \in Units : y # e /\ y # leading => memory'.next[y] = memory.next[y]
  BY <1>2, <1>12 DEF Erased, e
<1>14. item' \in [Units -> Items \cup {NoItem}] /\ \A y \in Units : y # e => item'[y] = item[y]
  BY <1>6 DEF Take, RefInv
<1>15. Same(memory, item, memory', item', P \ {q[k].unit}, q[k - 1].unit)
  BY <1>4, <1>8, <1>11, <1>13, <1>14 DEF Same
<1>16. memory'.next[q[k - 1].unit] = memory.next[q[k].unit]
  BY <1>8, <1>11, <1>13
<1>17. Spells(RemoveAt(q, k), memory', item', s, s)
  BY <1>4, <1>10, <1>15, <1>16, ErasesSpelled
<1>18. Ring(l) = q /\ Ring(l)' = RemoveAt(q, k) /\ Rings[l] = Ring(l)
  <2>1. From(sentry[l])' = RemoveAt(q, k)
    BY <1>1, <1>3, <1>17, Spelled DEF s
  <2>2. Ring(l)' = From(sentry[l])'
    BY <1>3 DEF Ring, Listed, Intact
  <2> QED
    BY <1>3, <2>1, <2>2, RingIs DEF q, Rings
<1>19. Apart(l)
  <2>1. \A j \in Lists : \A y \in Of(j) : j # l => y \in Units /\ y # e /\ y # leading
    BY <1>2, <1>6 DEF Of, P
  <2> QED
    BY <1>1, <1>13, <1>14, <2>1 DEF Apart
<1>20. RefInv'
  <2>1. \A j \in Living' : item'[sentry'[j]] = NoItem
    <3>1. SUFFICES ASSUME NEW j \in Lists, sentry[j] # NoUnit PROVE item'[sentry[j]] = NoItem
      BY <1>1 DEF Living
    <3>2. owner[sentry[j]] = j /\ sentry[j] \in Units /\ item[sentry[j]] = NoItem
      BY <3>1 DEF IInv, Owned, Sentries, RefInv, Living
    <3>3. sentry[j] # e
      BY <1>6, <3>2 DEF P, Of, s
    <3> QED
      BY <1>14, <3>2, <3>3
  <2> QED
    BY <1>1, <1>14, <2>1 DEF RefInv
<1>21. \A j \in Lists : j # l => Ring(j)' = Ring(j)
  BY <1>1, <1>19, ListedAlike, RingsStay DEF Apart
<1>22. Rings' = [Rings EXCEPT ![l] = RemoveAt(@, k)]
  BY <1>18, <1>21, RingsExcept
<1>23. Contract!After(Rings[l], k) = memory.next[e]
  <2>1. memory.next[q[k].unit] = IF k = Len(q) THEN s ELSE q[k + 1].unit
    BY <1>3, <1>8, NextCell DEF q, s
  <2> QED
    BY <1>8, <1>9, <1>18, <2>1 DEF Contract!After
<1>24. k \in DOMAIN Rings[l] /\ k > 1
  BY <1>7, <1>10, <1>18
<1>25. answer'.of = "erase" \/ answer' = Contract!Answer("eraseAfter", Contract!After(Rings[l], k))
  BY <1>2, <1>23 DEF Contract!Answer, Answer, e
<1>26. Contract!Erase(l, k)
  BY <1>22, <1>24, <1>25 DEF Contract!Erase, Rings, RemoveAt, Contract!RemoveAt
<1>27. Contract!ContractNext
  BY <1>24, <1>26 DEF Contract!ContractNext, Rings
<1> QED
  BY <1>20, <1>27 DEF Impl

LEMMA FailImpl ==
    ASSUME IInv, IInv', RefInv, NEW l \in Lists, EmplaceFails(l)
    PROVE  RefInv' /\ Impl
<1>1. /\ call = Idle /\ call' = Idle /\ sentry' = sentry /\ item' = item /\ call.op = "idle" /\ call'.op = "idle"
      /\ answer' = Answer("throw", NoUnit) /\ \A x \in Units : memory'.next[x] = memory.next[x]
  BY Reverted DEF EmplaceFails, Return, Idle
<1>2. Apart(Pool)
  BY <1>1 DEF Apart, Of
<1>3. \A k \in Lists : Ring(k)' = Ring(k)
  BY <1>1, <1>2, ListedAlike, RingsStay, PoolAssumption
<1>4. RefInv'
  BY <1>1 DEF RefInv, Living
<1> QED
  BY <1>1, <1>3, <1>4, RingsSame, Throwing DEF Impl

LEMMA SwapImpl ==
    ASSUME IInv, IInv', RefInv, NEW l \in Lists, NEW m \in Lists, SwapWith(l, m)
    PROVE  RefInv' /\ Impl
<1>1. /\ call = Idle /\ call' = Idle /\ memory' = memory /\ item' = item
      /\ call.op = "idle" /\ call'.op = "idle"
      /\ sentry[l] # NoUnit /\ sentry[m] # NoUnit /\ answer' = Answer("swap", NoUnit)
  BY DEF SwapWith, Return, Idle, Living
<1>2. /\ sentry'[l] = sentry[m] /\ sentry'[m] = sentry[l]
      /\ \A k \in Lists : k # l /\ k # m => sentry'[k] = sentry[k]
  BY DEF SwapWith
<1>3. /\ \A k \in Lists : Listed(k) <=> sentry[k] # NoUnit
      /\ \A k \in Lists : Listed(k)' <=> sentry'[k] # NoUnit
  BY <1>1, IntactNow, IntactThen DEF Listed
<1>4. \A k \in Lists : From(sentry[k])' = From(sentry'[k])
  BY <1>1 DEF From
<1>5. \A k \in Lists : Ring(k)' = IF sentry'[k] # NoUnit THEN From(sentry'[k]) ELSE <<>>
  BY <1>3, <1>4 DEF Ring, Listed, Intact
<1>6. \A k \in Lists : Ring(k) = IF sentry[k] # NoUnit THEN From(sentry[k]) ELSE <<>>
  BY <1>3, RingIs
<1>7. Ring(l)' = Ring(m) /\ Ring(m)' = Ring(l) /\ \A k \in Lists : k # l /\ k # m => Ring(k)' = Ring(k)
  BY <1>1, <1>2, <1>5, <1>6
<1>8. Rings' = [Rings EXCEPT ![l] = Rings[m], ![m] = Rings[l]]
  BY <1>7 DEF Rings
<1>9. Ring(l) # <<>> /\ Ring(m) # <<>>
  BY <1>1, <1>3, UnitsIn
<1>10. Contract!Swap(l, m)
  BY <1>1, <1>8, <1>9
     DEF Contract!Swap, Contract!There, Contract!Answer, Contract!NoUnit, Answer, NoUnit, Rings
<1>11. Contract!ContractNext
  BY <1>10 DEF Contract!ContractNext
<1>12. RefInv'
  <2>1. \A k \in Living' : item[sentry'[k]] = NoItem
    BY <1>1, <1>2 DEF RefInv, Living
  <2> QED
    BY <1>1, <2>1 DEF RefInv
<1> QED
  BY <1>11, <1>12 DEF Impl

LEMMA DestroyImpl ==
    ASSUME IInv, IInv', RefInv, NEW l \in Lists, Uninitialize(l)
    PROVE  RefInv' /\ Impl
<1>1. /\ call.op = "idle" /\ call'.op = "uninitialize" /\ call'.list = l /\ call'.reason = "destroy"
      /\ memory' = memory /\ sentry' = sentry /\ item' = item
      /\ sentry[l] # NoUnit /\ answer' = Answer("destroy", NoUnit)
  BY DEF Uninitialize, Uninitializing, Idle, Living
<1>2. Apart(l)
  BY <1>1 DEF Apart
<1>3. \A k \in Lists : k # l => (Listed(k)' <=> Listed(k))
  BY <1>1, IntactNow, IntactThen DEF Listed
<1>4. Listed(l) /\ ~Listed(l)'
  BY <1>1, IntactNow, IntactThen DEF Listed
<1>5. Rings' = [Rings EXCEPT ![l] = <<>>]
  <2>1. Ring(l)' = <<>>
    BY <1>4 DEF Ring, Listed, Intact
  <2> QED
    BY <1>2, <1>3, <2>1, RingsStay, RingsExcept
<1>6. Rings[l] # <<>>
  BY <1>4, UnitsIn DEF Rings
<1>7. Contract!Destroy(l)
  BY <1>1, <1>5, <1>6
     DEF Contract!Destroy, Contract!There, Contract!Answer, Contract!NoUnit, Answer, NoUnit, Rings
<1>8. Contract!ContractNext
  BY <1>7 DEF Contract!ContractNext
<1>9. RefInv'
  BY <1>1 DEF RefInv, Living
<1> QED
  BY <1>8, <1>9 DEF Impl

LEMMA DestroyOneImpl ==
    ASSUME IInv, IInv', RefInv, UninitializeOne
    PROVE  RefInv' /\ Impl
<1>0. call.op = "uninitialize" /\ Uninitializes
  BY DEF IInv, UninitializeOne, Idle, Cloning
<1> PICK l \in Lists : l = call.list
  BY <1>0 DEF Uninitializes, Living
<1> DEFINE b == call.begin
<1>1. /\ call.op = "uninitialize" /\ Uninitializes /\ UNCHANGED <<sentry, answer>> /\ b # sentry[l]
      /\ memory' = Deallocate(memory, b) /\ Take(b, Pool, NoItem) /\ call' = [call EXCEPT !.begin = memory.next[b]]
  BY <1>0 DEF UninitializeOne
<1>2. /\ l \in Lists /\ b \in Units /\ owner[b] = l /\ call'.op = "uninitialize" /\ call'.list = l
      /\ call'.reason = call.reason
  BY <1>1 DEF Uninitializes, Living
<1>3. Deallocated(memory, b, memory')
  BY <1>1, <1>2, Positions, Deallocates
<1>4. item' \in [Units -> Items \cup {NoItem}] /\ \A u \in Units : u # b => item'[u] = item[u]
  BY <1>1 DEF Take, RefInv
<1>5. Apart(l)
  BY <1>1, <1>2, <1>3, <1>4 DEF Apart, Of, Deallocated
<1>6. \A k \in Lists : Listed(k)' <=> Listed(k)
  BY <1>1, <1>2, IntactNow, IntactThen DEF Listed
<1>7. Ring(l)' = <<>> /\ Ring(l) = <<>>
  <2>1. ~Listed(l) /\ ~Listed(l)'
    BY <1>1, <1>2, <1>6, IntactNow DEF Listed
  <2> QED
    BY <2>1 DEF Ring, Listed, Intact
<1>8. \A k \in Lists : Ring(k)' = Ring(k)
  <2>1. ASSUME NEW k \in Lists, k # l PROVE Ring(k)' = Ring(k)
    BY <1>5, <1>6, <2>1, RingsStay
  <2> QED
    BY <1>7, <2>1
<1>9. RefInv'
  <2>1. \A k \in Living' : item'[sentry'[k]] = NoItem
    <3>1. SUFFICES ASSUME NEW k \in Lists, sentry[k] # NoUnit PROVE item'[sentry[k]] = NoItem
      BY <1>1 DEF Living
    <3>2. owner[sentry[k]] = k /\ sentry[k] \in Units /\ item[sentry[k]] = NoItem
      BY <3>1 DEF IInv, Owned, Sentries, RefInv, Living
    <3> QED
      BY <1>1, <1>2, <1>4, <3>2
  <2> QED
    BY <1>1, <1>2, <1>4, <2>1 DEF RefInv
<1> QED
  BY <1>1, <1>8, <1>9, RingsSame, Stutters DEF Impl

LEMMA DestroySentryImpl ==
    ASSUME IInv, IInv', RefInv, Uninitialized
    PROVE  RefInv' /\ Impl
<1>0. call.op = "uninitialize" /\ Uninitializes
  BY DEF IInv, Uninitialized, Idle, Cloning
<1> PICK l \in Lists : l = call.list
  BY <1>0 DEF Uninitializes, Living
<1> DEFINE z == sentry[l]
<1>1. /\ call.op = "uninitialize" /\ Uninitializes /\ call'.op = "idle"
      /\ memory' = Deallocate(memory, z) /\ Take(z, Pool, NoItem) /\ sentry' = [sentry EXCEPT ![l] = NoUnit]
      /\ answer' = Answer(call.reason, NoUnit)
  BY <1>0 DEF Uninitialized, Return, Idle
<1>2. l \in Lists /\ z \in Units /\ owner[z] = l /\ call.reason \in {"throw", "destroy"}
  BY <1>1, Positions DEF Uninitializes, Living, IInv, Owned, Sentries
<1>3. Deallocated(memory, z, memory')
  BY <1>1, <1>2, Positions, Deallocates
<1>4. item' \in [Units -> Items \cup {NoItem}] /\ \A u \in Units : u # z => item'[u] = item[u]
  BY <1>1 DEF Take, RefInv
<1>5. sentry'[l] = NoUnit /\ \A k \in Lists : k # l => sentry'[k] = sentry[k]
  BY <1>1, Positions DEF Sentries
<1>6. Apart(l)
  BY <1>2, <1>3, <1>4, <1>5 DEF Apart, Of, Deallocated
<1>7. \A k \in Lists : Listed(k)' <=> Listed(k)
  BY <1>1, <1>5, IntactNow, IntactThen DEF Listed
<1>8. Ring(l)' = <<>> /\ Ring(l) = <<>>
  <2>1. ~Listed(l) /\ ~Listed(l)'
    BY <1>1, <1>2, <1>7, IntactNow DEF Listed
  <2> QED
    BY <2>1 DEF Ring, Listed, Intact
<1>9. \A k \in Lists : Ring(k)' = Ring(k)
  <2>1. ASSUME NEW k \in Lists, k # l PROVE Ring(k)' = Ring(k)
    BY <1>6, <1>7, <2>1, RingsStay
  <2> QED
    BY <1>8, <2>1
<1>10. RefInv'
  <2>1. \A k \in Living' : item'[sentry'[k]] = NoItem
    <3>1. SUFFICES ASSUME NEW k \in Lists, k # l, sentry[k] # NoUnit PROVE item'[sentry[k]] = NoItem
      BY <1>5 DEF Living
    <3>2. owner[sentry[k]] = k /\ sentry[k] \in Units /\ item[sentry[k]] = NoItem
      BY <3>1 DEF IInv, Owned, Sentries, RefInv, Living
    <3> QED
      BY <1>2, <1>4, <3>1, <3>2
  <2> QED
    BY <1>1, <1>4, <2>1 DEF RefInv
<1>11. CASE call.reason = "throw"
  BY <1>1, <1>9, <1>10, <1>11, RingsSame, Throwing DEF Impl
<1>12. CASE call.reason = "destroy"
  <2>1. answer' = answer
    BY <1>1, <1>12 DEF RefInv
  <2> QED
    BY <1>9, <1>10, <2>1, RingsSame, Stutters DEF Impl
<1> QED
  BY <1>2, <1>11, <1>12

LEMMA CloneToImpl ==
    ASSUME IInv, IInv', RefInv, NEW l \in Lists, NEW m \in Lists, CloneTo(l, m)
    PROVE  RefInv' /\ Impl
<1> DEFINE f == memory.first
           p == From(sentry[l])
<1>1. /\ call.op = "idle" /\ call'.op = "clone" /\ call'.from = l /\ call'.to = m
      /\ call'.begin = memory.next[sentry[l]] /\ call'.current = f
      /\ answer' = answer /\ sentry[l] # NoUnit /\ InitializeSentry(m) /\ sentry[m] = NoUnit /\ l # m
  BY DEF CloneTo, InitializeSentry, Idle, Living
<1>2. /\ Apart(m) /\ f \in Units /\ sentry'[m] = f /\ item'[f] = NoItem
      /\ item' \in [Units -> Items \cup {NoItem}] /\ \A k \in Living' : item'[sentry'[k]] = NoItem
      /\ Intact(m)' => From(sentry[m])' = <<Cell(item', f)>>
  BY <1>1, SentryRings
<1>3. \A k \in Lists : k # m => sentry'[k] = sentry[k]
  BY <1>2 DEF Apart
<1>4. Intact(l) /\ Intact(l)' /\ Intact(m)'
  BY <1>1, <1>2, <1>3, Bounds, IntactNow, IntactThen
<1>5. \A k \in Lists : k # m => (Listed(k)' <=> Listed(k))
  BY <1>1, <1>3, IntactNow, IntactThen DEF Listed
<1>6. Ring(m)' = <<>> /\ Ring(m) = <<>>
  <2>1. ~Listed(m) /\ ~Listed(m)'
    BY <1>1, IntactNow DEF Listed
  <2> QED
    BY <2>1 DEF Ring, Listed, Intact
<1>7. \A k \in Lists : Ring(k)' = Ring(k)
  <2>1. ASSUME NEW k \in Lists, k # m PROVE Ring(k)' = Ring(k)
    BY <1>2, <1>5, <2>1, RingsStay
  <2> QED
    BY <1>6, <2>1
<1>8. p' = p
  BY <1>1, <1>2, <1>3, <1>4, RingStays DEF Apart
<1>9. /\ p \in Seq(Cells(item)) /\ Len(p) \in Nat \ {0} /\ p[1].unit = sentry[l] /\ p[1].item = NoItem
  <2>1. item[sentry[l]] = NoItem
    BY <1>1 DEF RefInv, Living
  <2>2. p \in Seq(Cells(item)) /\ Len(p) \in Nat \ {0} /\ p[1] = Cell(item, sentry[l])
    BY <1>4, Readings DEF RingRead, Reads, Spells
  <2> QED
    BY <2>1, <2>2 DEF Cell
<1>10. memory.next[p[1].unit] = IF 1 = Len(p) THEN sentry[l] ELSE p[2].unit
  <2>1. 1 \in 1 .. Len(p) /\ 1 + 1 = 2
    BY <1>9
  <2> QED
    BY <1>4, <2>1, NextCell
<1> DEFINE c == <<Cell(item', f)>>
<1>11. Len(c) = 1 /\ c[1].unit = f /\ c[1].item = NoItem
  BY <1>2 DEF Cell
<1>12. From(sentry[l])' = p /\ From(sentry[m])' = c
  BY <1>2, <1>4, <1>8
<1> HIDE DEF p, c, f
<1>13. CopiedFrom(From(sentry[call.from]), From(sentry[call.to]))'
  <2>1. /\ Len(c) <= Len(p) /\ \A k \in 1 .. Len(c) : c[k].item = p[k].item
        /\ c[Len(c)].unit = call'.current
        /\ call'.begin = IF Len(c) = Len(p) THEN sentry'[l] ELSE p[Len(c) + 1].unit
    BY <1>1, <1>3, <1>9, <1>10, <1>11
  <2> QED
    BY <1>1, <1>12, <2>1 DEF CopiedFrom
<1>14. RefInv'
  BY <1>1, <1>2, <1>13 DEF RefInv
<1> QED
  BY <1>1, <1>7, <1>14, RingsSame, Stutters DEF Impl

\* What is known of the two lists while one is copied.
LEMMA BothRings ==
    ASSUME IInv, RefInv, call.op = "clone", NEW l \in Lists, l = call.from, NEW m \in Lists, m = call.to
    PROVE  LET p == From(sentry[l])
               c == From(sentry[m])
           IN  /\ l # m /\ Intact(l) /\ Intact(m) /\ ~Listed(m)
               /\ Reads(p, memory, item, sentry[l], Of(l)) /\ Reads(c, memory, item, sentry[m], Of(m))
               /\ Len(p) \in Nat \ {0} /\ Len(c) \in Nat \ {0}
               /\ \A k \in 1 .. Len(p) : p[k] = Cell(item, p[k].unit) /\ p[k].unit \in Of(l)
               /\ \A j, k \in 1 .. Len(p) : p[j].unit = p[k].unit => j = k
               /\ \A j, k \in 1 .. Len(c) : c[j].unit = c[k].unit => j = k
               /\ p[1].unit = sentry[l]
               /\ CopiedFrom(p, c)
<1>1. Cloning /\ sentry[l] # NoUnit /\ sentry[m] # NoUnit
  BY DEF IInv, Idle, Uninitializes, Cloning, Living
<1>2. Intact(l) /\ Intact(m) /\ ~Listed(m)
  BY <1>1, IntactNow DEF Listed
<1>3. /\ l # m /\ CopiedFrom(From(sentry[l]), From(sentry[m]))
  BY DEF RefInv
<1>4. /\ Reads(From(sentry[l]), memory, item, sentry[l], Of(l)) /\ Of(l) \subseteq Units
      /\ Reads(From(sentry[m]), memory, item, sentry[m], Of(m)) /\ Of(m) \subseteq Units
  BY <1>2, Readings DEF RingRead
<1> DEFINE p == From(sentry[l])
           c == From(sentry[m])
           s == sentry[l]
           z == sentry[m]
           P == Of(l)
           Q == Of(m)
<1> HIDE DEF p, c, s, z, P, Q
<1>5. Reads(p, memory, item, s, P) /\ P \subseteq Units /\ Reads(c, memory, item, z, Q) /\ Q \subseteq Units
  BY <1>4 DEF p, c, s, z, P, Q
<1>6. /\ p \in Seq(Cells(item)) /\ Len(p) \in Nat \ {0} /\ p[1] = Cell(item, s)
      /\ \A k \in 1 .. Len(p) : p[k].unit \in P /\ p[k] = Cell(item, p[k].unit)
      /\ \A j, k \in 1 .. Len(p) : p[j].unit = p[k].unit => j = k
      /\ \A k \in 1 .. Len(p) - 1 : ~Ends(memory, s, p[k].unit) /\ memory.next[p[k].unit] = p[k + 1].unit
      /\ Ends(memory, s, p[Len(p)].unit)
  BY <1>5, CellsOf
<1>7. /\ c \in Seq(Cells(item)) /\ Len(c) \in Nat \ {0} /\ c[1] = Cell(item, z)
      /\ \A k \in 1 .. Len(c) : c[k].unit \in Q /\ c[k] = Cell(item, c[k].unit)
      /\ \A j, k \in 1 .. Len(c) : c[j].unit = c[k].unit => j = k
      /\ \A k \in 1 .. Len(c) - 1 : ~Ends(memory, z, c[k].unit) /\ memory.next[c[k].unit] = c[k + 1].unit
      /\ Ends(memory, z, c[Len(c)].unit)
  BY <1>5, CellsOf
<1>8. p[1].unit = s
  BY <1>6 DEF Cell
<1>9. l # m /\ CopiedFrom(p, c) /\ Reads(p, memory, item, s, P) /\ Reads(c, memory, item, z, Q)
  BY <1>3, <1>5 DEF p, c
<1> QED
  BY <1>2, <1>6, <1>7, <1>8, <1>9 DEF p, c, s, z, P, Q

LEMMA CloneOneImpl ==
    ASSUME IInv, IInv', RefInv, CloneOne
    PROVE  RefInv' /\ Impl
<1>1. call.op = "clone" /\ Cloning
  BY DEF IInv, CloneOne, Idle, Uninitializes
<1> PICK l \in Lists : l = call.from
  BY <1>1 DEF Cloning, Living
<1> PICK m \in Lists : m = call.to
  BY <1>1 DEF Cloning, Living
<1> DEFINE f == memory.first
           p == From(sentry[l])
           c == From(sentry[m])
           n == Len(c)
<1>2. /\ sentry' = sentry /\ answer' = answer /\ call.begin # sentry[l] /\ f \in Units /\ owner[f] = Pool
      /\ Take(f, m, item[call.begin])
      /\ call' = [call EXCEPT !.begin = memory'.next[call.begin], !.current = f]
      /\ memory' = InsertedAfter(Allocate(memory), call.current, f)
  BY Positions DEF CloneOne, Exhausted, Memories, IInv, Owned
<1>3. /\ call'.op = "clone" /\ call'.from = l /\ call'.to = m
      /\ call'.begin = memory'.next[call.begin] /\ call'.current = f
      /\ call.current \in Units /\ owner[call.current] = m /\ call.begin \in Units /\ owner[call.begin] = l
  BY <1>1, <1>2 DEF Cloning
<1>4. LinkedBehind(memory, call.current, memory')
  BY <1>1, <1>2, <1>3, Whole, Positions, Follows, InsertsAfter, PoolAssumption DEF Consistent
<1>5. /\ l # m /\ Intact(l) /\ Intact(m) /\ ~Listed(m)
      /\ Len(p) \in Nat \ {0} /\ n \in Nat \ {0} /\ c \in Seq(Cells(item))
      /\ \A k \in 1 .. Len(p) : p[k] = Cell(item, p[k].unit) /\ p[k].unit \in Of(l)
      /\ \A j, k \in 1 .. n : c[j].unit = c[k].unit => j = k
      /\ CopiedFrom(p, c)
  BY <1>1, BothRings DEF Reads, Spells
<1>6. Intact(l)' /\ Intact(m)' /\ ~Listed(m)' /\ \A k \in Lists : Listed(k)' <=> Listed(k)
  BY <1>1, <1>2, <1>3, <1>5, IntactNow, IntactThen DEF Listed
<1>7. item[call.begin] \in Items \cup {NoItem}
  BY <1>3 DEF RefInv
<1>8. /\ Apart(m) /\ item' \in [Units -> Items \cup {NoItem}]
      /\ item'[f] = item[call.begin] /\ \A k \in Living' : item'[sentry'[k]] = NoItem
      /\ \E k \in 1 .. n : c[k].unit = call.current /\ c' = InsertAt(c, k + 1, Cell(item', f))
  BY <1>2, <1>3, <1>4, <1>5, <1>6, <1>7, InsertRing
<1>9. \A k \in Lists : Ring(k)' = Ring(k)
  <2>1. ASSUME NEW k \in Lists, k # m PROVE Ring(k)' = Ring(k)
    BY <1>6, <1>8, <2>1, RingsStay
  <2>2. Ring(m)' = <<>> /\ Ring(m) = <<>>
    BY <1>5, <1>6 DEF Ring, Listed, Intact
  <2> QED
    BY <2>1, <2>2
<1>10. p' = p
  BY <1>2, <1>5, <1>6, <1>8, RingStays DEF Apart
<1>11. PICK k \in 1 .. n : c[k].unit = call.current /\ c' = InsertAt(c, k + 1, Cell(item', f))
  BY <1>8
<1>12. /\ n <= Len(p) /\ \A j \in 1 .. n : c[j].item = p[j].item
       /\ c[n].unit = call.current
       /\ call.begin = IF n = Len(p) THEN sentry[l] ELSE p[n + 1].unit
  BY <1>5 DEF CopiedFrom
<1> DEFINE d == InsertAt(c, n + 1, Cell(item', f))
<1>13. c' = d
  <2>1. k = n
    BY <1>5, <1>11, <1>12
  <2> QED
    BY <1>11, <2>1
<1>14. n + 1 \in 1 .. Len(p) /\ call.begin = p[n + 1].unit /\ p[n + 1].item = item[call.begin]
  <2>1. n + 1 \in 1 .. Len(p) /\ call.begin = p[n + 1].unit
    BY <1>2, <1>5, <1>12
  <2> HIDE DEF p, n
  <2>2. p[n + 1] = Cell(item, p[n + 1].unit)
    BY <1>5, <2>1
  <2>3. p[n + 1].item = item[p[n + 1].unit]
    BY <2>2 DEF Cell
  <2> QED
    BY <2>1, <2>3
<1>15. memory'.next[call.begin] = IF n + 1 = Len(p) THEN sentry[l] ELSE p[(n + 1) + 1].unit
  <2>1. memory.next[p[n + 1].unit] = IF n + 1 = Len(p) THEN sentry[l] ELSE p[(n + 1) + 1].unit
    BY <1>5, <1>14, NextCell
  <2>2. memory'.next[call.begin] = memory.next[call.begin]
    BY <1>2, <1>3, <1>4, <1>5, PoolAssumption DEF LinkedBehind
  <2> QED
    BY <1>14, <2>1, <2>2
<1>16. /\ Len(d) = n + 1 /\ d[n + 1] = Cell(item', f) /\ \A j \in 1 .. n : d[j] = c[j]
  <2> DEFINE S == Cells(item) \cup Cells(item')
  <2>1. Cell(item', f) \in S /\ c \in Seq(S)
    BY <1>2, <1>5, SeqMonotonic DEF Cells
  <2>2. n \in 1 .. Len(c)
    BY <1>5
  <2>3. n = Len(c)
    OBVIOUS
  <2> HIDE DEF S, c, n
  <2>4. /\ Len(d) = Len(c) + 1 /\ d[n + 1] = Cell(item', f)
        /\ \A j \in 1 .. n : d[j] = c[j]
    BY <2>1, <2>2, InsertedAt
  <2> QED
    BY <2>3, <2>4
<1>17. Cell(item', f).unit = f /\ Cell(item', f).item = item[call.begin]
  BY <1>8 DEF Cell
<1>18. From(sentry[l])' = p /\ From(sentry[m])' = d
  BY <1>10, <1>13
<1> HIDE DEF p, c, d, n, f
<1>19. CopiedFrom(From(sentry[call.from]), From(sentry[call.to]))'
  <2>1. \A j \in 1 .. n + 1 : d[j].item = p[j].item
    BY <1>5, <1>12, <1>14, <1>16, <1>17
  <2>2. /\ Len(d) <= Len(p) /\ d[Len(d)].unit = call'.current
        /\ call'.begin = IF Len(d) = Len(p) THEN sentry'[l] ELSE p[Len(d) + 1].unit
    BY <1>2, <1>3, <1>14, <1>15, <1>16, <1>17
  <2> QED
    BY <1>3, <1>16, <1>18, <2>1, <2>2 DEF CopiedFrom
<1>20. RefInv'
  BY <1>3, <1>5, <1>8, <1>19 DEF RefInv
<1> QED
  BY <1>2, <1>9, <1>20, RingsSame, Stutters DEF Impl

LEMMA ClonedImpl ==
    ASSUME IInv, IInv', RefInv, Cloned
    PROVE  RefInv' /\ Impl
<1>1. call.op = "clone" /\ Cloning
  BY DEF IInv, Cloned, Idle, Uninitializes
<1> PICK l \in Lists : l = call.from
  BY <1>1 DEF Cloning, Living
<1> PICK m \in Lists : m = call.to
  BY <1>1 DEF Cloning, Living
<1> DEFINE p == From(sentry[l])
           c == From(sentry[m])
<1>2. /\ memory' = memory /\ sentry' = sentry /\ item' = item /\ call'.op = "idle"
      /\ answer' = Answer("clone", NoUnit) /\ call.begin = sentry[l]
  BY DEF Cloned, Return, Idle
<1>3. /\ l # m /\ Intact(l) /\ Intact(m) /\ ~Listed(m)
      /\ Reads(c, memory, item, sentry[m], Of(m))
      /\ Len(p) \in Nat \ {0} /\ Len(c) \in Nat \ {0}
      /\ \A j, k \in 1 .. Len(p) : p[j].unit = p[k].unit => j = k
      /\ p[1].unit = sentry[l]
      /\ CopiedFrom(p, c)
  BY <1>1, BothRings
<1>4. Apart(m)
  BY <1>2 DEF Apart
<1>5. Listed(m)' /\ \A k \in Lists : k # m => (Listed(k)' <=> Listed(k))
  BY <1>1, <1>2, <1>3, IntactNow, IntactThen DEF Listed
<1>6. Ring(m)' = c
  BY <1>2, <1>5 DEF Ring, Listed, Intact, From
<1>7. Rings' = [Rings EXCEPT ![m] = c]
  BY <1>4, <1>5, <1>6, RingsStay, RingsExcept
<1>8. Rings[m] = <<>> /\ Rings[l] = p /\ Rings[l] # <<>>
  <2>1. Listed(l)
    BY <1>1, <1>3 DEF Listed
  <2> QED
    BY <1>3, <2>1, RingIs, UnitsIn DEF Rings
<1>9. Len(c) = Len(p) /\ \A k \in 1 .. Len(c) : c[k].item = p[k].item
  <2>1. /\ Len(c) <= Len(p) /\ \A k \in 1 .. Len(c) : c[k].item = p[k].item
        /\ sentry[l] = IF Len(c) = Len(p) THEN sentry[l] ELSE p[Len(c) + 1].unit
    BY <1>2, <1>3 DEF CopiedFrom
  <2>2. SUFFICES ASSUME Len(c) # Len(p) PROVE FALSE
    BY <2>1
  <2>3. Len(c) + 1 \in 1 .. Len(p) /\ 1 \in 1 .. Len(p) /\ p[Len(c) + 1].unit = p[1].unit /\ Len(c) + 1 # 1
    BY <1>3, <2>1, <2>2
  <2> QED
    BY <1>3, <2>3
<1>10. DOMAIN c = 1 .. Len(c) /\ \A k \in 1 .. Len(c) : c[k].unit \in Of(m)
  BY <1>3 DEF Reads, Spells
<1>11. \A k \in DOMAIN c :
            /\ c[k].item = p[k].item /\ c[k].unit \in Units \ Contract!Used
            /\ \A j \in DOMAIN c : c[j].unit = c[k].unit => j = k
  <2>1. \A k \in DOMAIN c : c[k].unit \in Units \ Contract!Used
    BY <1>3, <1>10, Unused DEF Of
  <2>2. \A j, k \in 1 .. Len(c) : c[j].unit = c[k].unit => j = k
    BY <1>3 DEF Reads
  <2> QED
    BY <1>9, <1>10, <2>1, <2>2
<1>12. Rings'[m] = c
  BY <1>6 DEF Rings
<1> HIDE DEF c, p
<1>13. Contract!Clone(l, m)
  BY <1>2, <1>7, <1>8, <1>9, <1>11, <1>12
     DEF Contract!Clone, Contract!There, Contract!Answer, Contract!NoUnit, Answer, NoUnit, Rings
<1>14. Contract!ContractNext
  BY <1>13 DEF Contract!ContractNext
<1>15. RefInv'
  BY <1>2 DEF RefInv, Living
<1> QED
  BY <1>14, <1>15 DEF Impl

LEMMA CloneFailsImpl ==
    ASSUME IInv, IInv', RefInv, CloneFails
    PROVE  RefInv' /\ Impl
<1>1. call.op = "clone" /\ Cloning
  BY DEF IInv, CloneFails, Idle, Uninitializes
<1> PICK m \in Lists : m = call.to
  BY <1>1 DEF Cloning, Living
<1>2. /\ sentry' = sentry /\ item' = item /\ answer' = answer
      /\ call'.op = "uninitialize" /\ call'.list = m /\ call'.reason = "throw"
      /\ \A x \in Units : memory'.next[x] = memory.next[x]
  BY <1>1, Reverted DEF CloneFails, Uninitializing
<1>3. Apart(Pool)
  BY <1>2 DEF Apart, Of
<1>4. \A k \in Lists : Listed(k)' <=> Listed(k)
  BY <1>1, <1>2, IntactNow, IntactThen DEF Listed
<1>5. \A k \in Lists : Ring(k)' = Ring(k)
  BY <1>3, <1>4, RingsStay, PoolAssumption
<1>6. RefInv'
  BY <1>2 DEF RefInv, Living
<1> QED
  BY <1>2, <1>5, <1>6, RingsSame, Stutters DEF Impl

LEMMA StepImpl == IInv /\ IInv' /\ RefInv /\ [LinkedNext]_linkedVars => RefInv' /\ Impl
<1> SUFFICES ASSUME IInv, IInv', RefInv, [LinkedNext]_linkedVars PROVE RefInv' /\ Impl
  OBVIOUS
<1>1. CASE UNCHANGED linkedVars
  <2>1. \A k \in Lists : Ring(k)' = Ring(k)
    BY <1>1 DEF linkedVars, Ring, Living, Leaving, From
  <2>2. RefInv'
    BY <1>1 DEF linkedVars, RefInv, Living, CopiedFrom, From
  <2> QED
    BY <1>1, <2>1, <2>2, RingsSame, Stutters DEF Impl, linkedVars
<1>2. ASSUME NEW l \in Lists, Initialize(l) \/ EmplaceFails(l) \/ Uninitialize(l) PROVE RefInv' /\ Impl
  BY <1>2, CreateImpl, FailImpl, DestroyImpl
<1>3. ASSUME NEW l \in Lists, NEW u \in Units, NEW x \in Items, Emplace(l, u, x) \/ EmplaceAfter(l, u, x)
      PROVE  RefInv' /\ Impl
  BY <1>3, InsertImpl
<1>4. ASSUME NEW l \in Lists, NEW u \in Units, EraseNode(l, u) \/ EraseAfter(l, u) PROVE RefInv' /\ Impl
  BY <1>4, EraseImpl
<1>5. ASSUME NEW l \in Lists, NEW m \in Lists, SwapWith(l, m) \/ CloneTo(l, m) PROVE RefInv' /\ Impl
  BY <1>5, SwapImpl, CloneToImpl
<1>6. CASE CloneOne \/ Cloned \/ CloneFails
  BY <1>6, CloneOneImpl, ClonedImpl, CloneFailsImpl
<1>7. CASE UninitializeOne \/ Uninitialized
  BY <1>7, DestroyOneImpl, DestroySentryImpl
<1> QED
  BY <1>1, <1>2, <1>3, <1>4, <1>5, <1>6, <1>7 DEF LinkedNext

LEMMA BeginsImpl == LinkedInit => RefInv /\ Contract!ContractInit
<1> SUFFICES ASSUME LinkedInit PROVE RefInv /\ Contract!ContractInit
  OBVIOUS
<1>1. call.op = "idle" /\ Living = {} /\ item \in [Units -> Items \cup {NoItem}]
  BY DEF LinkedInit, Idle, Living
<1>2. \A l \in Lists : Ring(l) = <<>>
  BY <1>1 DEF Ring
<1> QED
  BY <1>1, <1>2 DEF RefInv, Contract!ContractInit, LinkedInit, Contract!Answer, Contract!NoUnit, Answer, NoUnit

\* The lists are the sequences of LinkedContract, for any number of them, over a pool of any size:
\* each call has done all that it promises when it returns, and nothing when it throws, returns the
\* position it should, and leaves all the other nodes and lists as they are (LinkedChassis).
THEOREM LinkedAsPromised == LinkedSpec => ImplementsLinkedContract
<1>1. LinkedSpec => [](IInv /\ RefInv)
  BY Starts, Steps, BeginsImpl, StepImpl, PTL DEF LinkedSpec
<1>2. IInv /\ IInv' /\ RefInv /\ [LinkedNext]_linkedVars => [Contract!ContractNext]_Contract!contractVars
  BY StepImpl DEF Impl
<1> QED
  BY <1>1, <1>2, Starts, Steps, BeginsImpl, PTL DEF LinkedSpec, ImplementsLinkedContract, Contract!ContractSpec

-----------------------------------------------------------------------------
(***************************************************************************)
(* AsyncMutex: for any number of coroutines, the list of awaiters is a     *)
(* queue, every suspended coroutine is in it or chosen by one unlock, and  *)
(* AsyncMutex implements FifoLock.                                         *)
(***************************************************************************)

\* What Append and Tail do to the queue, element by element.
LEMMA Appended ==
    ASSUME NEW s \in Seq(Coroutines), NEW c \in Coroutines
    PROVE  /\ Append(s, c) \in Seq(Coroutines) /\ Append(s, c) # << >>
           /\ Len(s) \in Nat /\ Len(Append(s, c)) = Len(s) + 1
           /\ Append(s, c)[Len(s) + 1] = c
           /\ \A i \in 1 .. Len(s) : Append(s, c)[i] = s[i] /\ s[i] \in Coroutines
           /\ (s = << >> <=> Len(s) = 0)
  BY AppendProperties, ElementOfSeq, EmptySeq, LenProperties

LEMMA Tailed ==
    ASSUME NEW s \in Seq(Coroutines), s # << >>
    PROVE  /\ Tail(s) \in Seq(Coroutines)
           /\ Len(s) \in Nat \ {0} /\ Len(Tail(s)) = Len(s) - 1
           /\ \A i \in 1 .. Len(s) - 1 : Tail(s)[i] = s[i + 1]
           /\ \A i \in 1 .. Len(s) : s[i] \in Coroutines
           /\ (Tail(s) = << >> <=> Len(s) = 1)
           /\ Head(s) = s[1]
<1>1. Tail(s) \in Seq(Coroutines) /\ Len(Tail(s)) = Len(s) - 1
      /\ \A i \in 1 .. Len(s) - 1 : Tail(s)[i] = s[i + 1]
  BY HeadTailProperties
<1>2. Len(s) \in Nat \ {0} /\ Len(Tail(s)) \in Nat
  BY <1>1, EmptySeq, LenProperties
<1>3. Tail(s) = << >> <=> Len(Tail(s)) = 0
  BY <1>1, EmptySeq
<1>4. \A i \in 1 .. Len(s) : s[i] \in Coroutines
  BY ElementOfSeq
<1> QED
  BY <1>1, <1>2, <1>3, <1>4

LEMMA Begins == Init => AsyncInv
<1> SUFFICES ASSUME Init PROVE AsyncInv
  OBVIOUS
<1>1. queue \in Seq(Coroutines) /\ Len(queue) = 0
  BY EmptySeq DEF Init
<1>2. \A c \in Coroutines : ~Has(c)
  BY DEF Init, Has, Chosen
<1> QED
  BY <1>1, <1>2, AddressAssumption
  DEF Init, AsyncInv, TypeOK, ListInv, SuspendedInv, MutualExclusion, Held, Chosen, Addresses, States
-----------------------------------------------------------------------------
(***************************************************************************)
(* The steps of the mutex keep the invariant.                              *)
(***************************************************************************)
LEMMA LockKeeps ==
    ASSUME AsyncInv, NEW c \in Coroutines, TryLock(c) \/ LockInstead(c)
    PROVE  /\ AsyncInv' /\ UNCHANGED queue
           /\ \A d \in Coroutines : ~Has(d) /\ (Has(d)' <=> d = c)
<1>1. TypeOK' /\ UNCHANGED <<nextInQueue, next, toResume, queue>>
      /\ latestEnqued = Null /\ latestEnqued' = Locked
      /\ pc' = [pc EXCEPT ![c] = "owner"] /\ pc[c] \in {"idle", "trying"}
  BY DEF AsyncInv, TypeOK, TryLock, LockInstead, Addresses, States
<1>2. \A d \in Coroutines : ~Has(d)
  BY <1>1, AddressAssumption DEF AsyncInv, ListInv, Held
<1>3. \A d, e \in Coroutines : Chosen(d, e)' <=> Chosen(d, e)
  BY <1>1 DEF Chosen, AsyncInv, TypeOK
<1>4. \A d \in Coroutines : Has(d)' <=> d = c
  BY <1>1, <1>2, <1>3 DEF Has, AsyncInv, TypeOK
<1>5. ListInv'
  BY <1>1, <1>4, AddressAssumption DEF AsyncInv, ListInv, Held
<1>6. SuspendedInv'
  BY <1>1, <1>3, Z3 DEF AsyncInv, SuspendedInv, TypeOK
<1> QED
  BY <1>1, <1>2, <1>4, <1>5, <1>6 DEF AsyncInv, MutualExclusion

\* Steps after which the same coroutines are suspended, chosen and have the
\* mutex.
LEMMA PassKeeps ==
    ASSUME AsyncInv, NEW c \in Coroutines, NotReady(c) \/ ComeBack(c) \/ GoElsewhere(c)
    PROVE  AsyncInv' /\ UNCHANGED queue /\ \A d \in Coroutines : Has(d)' <=> Has(d)
<1>1. /\ UNCHANGED <<latestEnqued, nextInQueue, next, toResume, queue>>
      /\ pc' \in [Coroutines -> States]
      /\ \A d \in Coroutines : \A x \in {"owner", "queued", "resuming"} :
             pc'[d] = x <=> pc[d] = x
  BY DEF AsyncInv, TypeOK, NotReady, ComeBack, GoElsewhere, Leave, Uncovers, States
<1>2. \A d, e \in Coroutines : Chosen(d, e)' <=> Chosen(d, e)
  BY <1>1 DEF Chosen
<1>3. \A d \in Coroutines : Has(d)' <=> Has(d)
  BY <1>1, <1>2 DEF Has
<1>4. TypeOK' /\ ListInv' /\ MutualExclusion'
  BY <1>1, <1>3 DEF AsyncInv, TypeOK, ListInv, MutualExclusion, Held
<1>5. SuspendedInv'
  BY <1>1, <1>2, Appended DEF AsyncInv, SuspendedInv, TypeOK
<1> QED
  BY <1>1, <1>3, <1>4, <1>5 DEF AsyncInv

LEMMA ResumeKeeps ==
    ASSUME AsyncInv, NEW c \in Coroutines, Resume(c)
    PROVE  AsyncInv' /\ UNCHANGED queue /\ \A d \in Coroutines : Has(d)' <=> Has(d)
<1>0. PICK r \in Coroutines : r = toResume[c]
  BY DEF AsyncInv, TypeOK
<1>1. /\ UNCHANGED <<latestEnqued, nextInQueue, next, toResume, queue>>
      /\ TypeOK' /\ r \in Coroutines /\ Chosen(r, c) /\ r # c
      /\ pc' = [pc EXCEPT ![c] = "below", ![r] = "owner"]
  BY <1>0 DEF AsyncInv, TypeOK, Resume, States, Chosen, SuspendedInv
<1>2. \A d, e \in Coroutines : Chosen(d, e)' <=> Chosen(d, e) /\ e # c
  BY <1>1 DEF Chosen, AsyncInv, TypeOK, SuspendedInv
<1>3. \A d \in Coroutines : Has(d) <=> d = r
  BY <1>1 DEF Has, AsyncInv, MutualExclusion
<1>4. \A d \in Coroutines : Has(d)' <=> d = r
  <2>1. Has(r)'
    BY <1>1 DEF Has, AsyncInv, TypeOK
  <2>2. ASSUME NEW d \in Coroutines, Has(d)' PROVE Has(d) \/ d = r
    BY <1>1, <1>2, <2>2 DEF Has, AsyncInv, TypeOK
  <2> QED
    BY <2>1, <2>2, <1>3
<1>5. ListInv' /\ MutualExclusion'
  BY <1>1, <1>3, <1>4 DEF AsyncInv, ListInv, MutualExclusion, Held
<1>6. SuspendedInv'
  <2>1. \A i \in 1 .. Len(queue) : queue[i] \in Coroutines /\ queue[i] # r /\ queue[i] # c
    BY <1>1, Appended DEF AsyncInv, TypeOK, SuspendedInv, Chosen
  <2>2. \A d \in Coroutines : pc'[d] = "queued" <=> pc[d] = "queued" /\ d # r
    BY <1>1 DEF AsyncInv, TypeOK, Chosen
  <2>3. \A i \in 1 .. Len(queue) : pc'[queue[i]] = "queued"
    BY <2>1, <2>2 DEF AsyncInv, SuspendedInv
  <2>4. ASSUME NEW d \in Coroutines, NEW e \in Coroutines, Chosen(d, e)'
        PROVE  pc'[d] = "queued" /\ \A i \in 1 .. Len(queue) : queue[i] # d
    <3>1. Chosen(d, e) /\ e # c
      BY <1>2, <2>4
    <3>2. d # r
      BY <3>1, <1>1 DEF AsyncInv, SuspendedInv
    <3> QED
      BY <3>1, <3>2, <2>2 DEF AsyncInv, SuspendedInv
  <2>5. ASSUME NEW d \in Coroutines, pc'[d] = "queued"
        PROVE  (\E i \in 1 .. Len(queue) : queue[i] = d) \/ \E e \in Coroutines : Chosen(d, e)'
    <3>1. pc[d] = "queued" /\ d # r
      BY <2>2, <2>5
    <3>2. \A e \in Coroutines : Chosen(d, e) => e # c
      BY <3>1, <1>1 DEF Chosen
    <3> QED
      BY <3>1, <3>2, <1>2 DEF AsyncInv, SuspendedInv
  <2>6. \A d, e, f \in Coroutines : Chosen(d, e)' /\ Chosen(d, f)' => e = f
    BY <1>2 DEF AsyncInv, SuspendedInv
  <2>7. queue' = queue /\ \A i, j \in 1 .. Len(queue) : queue[i] = queue[j] => i = j
    BY <1>1 DEF AsyncInv, SuspendedInv
  <2> QED
    BY <2>3, <2>4, <2>5, <2>6, <2>7 DEF SuspendedInv
<1> QED
  BY <1>1, <1>3, <1>4, <1>5, <1>6 DEF AsyncInv

LEMMA UnlockFreeKeeps ==
    ASSUME AsyncInv, NEW c \in Coroutines, UnlockFree(c)
    PROVE  /\ AsyncInv' /\ Has(c) /\ queue = << >> /\ UNCHANGED queue
           /\ \A d \in Coroutines : ~Has(d)'
<1>1. /\ UNCHANGED <<nextInQueue, next, toResume, queue>> /\ queue = << >>
      /\ TypeOK' /\ latestEnqued' = Null /\ Has(c) /\ pc[c] = "owner"
      /\ pc' = [pc EXCEPT ![c] = "idle"]
  BY DEF AsyncInv, TypeOK, UnlockFree, States, Addresses, Has, ListInv
<1>2. \A d, e \in Coroutines : Chosen(d, e)' <=> Chosen(d, e)
  BY <1>1 DEF Chosen, AsyncInv, TypeOK
<1>3. \A d \in Coroutines : ~Has(d)'
  <2> SUFFICES ASSUME NEW d \in Coroutines, Has(d)' PROVE FALSE
    OBVIOUS
  <2>1. Has(d)
    BY <1>1, <1>2 DEF Has, AsyncInv, TypeOK
  <2>2. d = c
    BY <2>1, <1>1 DEF AsyncInv, MutualExclusion
  <2>3. PICK e \in Coroutines : Chosen(c, e)
    BY <1>1, <1>2, <2>2 DEF Has, AsyncInv, TypeOK
  <2> QED
    BY <2>3, <1>1 DEF AsyncInv, SuspendedInv
<1>4. ListInv' /\ MutualExclusion'
  BY <1>1, <1>3, AddressAssumption DEF AsyncInv, ListInv, MutualExclusion, Held
<1>5. SuspendedInv'
  BY <1>1, <1>2, EmptySeq DEF AsyncInv, SuspendedInv, TypeOK
<1> QED
  BY <1>1, <1>3, <1>4, <1>5 DEF AsyncInv
LEMMA EnqueueKeeps ==
    ASSUME AsyncInv, NEW c \in Coroutines, Enqueue(c)
    PROVE  /\ AsyncInv' /\ Held /\ queue' = Append(queue, c)
           /\ \A d \in Coroutines : Has(d)' <=> Has(d)
<1> DEFINE n == Len(queue)
<1>1. /\ UNCHANGED toResume /\ queue' = Append(queue, c) /\ latestEnqued' = c
      /\ pc[c] = "trying" /\ pc'[c] = "queued" /\ pc' \in [Coroutines -> States]
      /\ \A d \in Coroutines \ {c} : \A x \in {"owner", "queued", "resuming"} :
             pc'[d] = x <=> pc[d] = x
  BY DEF AsyncInv, TypeOK, Enqueue, Leave, Uncovers, States
<1>2. \A d, e \in Coroutines : Chosen(d, e)' <=> Chosen(d, e)
  BY <1>1 DEF Chosen
<1>3. \A d \in Coroutines : Has(d)' <=> Has(d)
  BY <1>1, <1>2 DEF Has
<1>4. Held /\ Held' /\ ~Has(c)
  <2>1. latestEnqued = Locked \/ latestEnqued \in Coroutines
    BY DEF AsyncInv, TypeOK, Addresses, Enqueue
  <2>2. Held
    BY <2>1 DEF AsyncInv, ListInv
  <2> QED
    BY <2>2, <1>1, <1>3 DEF Held, AsyncInv, SuspendedInv, Has, Chosen
<1>5. /\ queue' \in Seq(Coroutines) /\ queue' # << >> /\ n \in Nat /\ Len(queue') = n + 1
      /\ queue'[n + 1] = c /\ (queue = << >> <=> n = 0)
      /\ \A i \in 1 .. n : queue'[i] = queue[i] /\ queue[i] \in Coroutines /\ queue[i] # c
  BY <1>1, Appended DEF AsyncInv, TypeOK, SuspendedInv
<1>6. TypeOK'
  BY <1>1, <1>5 DEF AsyncInv, TypeOK, Enqueue, Addresses
<1>7. ListInv'
  <2>1. /\ latestEnqued' = c /\ c \in Coroutines /\ c # Null /\ c # Locked
        /\ queue' # << >> /\ Held' /\ queue'[Len(queue')] = c
    BY <1>1, <1>4, <1>5, AddressAssumption
  <2>2. CASE latestEnqued = Locked
    <3>1. n = 0 /\ nextInQueue' = c
      BY <2>2, <1>5 DEF AsyncInv, ListInv, Enqueue
    <3> QED
      BY <2>1, <3>1, <1>5 DEF ListInv
  <2>3. CASE latestEnqued \in Coroutines
    <3>1. /\ n > 0 /\ latestEnqued = queue[n] /\ nextInQueue = queue[1]
          /\ nextInQueue' = nextInQueue
          /\ next' = [next EXCEPT ![c] = Locked, ![queue[n]] = c]
      BY <2>3, <1>5, AddressAssumption DEF AsyncInv, ListInv, Enqueue
    <3>2. ASSUME NEW i \in 1 .. n PROVE next'[queue'[i]] = queue'[i + 1]
      <4>1. CASE i = n
        BY <4>1, <3>1, <1>5 DEF AsyncInv, TypeOK
      <4>2. CASE i # n
        <5>1. i \in 1 .. n - 1 /\ i + 1 \in 1 .. n /\ n \in 1 .. n
          BY <4>2, <1>5
        <5>2. queue[i] # queue[n] /\ next[queue[i]] = queue[i + 1]
          BY <5>1, <4>2 DEF AsyncInv, SuspendedInv, ListInv
        <5> QED
          BY <5>1, <5>2, <3>1, <1>5 DEF AsyncInv, TypeOK
      <4> QED
        BY <4>1, <4>2
    <3>3. nextInQueue' = queue'[1] /\ Len(queue') - 1 = n
      BY <3>1, <1>5
    <3> QED
      BY <2>1, <3>2, <3>3 DEF ListInv
  <2> QED
    BY <2>2, <2>3 DEF AsyncInv, TypeOK, Addresses, Enqueue
<1>8. SuspendedInv'
  <2>1. \A i, j \in 1 .. n + 1 : queue'[i] = queue'[j] => i = j
    BY <1>5 DEF AsyncInv, SuspendedInv
  <2>2. \A i \in 1 .. n + 1 : pc'[queue'[i]] = "queued"
    BY <1>1, <1>5 DEF AsyncInv, SuspendedInv
  <2>3. ASSUME NEW d \in Coroutines, NEW e \in Coroutines, Chosen(d, e)'
        PROVE  pc'[d] = "queued" /\ \A i \in 1 .. n + 1 : queue'[i] # d
    <3>1. Chosen(d, e) /\ d # c
      BY <1>2, <2>3, <1>4 DEF Has
    <3> QED
      BY <3>1, <1>1, <1>5 DEF AsyncInv, SuspendedInv
  <2>4. ASSUME NEW d \in Coroutines, pc'[d] = "queued"
        PROVE  (\E i \in 1 .. n + 1 : queue'[i] = d) \/ \E e \in Coroutines : Chosen(d, e)'
    <3>1. CASE d = c
      BY <3>1, <1>5
    <3>2. CASE d # c
      <4>1. (\E i \in 1 .. n : queue[i] = d) \/ \E e \in Coroutines : Chosen(d, e)
        BY <3>2, <1>1, <2>4 DEF AsyncInv, SuspendedInv
      <4> QED
        BY <4>1, <1>2, <1>5
    <3> QED
      BY <3>1, <3>2
  <2>5. \A d, e, f \in Coroutines : Chosen(d, e)' /\ Chosen(d, f)' => e = f
    BY <1>2 DEF AsyncInv, SuspendedInv
  <2> QED
    BY <1>5, <2>1, <2>2, <2>3, <2>4, <2>5 DEF SuspendedInv
<1> QED
  BY <1>1, <1>3, <1>4, <1>6, <1>7, <1>8 DEF AsyncInv, MutualExclusion

LEMMA UnlockTakeKeeps ==
    ASSUME AsyncInv, NEW c \in Coroutines, UnlockTake(c)
    PROVE  /\ AsyncInv' /\ Has(c) /\ queue # << >> /\ queue' = Tail(queue)
           /\ \A d \in Coroutines : Has(d)' <=> d = Head(queue)
<1> DEFINE n == Len(queue)
<1>1. /\ queue \in Seq(Coroutines) /\ queue # << >> /\ latestEnqued = queue[n]
      /\ nextInQueue = queue[1] /\ queue' = Tail(queue) /\ next' = next
      /\ pc[c] = "owner" /\ Has(c) /\ pc' = [pc EXCEPT ![c] = "resuming"]
      /\ pc' \in [Coroutines -> States]
  BY DEF AsyncInv, TypeOK, ListInv, UnlockTake, States, Has
<1>2. /\ queue' \in Seq(Coroutines) /\ n \in Nat \ {0} /\ Len(queue') = n - 1
      /\ \A i \in 1 .. n - 1 : queue'[i] = queue[i + 1]
      /\ \A i \in 1 .. n : queue[i] \in Coroutines /\ queue[i] # c /\ pc[queue[i]] = "queued"
      /\ (queue' = << >> <=> n = 1) /\ Head(queue) = queue[1]
  BY <1>1, Tailed DEF AsyncInv, SuspendedInv
<1>3. PICK r \in Coroutines : r = queue[1]
  BY <1>2
<1>4. toResume' = [toResume EXCEPT ![c] = r] /\ toResume' \in [Coroutines -> Coroutines]
  BY <1>1, <1>3 DEF UnlockTake, AsyncInv, TypeOK
<1>5. \A d, e \in Coroutines : ~Chosen(d, e)
  <2> SUFFICES ASSUME NEW d \in Coroutines, NEW e \in Coroutines, Chosen(d, e) PROVE FALSE
    OBVIOUS
  <2>1. d = c
    BY <1>1 DEF Has, AsyncInv, MutualExclusion
  <2> QED
    BY <2>1, <1>1 DEF AsyncInv, SuspendedInv
<1>6. \A d, e \in Coroutines : Chosen(d, e)' <=> d = r /\ e = c
  BY <1>1, <1>4, <1>5 DEF Chosen, AsyncInv, TypeOK
<1>7. \A d \in Coroutines : Has(d)' <=> d = r
  <2>1. \A d \in Coroutines : pc'[d] # "owner"
    BY <1>1 DEF AsyncInv, MutualExclusion, Has, TypeOK
  <2> QED
    BY <1>6, <2>1 DEF Has
<1>8. Held'
  BY <1>7 DEF Held
<1>9. TypeOK' /\ ListInv'
  <2>1. \A i \in 1 .. n - 2 : next'[queue'[i]] = queue'[i + 1]
    BY <1>1, <1>2 DEF AsyncInv, ListInv
  <2>2. CASE n = 1
    <3>1. latestEnqued' = Locked /\ nextInQueue' = nextInQueue /\ queue' = << >>
      BY <2>2, <1>1, <1>2 DEF UnlockTake
    <3> QED
      BY <2>1, <3>1, <1>1, <1>2, <1>4, <1>8, AddressAssumption, <2>2
      DEF AsyncInv, TypeOK, ListInv, Addresses
  <2>3. CASE n > 1
    <3>1. 1 \in 1 .. n /\ n \in 1 .. n /\ 1 \in 1 .. n - 1 /\ n - 1 \in 1 .. n - 1 /\ 1 # n
      BY <2>3, <1>2
    <3>2. queue[1] # queue[n] /\ next[queue[1]] = queue[2] /\ queue[2] \in Coroutines
      BY <3>1, <1>2, <2>3 DEF AsyncInv, SuspendedInv, ListInv
    <3>3. latestEnqued' = latestEnqued /\ nextInQueue' = queue[2] /\ latestEnqued' \in Coroutines
      BY <3>1, <3>2, <1>1 DEF UnlockTake
    <3>4. queue' # << >> /\ queue'[1] = queue[2] /\ queue'[n - 1] = queue[n]
      BY <3>1, <1>2
    <3> QED
      BY <2>1, <3>2, <3>3, <3>4, <1>1, <1>2, <1>4, <1>8, AddressAssumption
      DEF AsyncInv, TypeOK, ListInv, Addresses
  <2> QED
    BY <2>2, <2>3, <1>2
<1>10. SuspendedInv'
  <2>1. ASSUME NEW i \in 1 .. n - 1, NEW j \in 1 .. n - 1, queue'[i] = queue'[j]
        PROVE  i = j
    <3>1. i + 1 \in 1 .. n /\ j + 1 \in 1 .. n /\ queue[i + 1] = queue[j + 1]
      BY <2>1, <1>2
    <3>2. i + 1 = j + 1
      BY <3>1 DEF AsyncInv, SuspendedInv
    <3> QED
      BY <3>2, <1>2
  <2>2. \A i \in 1 .. n - 1 : queue'[i] \in Coroutines /\ pc'[queue'[i]] = "queued" /\ queue'[i] # r
    BY <1>1, <1>2, <1>3 DEF AsyncInv, SuspendedInv, TypeOK
  <2>3. pc'[r] = "queued"
    BY <1>1, <1>2, <1>3 DEF AsyncInv, TypeOK
  <2>4. ASSUME NEW d \in Coroutines, pc'[d] = "queued"
        PROVE  (\E i \in 1 .. n - 1 : queue'[i] = d) \/ \E e \in Coroutines : Chosen(d, e)'
    <3>1. PICK i \in 1 .. n : queue[i] = d
      BY <2>4, <1>1, <1>5 DEF AsyncInv, SuspendedInv, TypeOK
    <3>2. CASE i = 1
      BY <3>1, <3>2, <1>3, <1>6
    <3>3. CASE i # 1
      <4>1. i - 1 \in 1 .. n - 1 /\ queue'[i - 1] = d
        BY <3>1, <3>3, <1>2
      <4> QED
        BY <4>1
    <3> QED
      BY <3>2, <3>3
  <2> QED
    BY <1>2, <1>6, <2>1, <2>2, <2>3, <2>4 DEF SuspendedInv
<1> QED
  BY <1>1, <1>2, <1>3, <1>7, <1>9, <1>10 DEF AsyncInv, MutualExclusion
-----------------------------------------------------------------------------
\* Every step keeps the invariant.
LEMMA StepKeeps == AsyncInv /\ [Next]_vars => AsyncInv'
<1> SUFFICES ASSUME AsyncInv, [Next]_vars PROVE AsyncInv'
  OBVIOUS
<1>1. CASE UNCHANGED vars
  <2>1. \A d, e \in Coroutines : Chosen(d, e)' <=> Chosen(d, e)
    BY <1>1 DEF vars, Chosen
  <2>2. \A d \in Coroutines : Has(d)' <=> Has(d)
    BY <1>1, <2>1 DEF vars, Has
  <2>3. TypeOK' /\ ListInv' /\ MutualExclusion'
    BY <1>1, <2>2 DEF vars, AsyncInv, TypeOK, ListInv, MutualExclusion, Held
  <2>4. SuspendedInv'
    BY <1>1, <2>1 DEF vars, AsyncInv, SuspendedInv
  <2> QED
    BY <2>3, <2>4 DEF AsyncInv
<1>2. CASE Next
  BY <1>2, LockKeeps, PassKeeps, ResumeKeeps, EnqueueKeeps, UnlockFreeKeeps, UnlockTakeKeeps
  DEF Next, Unlock
<1> QED
  BY <1>1, <1>2

(***************************************************************************)
(* The list of awaiters is a queue: m_latestEnqued_, m_nextInQueue_ and    *)
(* the next_ pointers always say who waits, in which order, and whether    *)
(* the mutex is held; no pointer is read before it was written.            *)
(***************************************************************************)
THEOREM AsyncInvariance == Spec => []AsyncInv
  BY Begins, StepKeeps, PTL DEF Spec

\* One coroutine at most runs with the mutex or is about to be resumed with it.
THEOREM MutualExclusionHolds == Spec => []MutualExclusion
<1>1. AsyncInv => MutualExclusion
  BY DEF AsyncInv
<1> QED
  BY <1>1, AsyncInvariance, PTL

\* Every coroutine that gets the mutex gets it in the order in which those who
\* had to wait came: AsyncMutex implements FifoLock.
LEMMA FifoBegins == Init => Fifo!Init
  BY DEF Init, Fifo!Init, Holder, Held, Has, Chosen

LEMMA FifoStep ==
    ASSUME AsyncInv, Next
    PROVE  Fifo!Next \/ UNCHANGED <<Holder, queue>>
<1>1. PICK c \in Coroutines :
          \/ TryLock(c) \/ NotReady(c) \/ LockInstead(c) \/ Enqueue(c)
          \/ Unlock(c) \/ Resume(c) \/ ComeBack(c) \/ GoElsewhere(c)
  BY DEF Next
<1>2. Held => Holder \in Coroutines /\ Has(Holder) /\ Holder # Null
  BY AddressAssumption DEF Held, Holder
<1>3. ASSUME NEW d \in Coroutines, Has(d) PROVE Holder = d
  BY <1>2, <1>3 DEF Held, AsyncInv, MutualExclusion
<1>4. ASSUME NEW d \in Coroutines, \A e \in Coroutines : Has(e)' <=> e = d
      PROVE  Holder' = d
  BY <1>4 DEF Held, Holder
<1>5. ASSUME \A e \in Coroutines : Has(e)' <=> Has(e) PROVE Holder' = Holder
  <2>1. CASE Held
    BY <2>1, <1>2, <1>3, <1>4, <1>5
  <2>2. CASE ~Held
    BY <2>2, <1>5 DEF Held, Holder
  <2> QED
    BY <2>1, <2>2
<1>6. CASE TryLock(c) \/ LockInstead(c)
  <2>1. Holder = Null
    BY <1>6, LockKeeps DEF Holder, Held
  <2> QED
    BY <1>6, <2>1, <1>4, LockKeeps DEF Fifo!Next, Fifo!Acquire
<1>7. CASE NotReady(c) \/ ComeBack(c) \/ GoElsewhere(c)
  BY <1>7, <1>5, PassKeeps
<1>8. CASE Resume(c)
  BY <1>8, <1>5, ResumeKeeps
<1>9. CASE Enqueue(c)
  BY <1>9, <1>2, <1>5, EnqueueKeeps DEF Fifo!Next, Fifo!Wait
<1>10. CASE UnlockFree(c)
  <2>1. Holder = c /\ Holder # Null /\ Holder' = Null
    BY <1>10, <1>3, UnlockFreeKeeps, AddressAssumption DEF Holder, Held
  <2> QED
    BY <1>10, <2>1, UnlockFreeKeeps DEF Fifo!Next, Fifo!Release
<1>11. CASE UnlockTake(c)
  <2>1. Head(queue) \in Coroutines
    BY <1>11, UnlockTakeKeeps, HeadTailProperties DEF AsyncInv, TypeOK
  <2>2. Holder # Null /\ Holder' = Head(queue)
    BY <1>11, <2>1, <1>3, <1>4, UnlockTakeKeeps, AddressAssumption
  <2> QED
    BY <1>11, <2>2, UnlockTakeKeeps DEF Fifo!Next, Fifo!Release
<1> QED
  BY <1>1, <1>6, <1>7, <1>8, <1>9, <1>10, <1>11 DEF Unlock

THEOREM ImplementsFifo == Spec => FifoSpec
<1>1. AsyncInv /\ [Next]_vars => [Fifo!Next]_<<Holder, queue>>
  <2>1. AsyncInv /\ UNCHANGED vars => UNCHANGED <<Holder, queue>>
    BY DEF vars, Holder, Held, Has, Chosen
  <2> QED
    BY <2>1, FifoStep
<1> QED
  BY <1>1, FifoBegins, AsyncInvariance, PTL DEF Spec, FifoSpec, Fifo!Spec

-----------------------------------------------------------------------------
(***************************************************************************)
(* List: for arrays of any size and any configuration, what a list holds   *)
(* is a sequence, and each call makes of it the one that is asked for.     *)
(*                                                                         *)
(* The code moves items slot by slot.  That they arrive as they were is    *)
(* shown once, for items that are carried in an order in which no slot is  *)
(* written before it was read (CarriedAll), and then for a stretch of a    *)
(* ring that is shifted either way (Shifts).  Holds says where the items   *)
(* of a sequence lie, and for each operation there is a lemma of what is   *)
(* held after it; the invariant, ListsInv, counts as well.                 *)
(***************************************************************************)

-----------------------------------------------------------------------------
(***************************************************************************)
(* Relocating: item by item, in an order in which nothing is read after    *)
(* something else has been put there.                                      *)
(***************************************************************************)

\* One more item is carried.
Carry(before, move, left) == [before EXCEPT ![move.to] = before[move.from], ![move.from] = left]
Stage(slots, moves, left, n, after) == IF n = 0 THEN slots ELSE Carry(after[n - 1], moves[n], left)

\* There is the function by which Carried is defined.
LEMMA CarriedStages ==
    ASSUME NEW slots, NEW moves, NEW left, Len(moves) \in Nat
    PROVE  \E after :
            /\ \A n \in 0 .. Len(moves) : after[n] = Stage(slots, moves, left, n, after)
            /\ Carried(slots, moves, left) = after[Len(moves)]
<1> DEFINE Solves(g, k) == g = [n \in 0 .. k |-> Stage(slots, moves, left, n, g)]
           S == {k \in Nat : \E g : Solves(g, k)}
<1>1. 0 \in S
  <2> DEFINE g == [n \in 0 .. 0 |-> slots]
  <2>1. \A n \in 0 .. 0 : Stage(slots, moves, left, n, g) = slots
    BY DEF Stage
  <2>2. Solves(g, 0)
    BY <2>1
  <2> QED
    BY <2>2
<1>2. ASSUME NEW k \in Nat, k \in S PROVE k + 1 \in S
  <2>1. PICK g : Solves(g, k)
    BY <1>2
  <2> DEFINE f == [n \in 0 .. k + 1 |-> IF n <= k THEN g[n] ELSE Stage(slots, moves, left, n, g)]
  <2>2. ASSUME NEW n \in 0 .. k + 1 PROVE f[n] = Stage(slots, moves, left, n, f)
    <3>1. n # 0 => f[n - 1] = g[n - 1]
      OBVIOUS
    <3>2. n <= k => n \in 0 .. k /\ g[n] = Stage(slots, moves, left, n, g)
      BY <2>1
    <3>3. f[n] = Stage(slots, moves, left, n, g)
      BY <3>2
    <3>4. Stage(slots, moves, left, n, g) = Stage(slots, moves, left, n, f)
      BY <3>1 DEF Stage
    <3> QED
      BY <3>3, <3>4
  <2>3. Solves(f, k + 1)
    BY <2>2
  <2> HIDE DEF f
  <2> QED
    BY <2>3
<1>3. Len(moves) \in S
  <2> HIDE DEF S
  <2> QED
    BY <1>1, <1>2, Induction
<1>4. \E g : Solves(g, Len(moves))
  BY <1>3
<1> DEFINE a == CHOOSE g : Solves(g, Len(moves))
<1>5. Carried(slots, moves, left) = a[Len(moves)]
  BY DEF Carried, Stage, Carry
<1> HIDE DEF Solves
<1>6. Solves(a, Len(moves))
  BY <1>4
<1> HIDE DEF a
<1>7. \A n \in 0 .. Len(moves) : a[n] = Stage(slots, moves, left, n, a)
  BY <1>6 DEF Solves
<1> QED
  BY <1>5, <1>7

\* No two moves read or write the same slot, and none reads what one before it has written.
InOrder(moves, D) ==
    /\ Len(moves) \in Nat
    /\ \A i \in 1 .. Len(moves) : moves[i].from \in D /\ moves[i].to \in D
    /\ \A i, j \in 1 .. Len(moves) :
        /\ moves[i].from = moves[j].from => i = j
        /\ moves[i].to = moves[j].to => i = j
        /\ moves[i].to = moves[j].from => i > j

\* What there is after the first n moves.
AfterMoves(f, slots, moves, left, n, D) ==
    /\ DOMAIN f = D
    /\ f = [k \in D |-> f[k]]
    /\ \A i \in 1 .. n : f[moves[i].to] = slots[moves[i].from]
    /\ \A k \in D : (\A i \in 1 .. n : moves[i].to # k) =>
            f[k] = IF \E i \in 1 .. n : moves[i].from = k THEN left ELSE slots[k]

LEMMA CarryOne ==
    ASSUME NEW D, NEW slots, NEW moves, NEW left, InOrder(moves, D),
           NEW n \in Nat, n < Len(moves), NEW f, AfterMoves(f, slots, moves, left, n, D)
    PROVE  AfterMoves(Carry(f, moves[n + 1], left), slots, moves, left, n + 1, D)
<1> DEFINE s == moves[n + 1].from
           t == moves[n + 1].to
           g == Carry(f, moves[n + 1], left)
<1>0. n + 1 \in 1 .. Len(moves) /\ \A i \in 1 .. n : i \in 1 .. Len(moves) /\ i \in 1 .. n + 1
  BY DEF InOrder
<1>1. s \in D /\ t \in D /\ s # t
  BY <1>0 DEF InOrder
<1>2. /\ DOMAIN g = D /\ g = [k \in D |-> g[k]]
      /\ g[s] = left /\ g[t] = f[s] /\ \A k \in D \ {s, t} : g[k] = f[k]
  BY <1>1 DEF Carry, AfterMoves
<1>3. \A i \in 1 .. n : moves[i].to # s /\ moves[i].from # s /\ moves[i].to # t
  <2>1. \A i \in 1 .. n : ~(i > n + 1) /\ i # n + 1
    OBVIOUS
  <2> QED
    BY <1>0, <2>1 DEF InOrder
<1>4. f[s] = slots[s]
  BY <1>1, <1>3 DEF AfterMoves
<1>5. ASSUME NEW i \in 1 .. n + 1 PROVE g[moves[i].to] = slots[moves[i].from]
  <2>1. CASE i = n + 1
    BY <1>2, <1>4, <2>1
  <2>2. CASE i # n + 1
    <3>1. i \in 1 .. n
      BY <2>2
    <3>2. moves[i].to \in D \ {s, t}
      BY <1>0, <1>3, <3>1 DEF InOrder
    <3> QED
      BY <1>2, <3>1, <3>2 DEF AfterMoves
  <2> QED
    BY <2>1, <2>2
<1>6. ASSUME NEW k \in D, \A i \in 1 .. n + 1 : moves[i].to # k
      PROVE  g[k] = IF \E i \in 1 .. n + 1 : moves[i].from = k THEN left ELSE slots[k]
  <2>1. k # t /\ \A i \in 1 .. n : moves[i].to # k
    BY <1>0, <1>6
  <2>2. (\E i \in 1 .. n + 1 : moves[i].from = k) <=> k = s \/ \E i \in 1 .. n : moves[i].from = k
    <3>1. \A i \in 1 .. n + 1 : i = n + 1 \/ i \in 1 .. n
      OBVIOUS
    <3> QED
      BY <1>0, <3>1
  <2> QED
    BY <1>2, <2>1, <2>2 DEF AfterMoves
<1> HIDE DEF g, s, t
<1> QED
  BY <1>2, <1>5, <1>6 DEF AfterMoves, g

LEMMA CarriedAll ==
    ASSUME NEW D, NEW slots, NEW moves, NEW left, InOrder(moves, D), slots = [k \in D |-> slots[k]]
    PROVE  AfterMoves(Carried(slots, moves, left), slots, moves, left, Len(moves), D)
<1>0. Len(moves) \in Nat
  BY DEF InOrder
<1>1. PICK a :
        /\ \A n \in 0 .. Len(moves) : a[n] = Stage(slots, moves, left, n, a)
        /\ Carried(slots, moves, left) = a[Len(moves)]
  BY <1>0, CarriedStages
<1> DEFINE S == {n \in Nat : n <= Len(moves) => AfterMoves(a[n], slots, moves, left, n, D)}
<1>2. 0 \in S
  <2>1. a[0] = Stage(slots, moves, left, 0, a)
    BY <1>0, <1>1
  <2>2. a[0] = slots
    BY <2>1 DEF Stage
  <2> QED
    BY <2>2 DEF AfterMoves
<1>3. ASSUME NEW n \in Nat, n \in S PROVE n + 1 \in S
  <2> SUFFICES ASSUME n + 1 <= Len(moves) PROVE AfterMoves(a[n + 1], slots, moves, left, n + 1, D)
    OBVIOUS
  <2>1. n < Len(moves) /\ AfterMoves(a[n], slots, moves, left, n, D)
    BY <1>0, <1>3
  <2>2. n + 1 \in 0 .. Len(moves) /\ n + 1 # 0 /\ (n + 1) - 1 = n
    BY <1>0, <2>1
  <2>3. a[n + 1] = Carry(a[n], moves[n + 1], left)
    BY <1>1, <2>2 DEF Stage
  <2> QED
    BY <2>1, <2>3, CarryOne
<1>4. Len(moves) \in S
  <2> HIDE DEF S
  <2> QED
    BY <1>0, <1>2, <1>3, Induction
<1> QED
  BY <1>0, <1>1, <1>4

-----------------------------------------------------------------------------
(***************************************************************************)
(* The storage of a list, and the sequence it holds.                       *)
(***************************************************************************)
Slot == Items \cup {Empty, Moved}
Arrays == UNION {[0 .. n - 1 -> Slot] : n \in Nat}
Storages == [capacity : Nat, length : Nat, begin : Nat, slots : Arrays]
Configurations == [only : BOOLEAN, stuffed : BOOLEAN, circular : BOOLEAN, squeezed : Nat]

\* The configurations whose lists are sound.
SoundKind(k) == k \in Configurations /\ ~(k.stuffed /\ k.circular)

\* What capacity, offset and array have to do with each other.
Shaped(k, c) ==
    /\ c \in Storages
    /\ DOMAIN c.slots = 0 .. Larger(c.capacity, k.squeezed) - 1
    /\ c.length <= c.capacity
    /\ c.begin = 0 \/ c.begin < c.capacity
    /\ ~k.circular => c.begin = 0
    /\ k.stuffed => c.capacity = c.length
    /\ ~k.stuffed => c.capacity >= k.squeezed
    /\ k.only => c.capacity <= k.squeezed

\* The items of q are where c expects its items, and there is nothing else.
Outside(c, x) == \A i \in 0 .. c.capacity - 1 : Offset(c, i) # x
FilledWith(c, q) ==
    /\ q \in Seq(Items) /\ Len(q) = c.length
    /\ \A i \in 0 .. c.capacity - 1 :
            c.slots[Offset(c, i)] = IF i < c.length THEN q[i + 1] ELSE Empty
    /\ \A x \in DOMAIN c.slots : Outside(c, x) => c.slots[x] = Empty

Holds(k, c, q) == Shaped(k, c) /\ FilledWith(c, q)

LEMMA ShapeTypes ==
    ASSUME NEW k, SoundKind(k), NEW c, Shaped(k, c)
    PROVE  /\ c.capacity \in Nat /\ c.length \in Nat /\ c.begin \in Nat
           /\ \A x \in DOMAIN c.slots : c.slots[x] \in Slot
           /\ c.slots = [x \in DOMAIN c.slots |-> c.slots[x]]
           /\ k.squeezed \in Nat /\ {k.only, k.stuffed, k.circular} \subseteq BOOLEAN
           /\ 0 .. c.capacity - 1 \subseteq DOMAIN c.slots
<1>1. /\ c.capacity \in Nat /\ c.length \in Nat /\ c.begin \in Nat /\ c.slots \in Arrays
      /\ k.squeezed \in Nat
  BY DEF Shaped, Storages, SoundKind, Configurations
<1>2. {k.only, k.stuffed, k.circular} \subseteq BOOLEAN
  BY DEF SoundKind, Configurations
<1>3. PICK n \in Nat : c.slots \in [0 .. n - 1 -> Slot]
  BY <1>1 DEF Arrays
<1>4. 0 .. c.capacity - 1 \subseteq DOMAIN c.slots
  BY <1>1 DEF Shaped, Larger
<1> QED
  BY <1>1, <1>2, <1>3, <1>4

\* Different positions are different slots of the array.
LEMMA Offsets ==
    ASSUME NEW c, c.capacity \in Nat, c.begin \in Nat, c.begin = 0 \/ c.begin < c.capacity
    PROVE  /\ \A i \in 0 .. c.capacity - 1 : Offset(c, i) \in 0 .. c.capacity - 1
           /\ \A i, j \in 0 .. c.capacity - 1 : Offset(c, i) = Offset(c, j) => i = j
           /\ c.begin = 0 => \A i \in 0 .. c.capacity - 1 : Offset(c, i) = i
BY DEF Offset

\* What is held is the content.
LEMMA ContentHeld ==
    ASSUME NEW k, SoundKind(k), NEW c, NEW q, Holds(k, c, q)
    PROVE  Content(c) = q
<1>1. /\ c.length \in Nat /\ Len(q) = c.length /\ q \in Seq(Items)
      /\ c.capacity \in Nat /\ c.length <= c.capacity
  <2>1. Shaped(k, c)
    BY DEF Holds
  <2> QED
    BY <2>1, ShapeTypes DEF Holds, FilledWith, Shaped
<1>2. Content(c) = [i \in 1 .. c.length |-> c.slots[Offset(c, i - 1)]]
  BY DEF Content
<1>3. \A i \in 1 .. c.length : c.slots[Offset(c, i - 1)] = q[i]
  <2> TAKE i \in 1 .. c.length
  <2>1. i - 1 \in 0 .. c.length - 1 /\ (i - 1) + 1 = i
    BY <1>1
  <2>2. i - 1 \in 0 .. c.capacity - 1 /\ i - 1 < c.length
    BY <1>1, <2>1
  <2>3. c.slots[Offset(c, i - 1)] = q[(i - 1) + 1]
    BY <2>2 DEF Holds, FilledWith
  <2> QED
    BY <2>1, <2>3
<1>4. q = [i \in 1 .. c.length |-> q[i]]
  BY <1>1
<1> QED
  BY <1>2, <1>3, <1>4

-----------------------------------------------------------------------------
(***************************************************************************)
(* What is done to the slots, by positions.                                *)
(***************************************************************************)

\* A storage whose positions are slots of its array.
Sound(c) ==
    /\ c \in Storages
    /\ c.begin = 0 \/ c.begin < c.capacity
    /\ 0 .. c.capacity - 1 \subseteq DOMAIN c.slots

\* d is c, but for what is at the positions: that is f.
Rearranged(c, d, f) ==
    /\ d \in Storages /\ DOMAIN d.slots = DOMAIN c.slots
    /\ d.capacity = c.capacity /\ d.length = c.length /\ d.begin = c.begin
    /\ \A i \in 0 .. c.capacity - 1 : d.slots[Offset(c, i)] = f[i]
    /\ \A x \in DOMAIN c.slots : Outside(c, x) => d.slots[x] = c.slots[x]

LEMMA SoundTypes ==
    ASSUME NEW c, Sound(c)
    PROVE  /\ c.capacity \in Nat /\ c.length \in Nat /\ c.begin \in Nat
           /\ \A i \in 0 .. c.capacity - 1 : Offset(c, i) \in 0 .. c.capacity - 1
           /\ \A i \in 0 .. c.capacity - 1 : Offset(c, i) \in DOMAIN c.slots
           /\ \A i, j \in 0 .. c.capacity - 1 : Offset(c, i) = Offset(c, j) => i = j
<1>1. c.capacity \in Nat /\ c.length \in Nat /\ c.begin \in Nat /\ (c.begin = 0 \/ c.begin < c.capacity)
  BY DEF Sound, Storages
<1>2. /\ \A i \in 0 .. c.capacity - 1 : Offset(c, i) \in 0 .. c.capacity - 1
      /\ \A i, j \in 0 .. c.capacity - 1 : Offset(c, i) = Offset(c, j) => i = j
  BY <1>1, Offsets
<1> QED
  BY <1>1, <1>2 DEF Sound

\* Replacing the slots.
LEMMA Replaces ==
    ASSUME NEW c, Sound(c), NEW slots,
           DOMAIN slots = DOMAIN c.slots, slots = [x \in DOMAIN slots |-> slots[x]],
           \A x \in DOMAIN slots : slots[x] \in Slot,
           NEW f, \A i \in 0 .. c.capacity - 1 : slots[Offset(c, i)] = f[i],
           \A x \in DOMAIN c.slots : Outside(c, x) => slots[x] = c.slots[x]
    PROVE  Rearranged(c, [c EXCEPT !.slots = slots], f)
<1>1. PICK m \in Nat : c.slots \in [0 .. m - 1 -> Slot]
  BY DEF Sound, Storages, Arrays
<1>2. slots \in [0 .. m - 1 -> Slot]
  BY <1>1
<1>3. slots \in Arrays
  BY <1>2 DEF Arrays
<1>4. c \in Storages
  BY DEF Sound
<1> QED
  BY <1>3, <1>4 DEF Storages, Rearranged

\* Construct, from a position on.
LEMMA Constructs ==
    ASSUME NEW c, Sound(c), NEW at \in Nat, NEW items \in Seq(Items), at + Len(items) <= c.capacity
    PROVE  Rearranged(c, Construct(c, at, items),
                [i \in 0 .. c.capacity - 1 |->
                    IF i \in at .. at + Len(items) - 1 THEN items[i - at + 1] ELSE c.slots[Offset(c, i)]])
<1> DEFINE n == Len(items)
           P == 0 .. c.capacity - 1
           Put(x) == \E j \in DOMAIN items : x = Offset(c, at + j - 1)
           The(x) == CHOOSE j \in DOMAIN items : x = Offset(c, at + j - 1)
           slots == [x \in DOMAIN c.slots |-> IF Put(x) THEN items[The(x)] ELSE c.slots[x]]
           f == [i \in P |-> IF i \in at .. at + n - 1 THEN items[i - at + 1] ELSE c.slots[Offset(c, i)]]
<1>1. DOMAIN items = 1 .. n /\ n \in Nat /\ \A j \in 1 .. n : items[j] \in Items
  OBVIOUS
<1>2. /\ c.capacity \in Nat /\ \A i \in P : Offset(c, i) \in DOMAIN c.slots
      /\ \A i, j \in P : Offset(c, i) = Offset(c, j) => i = j
  BY SoundTypes
<1>3. Construct(c, at, items) = [c EXCEPT !.slots = slots]
  BY DEF Construct
<1>4. \A j \in 1 .. n : at + j - 1 \in P
  BY <1>1, <1>2
<1>5. ASSUME NEW i \in P PROVE slots[Offset(c, i)] = f[i]
  <2> DEFINE x == Offset(c, i)
  <2>0. x \in DOMAIN c.slots
    BY <1>2
  <2>1. CASE i \in at .. at + n - 1
    <3>1. i - at + 1 \in 1 .. n /\ at + (i - at + 1) - 1 = i
      BY <1>1, <2>1
    <3>2. Put(x)
      BY <1>1, <3>1
    <3>3. The(x) \in 1 .. n /\ x = Offset(c, at + The(x) - 1)
      BY <1>1, <3>2
    <3> HIDE DEF The
    <3>4. at + The(x) - 1 = i
      BY <1>2, <1>4, <3>3
    <3>5. The(x) = i - at + 1
      BY <1>1, <3>3, <3>4
    <3> QED
      BY <2>0, <2>1, <3>2, <3>5
  <2>2. CASE i \notin at .. at + n - 1
    <3>1. \A j \in 1 .. n : at + j - 1 \in at .. at + n - 1
      BY <1>1
    <3>2. ~Put(x)
      BY <1>1, <1>2, <1>4, <2>2, <3>1
    <3> QED
      BY <2>0, <2>2, <3>2
  <2> QED
    BY <2>1, <2>2
<1>6. \A x \in DOMAIN c.slots : Outside(c, x) => slots[x] = c.slots[x]
  BY <1>1, <1>4 DEF Outside
<1>7. \A x \in DOMAIN slots : slots[x] \in Slot
  <2>1. \A x \in DOMAIN c.slots : Put(x) => The(x) \in DOMAIN items
    OBVIOUS
  <2>2. \A x \in DOMAIN c.slots : c.slots[x] \in Slot
    BY DEF Sound, Storages, Arrays
  <2> HIDE DEF Put, The
  <2> QED
    BY <1>1, <2>1, <2>2 DEF Slot
<1>8. DOMAIN slots = DOMAIN c.slots /\ slots = [x \in DOMAIN slots |-> slots[x]]
  OBVIOUS
<1> HIDE DEF slots, f
<1>9. Rearranged(c, [c EXCEPT !.slots = slots], f)
  BY <1>5, <1>6, <1>7, <1>8, Replaces
<1> QED
  BY <1>3, <1>9 DEF f

LEMMA Destructs ==
    ASSUME NEW c, Sound(c), NEW first \in Nat, NEW last \in Nat, last <= c.capacity
    PROVE  Rearranged(c, Destruct(c, first, last),
                [i \in 0 .. c.capacity - 1 |->
                    IF i \in first .. last - 1 THEN Empty ELSE c.slots[Offset(c, i)]])
<1> DEFINE P == 0 .. c.capacity - 1
           Gone(x) == \E i \in first .. last - 1 : x = Offset(c, i)
           slots == [x \in DOMAIN c.slots |-> IF Gone(x) THEN Empty ELSE c.slots[x]]
           f == [i \in P |-> IF i \in first .. last - 1 THEN Empty ELSE c.slots[Offset(c, i)]]
<1>1. /\ c.capacity \in Nat /\ \A i \in P : Offset(c, i) \in DOMAIN c.slots
      /\ \A i, j \in P : Offset(c, i) = Offset(c, j) => i = j
  BY SoundTypes
<1>2. \A i \in first .. last - 1 : i \in P
  BY <1>1
<1>3. ASSUME NEW i \in P PROVE slots[Offset(c, i)] = f[i]
  BY <1>1, <1>2
<1>4. \A x \in DOMAIN c.slots : Outside(c, x) => slots[x] = c.slots[x]
  BY <1>2 DEF Outside
<1>5. \A x \in DOMAIN slots : slots[x] \in Slot
  <2>1. \A x \in DOMAIN c.slots : c.slots[x] \in Slot
    BY DEF Sound, Storages, Arrays
  <2> QED
    BY <2>1 DEF Slot
<1>6. DOMAIN slots = DOMAIN c.slots /\ slots = [x \in DOMAIN slots |-> slots[x]]
  OBVIOUS
<1>7. Destruct(c, first, last) = [c EXCEPT !.slots = slots]
  BY DEF Destruct
<1> HIDE DEF slots, f
<1>8. Rearranged(c, [c EXCEPT !.slots = slots], f)
  BY <1>3, <1>4, <1>5, <1>6, Replaces
<1> QED
  BY <1>7, <1>8 DEF f

\* The j-th position from which something goes, forwards to lower or backwards to higher ones.
Place(first, last, by, j) == IF by < 0 THEN first + j - 1 ELSE last - j
Path(c, first, last, by) == IF by < 0 THEN Forwards(c, first, last, by) ELSE Backwards(c, first, last, by)

LEMMA Places ==
    ASSUME NEW first \in Nat, NEW last \in Nat, NEW by \in Int, first <= last, by # 0
    PROVE  /\ \A j \in 1 .. last - first : Place(first, last, by, j) \in first .. last - 1
           /\ \A i, j \in 1 .. last - first :
                Place(first, last, by, i) = Place(first, last, by, j) => i = j
           /\ \A i, j \in 1 .. last - first :
                Place(first, last, by, i) + by = Place(first, last, by, j) => i > j
           /\ \A p \in first .. last - 1 :
                \E j \in 1 .. last - first : Place(first, last, by, j) = p
<1>1. CASE by < 0
  <2>1. \A p \in first .. last - 1 :
            p - first + 1 \in 1 .. last - first /\ Place(first, last, by, p - first + 1) = p
    BY <1>1 DEF Place
  <2> QED
    BY <1>1, <2>1 DEF Place
<1>2. CASE ~(by < 0)
  <2>1. \A p \in first .. last - 1 :
            last - p \in 1 .. last - first /\ Place(first, last, by, last - p) = p
    BY <1>2 DEF Place
  <2> QED
    BY <1>2, <2>1 DEF Place
<1> QED
  BY <1>1, <1>2

LEMMA Paths ==
    ASSUME NEW c, NEW first \in Nat, NEW last \in Nat, NEW by \in Int, first <= last
    PROVE  /\ Len(Path(c, first, last, by)) = last - first
           /\ \A j \in 1 .. last - first :
                /\ Path(c, first, last, by)[j].from = Offset(c, Place(first, last, by, j))
                /\ Path(c, first, last, by)[j].to = Offset(c, Place(first, last, by, j) + by)
<1> DEFINE n == last - first
           f == Forwards(c, first, last, by)
<1>1. f = [j \in 1 .. n |-> [from |-> Offset(c, first + j - 1), to |-> Offset(c, first + j - 1 + by)]]
  BY DEF Forwards
<1>2. n \in Nat
  OBVIOUS
<1> HIDE DEF n, f
<1>3. Len(f) = n
  BY <1>1, <1>2
<1>4. CASE by < 0
  <2>1. Path(c, first, last, by) = f
    BY <1>4 DEF Path, f
  <2> QED
    BY <1>1, <1>3, <1>4, <2>1 DEF Place, n
<1>5. CASE ~(by < 0)
  <2>1. Path(c, first, last, by) = [j \in 1 .. n |-> f[(n - j) + 1]]
    BY <1>3, <1>5 DEF Path, f, Backwards, Reverse
  <2>2. Len(Path(c, first, last, by)) = n
    BY <1>2, <2>1
  <2>3. \A j \in 1 .. n : n - j + 1 \in 1 .. n /\ first + (n - j + 1) - 1 = last - j
    BY <1>2 DEF n
  <2>4. \A j \in 1 .. n : Path(c, first, last, by)[j] = f[n - j + 1]
    BY <2>1
  <2>5. ASSUME NEW j \in 1 .. n
        PROVE  Path(c, first, last, by)[j]
                    = [from |-> Offset(c, last - j), to |-> Offset(c, last - j + by)]
    <3>1. f[n - j + 1] = [from |-> Offset(c, first + (n - j + 1) - 1),
                          to |-> Offset(c, first + (n - j + 1) - 1 + by)]
      BY <1>1, <2>3
    <3> QED
      BY <2>3, <2>4, <3>1
  <2>6. \A j \in 1 .. n : Place(first, last, by, j) = last - j
    BY <1>5 DEF Place
  <2> QED
    BY <2>2, <2>5, <2>6 DEF n
<1> QED
  BY <1>4, <1>5

\* Items first to last - 1 go to other positions, and what is left of them stays.
LEMMA Shifts ==
    ASSUME NEW c, Sound(c), NEW left \in {Empty, Moved},
           NEW first \in Nat, NEW last \in Nat, NEW by \in Int, by # 0, first <= last,
           first + by >= 0, last <= c.capacity, last + by <= c.capacity
    PROVE  Rearranged(c, [c EXCEPT !.slots = Carried(c.slots, Path(c, first, last, by), left)],
                [i \in 0 .. c.capacity - 1 |->
                    IF i - by \in first .. last - 1 THEN c.slots[Offset(c, i - by)]
                    ELSE IF i \in first .. last - 1 THEN left ELSE c.slots[Offset(c, i)]])
<1> DEFINE P == 0 .. c.capacity - 1
           D == DOMAIN c.slots
           n == last - first
           Pl(j) == Place(first, last, by, j)
           moves == Path(c, first, last, by)
           slots == Carried(c.slots, moves, left)
           f == [i \in P |->
                    IF i - by \in first .. last - 1 THEN c.slots[Offset(c, i - by)]
                    ELSE IF i \in first .. last - 1 THEN left ELSE c.slots[Offset(c, i)]]
<1>1. /\ c.capacity \in Nat /\ \A i \in P : Offset(c, i) \in D
      /\ \A i, j \in P : Offset(c, i) = Offset(c, j) => i = j
  BY SoundTypes
<1>2. /\ n \in Nat
      /\ \A j \in 1 .. n : Pl(j) \in first .. last - 1
      /\ \A i, j \in 1 .. n : Pl(i) = Pl(j) => i = j
      /\ \A i, j \in 1 .. n : Pl(i) + by = Pl(j) => i > j
      /\ \A p \in first .. last - 1 : \E j \in 1 .. n : Pl(j) = p
  BY Places
<1>3. /\ Len(moves) = n
      /\ \A j \in 1 .. n : moves[j].from = Offset(c, Pl(j)) /\ moves[j].to = Offset(c, Pl(j) + by)
  BY Paths
<1>4. /\ c.slots = [x \in D |-> c.slots[x]] /\ \A x \in D : c.slots[x] \in Slot
  BY DEF Sound, Storages, Arrays
<1> HIDE DEF Pl, moves
<1>5. \A p \in first .. last - 1 : p \in P /\ p + by \in P
  BY <1>1
<1> DEFINE N == 1 .. n
<1> HIDE DEF n, P
<1>6. \A j \in N : Pl(j) \in P /\ Pl(j) + by \in P
  BY <1>2, <1>5
<1>6a. \A i, j \in N : Pl(i) \in Int /\ (Pl(i) + by = Pl(j) + by => i = j)
  <2>1. \A i \in N : Pl(i) \in Int
    BY <1>2
  <2>2. \A x, y \in Int : x + by = y + by => x = y
    OBVIOUS
  <2>3. \A i, j \in N : Pl(i) + by = Pl(j) + by => Pl(i) = Pl(j)
    BY <2>1, <2>2
  <2> QED
    BY <1>2, <2>1, <2>3 DEF N
<1>7. InOrder(moves, D)
  <2>1. Len(moves) \in Nat /\ 1 .. Len(moves) = N
    BY <1>2, <1>3
  <2>2. \A j \in N : moves[j].from \in D /\ moves[j].to \in D
    BY <1>1, <1>3, <1>6
  <2>3. ASSUME NEW i \in N, NEW j \in N
        PROVE  /\ moves[i].from = moves[j].from => i = j
               /\ moves[i].to = moves[j].to => i = j
               /\ moves[i].to = moves[j].from => i > j
    <3>1. /\ moves[i].from = moves[j].from => Pl(i) = Pl(j)
          /\ moves[i].to = moves[j].to => Pl(i) + by = Pl(j) + by
          /\ moves[i].to = moves[j].from => Pl(i) + by = Pl(j)
      BY <1>1, <1>3, <1>6 DEF N
    <3> QED
      BY <1>2, <1>6a, <3>1 DEF N
  <2> QED
    BY <2>1, <2>2, <2>3 DEF InOrder
<1>8. AfterMoves(slots, c.slots, moves, left, n, D)
  BY <1>3, <1>4, <1>7, CarriedAll
<1> HIDE DEF slots
<1>9. ASSUME NEW x \in D, \A j \in N : moves[j].to # x
      PROVE  slots[x] = IF \E j \in N : moves[j].from = x THEN left ELSE c.slots[x]
  BY <1>8, <1>9 DEF AfterMoves
<1>10. ASSUME NEW i \in P PROVE slots[Offset(c, i)] = f[i]
  <2>0. i \in Int
    BY <1>1 DEF P
  <2>1. CASE i - by \in first .. last - 1
    <3>1. PICK j \in N : Pl(j) = i - by
      BY <1>2, <2>1
    <3>2. (i - by) + by = i
      BY <2>0
    <3>3. slots[moves[j].to] = c.slots[moves[j].from]
      BY <1>8 DEF AfterMoves
    <3>4. slots[Offset(c, i)] = c.slots[Offset(c, i - by)]
      BY <1>3, <3>1, <3>2, <3>3
    <3> QED
      BY <2>1, <3>4
  <2>2. CASE i - by \notin first .. last - 1
    <3>1. \A j \in N : Pl(j) + by # i
      <4>1. \A j \in N : Pl(j) + by - by = Pl(j)
        BY <1>2
      <4> QED
        BY <1>2, <2>2, <4>1
    <3>2. \A j \in N : moves[j].to # Offset(c, i)
      BY <1>1, <1>3, <1>6, <3>1
    <3>3. slots[Offset(c, i)]
            = IF \E j \in N : moves[j].from = Offset(c, i) THEN left ELSE c.slots[Offset(c, i)]
      BY <1>1, <1>9, <3>2
    <3>4. (\E j \in N : moves[j].from = Offset(c, i)) <=> i \in first .. last - 1
      <4>1. (\E j \in N : moves[j].from = Offset(c, i)) <=> \E j \in N : Pl(j) = i
        BY <1>1, <1>3, <1>6
      <4>2. (\E j \in N : Pl(j) = i) <=> i \in first .. last - 1
        BY <1>2
      <4> QED
        BY <4>1, <4>2
    <3> QED
      BY <2>2, <3>3, <3>4
  <2> QED
    BY <2>1, <2>2
<1>11. ASSUME NEW x \in D, Outside(c, x) PROVE slots[x] = c.slots[x]
  <2>1. \A j \in N : moves[j].to # x /\ moves[j].from # x
    BY <1>3, <1>6, <1>11 DEF Outside, P
  <2> QED
    BY <1>9, <2>1
<1>12. ASSUME NEW x \in D PROVE slots[x] \in Slot
  <2>1. CASE \E j \in N : moves[j].to = x
    <3>1. PICK j \in N : moves[j].to = x
      BY <2>1
    <3>2. slots[x] = c.slots[moves[j].from] /\ moves[j].from \in D
      BY <1>1, <1>3, <1>6, <1>8, <3>1 DEF AfterMoves
    <3> QED
      BY <1>4, <3>2
  <2>2. CASE \A j \in N : moves[j].to # x
    BY <1>4, <1>9, <2>2 DEF Slot
  <2> QED
    BY <2>1, <2>2
<1>13. DOMAIN slots = D /\ slots = [x \in D |-> slots[x]]
  BY <1>8 DEF AfterMoves
<1> HIDE DEF f
<1>14. Rearranged(c, [c EXCEPT !.slots = slots], f)
  BY <1>10, <1>11, <1>12, <1>13, Replaces DEF P
<1> QED
  BY <1>14 DEF slots, f, moves, P

-----------------------------------------------------------------------------
(***************************************************************************)
(* Sequences.                                                              *)
(***************************************************************************)
Spliced(q, at, items) == SubSeq(q, 1, at) \o items \o SubSeq(q, at + 1, Len(q))
CutOut(q, from, to) == SubSeq(q, 1, from) \o SubSeq(q, to + 1, Len(q))

LEMMA Parts ==
    ASSUME NEW q \in Seq(Items), NEW n \in 0 .. Len(q)
    PROVE  /\ SubSeq(q, 1, n) \in Seq(Items) /\ Len(SubSeq(q, 1, n)) = n
           /\ \A i \in 1 .. n : SubSeq(q, 1, n)[i] = q[i]
           /\ SubSeq(q, n + 1, Len(q)) \in Seq(Items) /\ Len(SubSeq(q, n + 1, Len(q))) = Len(q) - n
           /\ \A i \in 1 .. Len(q) - n : SubSeq(q, n + 1, Len(q))[i] = q[n + i]
<1>1. Len(q) \in Nat /\ \A i \in 1 .. Len(q) : q[i] \in Items
  OBVIOUS
<1>2. SubSeq(q, 1, n) = [i \in 1 .. n |-> q[i]]
  OBVIOUS
<1>3. SubSeq(q, n + 1, Len(q)) = [i \in 1 .. Len(q) - n |-> q[n + i]]
  BY <1>1
<1> QED
  BY <1>1, <1>2, <1>3

LEMMA SplicedItems ==
    ASSUME NEW q \in Seq(Items), NEW at \in 0 .. Len(q), NEW items \in Seq(Items)
    PROVE  /\ Spliced(q, at, items) \in Seq(Items)
           /\ Len(Spliced(q, at, items)) = Len(q) + Len(items)
           /\ \A i \in 0 .. Len(q) + Len(items) - 1 : Spliced(q, at, items)[i + 1]
                    = IF i < at THEN q[i + 1]
                      ELSE IF i < at + Len(items) THEN items[i - at + 1] ELSE q[i - Len(items) + 1]
<1> DEFINE a == SubSeq(q, 1, at)
           b == SubSeq(q, at + 1, Len(q))
<1>1. /\ a \in Seq(Items) /\ Len(a) = at /\ \A i \in 1 .. at : a[i] = q[i]
      /\ b \in Seq(Items) /\ Len(b) = Len(q) - at /\ \A i \in 1 .. Len(q) - at : b[i] = q[at + i]
  BY Parts
<1>2. Spliced(q, at, items) = a \o items \o b
  BY DEF Spliced
<1> HIDE DEF a, b
<1>3. /\ a \o items \in Seq(Items) /\ Len(a \o items) = at + Len(items)
      /\ \A i \in 1 .. at + Len(items) :
            (a \o items)[i] = IF i <= at THEN a[i] ELSE items[i - at]
  <2>1. /\ a \o items \in Seq(Items) /\ Len(a \o items) = Len(a) + Len(items)
        /\ \A i \in 1 .. Len(a) + Len(items) :
            (a \o items)[i] = IF i <= Len(a) THEN a[i] ELSE items[i - Len(a)]
    BY <1>1, ConcatProperties
  <2>2. Len(a) = at
    BY <1>1
  <2> QED
    BY <2>1, <2>2
<1> DEFINE ab == a \o items
<1> HIDE DEF ab
<1>4. ab \in Seq(Items) /\ Len(ab) = at + Len(items)
  BY <1>3 DEF ab
<1>5. /\ ab \o b \in Seq(Items) /\ Len(ab \o b) = Len(q) + Len(items)
      /\ \A i \in 1 .. Len(q) + Len(items) :
            (ab \o b)[i] = IF i <= at + Len(items) THEN ab[i] ELSE b[i - (at + Len(items))]
  <2>1. /\ ab \o b \in Seq(Items) /\ Len(ab \o b) = Len(ab) + Len(b)
        /\ \A i \in 1 .. Len(ab) + Len(b) :
            (ab \o b)[i] = IF i <= Len(ab) THEN ab[i] ELSE b[i - Len(ab)]
    <3>1. ab \in Seq(Items) /\ b \in Seq(Items)
      BY <1>1, <1>4
    <3> QED
      BY <3>1, ConcatProperties
  <2>2. Len(ab) + Len(b) = Len(q) + Len(items)
    BY <1>1, <1>4
  <2> QED
    BY <1>4, <2>1, <2>2
<1>6. ASSUME NEW i \in 0 .. Len(q) + Len(items) - 1
      PROVE  (ab \o b)[i + 1] = IF i < at THEN q[i + 1]
                ELSE IF i < at + Len(items) THEN items[i - at + 1] ELSE q[i - Len(items) + 1]
  <2>1. /\ Len(q) \in Nat /\ Len(items) \in Nat /\ i + 1 \in 1 .. Len(q) + Len(items)
    OBVIOUS
  <2>2. CASE i < at
    <3>1. i + 1 \in 1 .. at + Len(items) /\ i + 1 \in 1 .. at
      BY <2>1, <2>2
    <3> QED
      BY <1>1, <1>3, <1>5, <2>1, <2>2, <3>1 DEF ab
  <2>3. CASE i >= at /\ i < at + Len(items)
    <3>1. i + 1 \in 1 .. at + Len(items) /\ ~(i + 1 <= at) /\ (i + 1) - at = i - at + 1 /\ ~(i < at)
      BY <2>1, <2>3
    <3> QED
      BY <1>1, <1>3, <1>5, <2>1, <2>3, <3>1 DEF ab
  <2>4. CASE i >= at + Len(items)
    <3>1. /\ ~(i + 1 <= at + Len(items)) /\ i + 1 - (at + Len(items)) \in 1 .. Len(q) - at
          /\ at + (i + 1 - (at + Len(items))) = i - Len(items) + 1
          /\ ~(i < at) /\ ~(i < at + Len(items))
      BY <2>1, <2>4
    <3>2. (ab \o b)[i + 1] = b[i + 1 - (at + Len(items))]
      <4>1. (ab \o b)[i + 1]
                = IF i + 1 <= at + Len(items) THEN ab[i + 1] ELSE b[i + 1 - (at + Len(items))]
        BY <1>5, <2>1
      <4> QED
        BY <3>1, <4>1
    <3>3. b[i + 1 - (at + Len(items))] = q[i - Len(items) + 1]
      BY <1>1, <3>1
    <3> QED
      BY <3>1, <3>2, <3>3
  <2>5. i < at \/ (i >= at /\ i < at + Len(items)) \/ i >= at + Len(items)
    BY <2>1
  <2> QED
    BY <2>2, <2>3, <2>4, <2>5
<1>7. Spliced(q, at, items) = ab \o b
  BY <1>2 DEF ab
<1> DEFINE r == ab \o b
<1> HIDE DEF r
<1> QED
  BY <1>5, <1>6, <1>7 DEF r

LEMMA CutOutItems ==
    ASSUME NEW q \in Seq(Items), NEW to \in 0 .. Len(q), NEW from \in 0 .. to
    PROVE  /\ CutOut(q, from, to) \in Seq(Items)
           /\ Len(CutOut(q, from, to)) = Len(q) - (to - from)
           /\ \A i \in 0 .. Len(q) - (to - from) - 1 : CutOut(q, from, to)[i + 1]
                    = IF i < from THEN q[i + 1] ELSE q[i + (to - from) + 1]
<1> DEFINE a == SubSeq(q, 1, from)
           b == SubSeq(q, to + 1, Len(q))
<1>0. Len(q) \in Nat /\ from \in 0 .. Len(q)
  OBVIOUS
<1>1. /\ a \in Seq(Items) /\ Len(a) = from /\ \A i \in 1 .. from : a[i] = q[i]
      /\ b \in Seq(Items) /\ Len(b) = Len(q) - to /\ \A i \in 1 .. Len(q) - to : b[i] = q[to + i]
  BY <1>0, Parts
<1>2. CutOut(q, from, to) = a \o b
  BY DEF CutOut
<1> HIDE DEF a, b
<1>3. /\ a \o b \in Seq(Items) /\ Len(a \o b) = Len(q) - (to - from)
      /\ \A i \in 1 .. Len(q) - (to - from) : (a \o b)[i] = IF i <= from THEN a[i] ELSE b[i - from]
  <2>1. /\ a \o b \in Seq(Items) /\ Len(a \o b) = Len(a) + Len(b)
        /\ \A i \in 1 .. Len(a) + Len(b) : (a \o b)[i] = IF i <= Len(a) THEN a[i] ELSE b[i - Len(a)]
    BY <1>1, ConcatProperties
  <2>2. Len(a) + Len(b) = Len(q) - (to - from)
    BY <1>0, <1>1
  <2> QED
    BY <1>1, <2>1, <2>2
<1>4. ASSUME NEW i \in 0 .. Len(q) - (to - from) - 1
      PROVE  (a \o b)[i + 1] = IF i < from THEN q[i + 1] ELSE q[i + (to - from) + 1]
  <2>1. i + 1 \in 1 .. Len(q) - (to - from)
    BY <1>0
  <2>2. CASE i < from
    <3>1. i + 1 \in 1 .. from /\ i + 1 <= from
      BY <2>1, <2>2
    <3> QED
      BY <1>1, <1>3, <2>1, <2>2, <3>1
  <2>3. CASE ~(i < from)
    <3>1. ~(i + 1 <= from) /\ (i + 1) - from \in 1 .. Len(q) - to
          /\ to + ((i + 1) - from) = i + (to - from) + 1
      BY <1>0, <2>1, <2>3
    <3> QED
      BY <1>1, <1>3, <2>1, <2>3, <3>1
  <2> QED
    BY <2>2, <2>3
<1>5. CutOut(q, from, to) = a \o b
  BY <1>2
<1> DEFINE r == a \o b
<1>6. /\ r \in Seq(Items) /\ Len(r) = Len(q) - (to - from) /\ CutOut(q, from, to) = r
      /\ \A i \in 0 .. Len(q) - (to - from) - 1 :
            r[i + 1] = IF i < from THEN q[i + 1] ELSE q[i + (to - from) + 1]
  BY <1>3, <1>4, <1>5
<1> HIDE DEF r
<1> QED
  BY <1>6

-----------------------------------------------------------------------------
(***************************************************************************)
(* New arrays.                                                             *)
(***************************************************************************)
Loaded(items, n) == [k \in 0 .. n - 1 |-> IF k < Len(items) THEN items[k + 1] ELSE Empty]

LEMMA Loads ==
    ASSUME NEW s, NEW n \in Nat, s.slots = [k \in 0 .. n - 1 |-> Empty],
           NEW items \in Seq(Items), Len(items) <= n,
           \A j \in 1 .. Len(items) : Offset(s, 0 + j - 1) = j - 1
    PROVE  /\ Construct(s, 0, items) = [s EXCEPT !.slots = Loaded(items, n)]
           /\ Loaded(items, n) \in Arrays
<1> DEFINE Put(k) == \E j \in DOMAIN items : k = Offset(s, 0 + j - 1)
           The(k) == CHOOSE j \in DOMAIN items : k = Offset(s, 0 + j - 1)
<1>1. Len(items) \in Nat /\ DOMAIN items = 1 .. Len(items) /\ \A j \in 1 .. Len(items) : items[j] \in Items
  OBVIOUS
<1>2. DOMAIN s.slots = 0 .. n - 1
  OBVIOUS
<1>3. ASSUME NEW k \in 0 .. n - 1
      PROVE  (IF Put(k) THEN items[The(k)] ELSE s.slots[k])
                    = IF k < Len(items) THEN items[k + 1] ELSE Empty
  <2>1. CASE k < Len(items)
    <3>1. k + 1 \in 1 .. Len(items) /\ (k + 1) - 1 = k
      BY <1>1, <2>1
    <3>2. Put(k)
      BY <1>1, <3>1
    <3>3. The(k) \in 1 .. Len(items) /\ k = Offset(s, 0 + The(k) - 1)
      BY <1>1, <3>2
    <3> HIDE DEF The
    <3>4. k = The(k) - 1
      BY <3>3
    <3>5. The(k) = k + 1
      BY <3>3, <3>4
    <3> HIDE DEF Put
    <3> QED
      BY <2>1, <3>2, <3>5
  <2>2. CASE ~(k < Len(items))
    <3>1. \A j \in 1 .. Len(items) : j - 1 # k
      BY <1>1, <2>2
    <3>2. ~Put(k)
      BY <1>1, <3>1
    <3> HIDE DEF Put
    <3> QED
      BY <2>2, <3>2
  <2> QED
    BY <2>1, <2>2
<1>4. Construct(s, 0, items)
        = [s EXCEPT !.slots = [k \in DOMAIN s.slots |-> IF Put(k) THEN items[The(k)] ELSE s.slots[k]]]
  BY DEF Construct
<1> HIDE DEF Put, The
<1>5. [k \in DOMAIN s.slots |-> IF Put(k) THEN items[The(k)] ELSE s.slots[k]] = Loaded(items, n)
  BY <1>2, <1>3 DEF Loaded
<1>6. \A k \in 0 .. n - 1 : Loaded(items, n)[k] \in Slot
  <2> SUFFICES ASSUME NEW k \in 0 .. n - 1
               PROVE  (IF k < Len(items) THEN items[k + 1] ELSE Empty) \in Slot
    BY DEF Loaded
  <2>1. k < Len(items) => k + 1 \in 1 .. Len(items)
    BY <1>1
  <2> QED
    BY <1>1, <2>1 DEF Slot
<1>7. Loaded(items, n) \in [0 .. n - 1 -> Slot]
  BY <1>6 DEF Loaded
<1> QED
  BY <1>4, <1>5, <1>7 DEF Arrays

\* What the new array has to do with the number of items, for the configuration k.
Roomy(k, n, size) ==
    /\ k.only => n <= k.squeezed
    /\ k.stuffed => size = n \/ (n = 0 /\ size <= k.squeezed)
    /\ size <= Larger(n, k.squeezed)

LEMMA Capacities ==
    ASSUME NEW k, SoundKind(k), NEW n \in Nat, NEW size \in Nat, Roomy(k, n, size),
           NEW capacity, capacity = IF k.stuffed THEN size ELSE Larger(n, k.squeezed)
    PROVE  /\ capacity \in Nat /\ Larger(n, k.squeezed) \in Nat
           /\ size <= capacity /\ capacity <= Larger(n, k.squeezed)
           /\ Larger(capacity, k.squeezed) = Larger(n, k.squeezed)
           /\ k.only => capacity <= k.squeezed
           /\ k.stuffed => capacity = size
           /\ ~k.stuffed => capacity >= k.squeezed
<1>1. k.squeezed \in Nat /\ k.only \in BOOLEAN /\ k.stuffed \in BOOLEAN
  BY DEF SoundKind, Configurations
<1>2. CASE k.stuffed
  BY <1>1, <1>2 DEF Roomy, Larger
<1>3. CASE ~k.stuffed
  BY <1>1, <1>3 DEF Roomy, Larger
<1> QED
  BY <1>2, <1>3

LEMMA Fresh ==
    ASSUME SoundKind(kind), NEW n \in Nat, NEW items \in Seq(Items), Roomy(kind, n, Len(items))
    PROVE  LET c == SetLength(Construct(Storage(n), 0, items), Len(items))
           IN  Holds(kind, c, items) /\ c.capacity = IF kind.stuffed THEN Len(items)
                                                     ELSE Larger(n, kind.squeezed)
<1> DEFINE L == Larger(n, kind.squeezed)
           s == Storage(n)
           capacity == IF kind.stuffed THEN Len(items) ELSE L
           d == SetLength(Construct(s, 0, items), Len(items))
<1>1. Len(items) \in Nat
  OBVIOUS
<1>2. /\ capacity \in Nat /\ L \in Nat /\ Len(items) <= capacity /\ capacity <= L
      /\ Larger(capacity, kind.squeezed) = L
      /\ kind.only => capacity <= kind.squeezed
      /\ kind.stuffed => capacity = Len(items)
      /\ ~kind.stuffed => capacity >= kind.squeezed
  BY <1>1, Capacities
<1>3. /\ s.capacity = (IF kind.stuffed THEN n ELSE L) /\ s.begin = 0
      /\ s.slots = [k \in 0 .. L - 1 |-> Empty]
      /\ s = [capacity |-> s.capacity, length |-> 0, begin |-> 0, slots |-> s.slots]
  BY DEF Storage
<1> HIDE DEF s
<1>4. \A j \in 1 .. Len(items) : Offset(s, 0 + j - 1) = j - 1
  <2>1. CASE kind.stuffed
    <3>1. s.capacity = n /\ (Len(items) = n \/ n = 0)
      BY <1>3, <2>1 DEF Roomy
    <3> QED
      BY <1>1, <1>3, <3>1 DEF Offset
  <2>2. CASE ~kind.stuffed
    <3>1. s.capacity = L /\ Len(items) <= L
      BY <1>3, <2>2 DEF Roomy
    <3> HIDE DEF L
    <3> QED
      BY <1>1, <1>2, <1>3, <3>1 DEF Offset
  <2> QED
    BY <2>1, <2>2
<1> HIDE DEF L
<1>5. Len(items) <= L
  BY <1>1, <1>2
<1>6. Construct(s, 0, items) = [s EXCEPT !.slots = Loaded(items, L)] /\ Loaded(items, L) \in Arrays
  BY <1>2, <1>3, <1>4, <1>5, Loads
<1> DEFINE b == Construct(s, 0, items)
<1>7. d = [capacity |-> capacity, length |-> Len(items), begin |-> 0, slots |-> Loaded(items, L)]
  <2>0. b = [capacity |-> s.capacity, length |-> 0, begin |-> 0, slots |-> Loaded(items, L)]
    BY <1>3, <1>6
  <2>1. (IF kind.stuffed THEN Len(items) ELSE s.capacity) = capacity
    BY <1>3
  <2> HIDE DEF capacity, b
  <2>2. d = [b EXCEPT !.length = Len(items), !.capacity = IF kind.stuffed THEN Len(items) ELSE @]
    BY DEF SetLength, b
  <2>3. b.capacity = s.capacity
    BY <2>0
  <2> QED
    BY <2>0, <2>1, <2>2, <2>3
<1> HIDE DEF capacity, d
<1>8. d.capacity = capacity /\ d.length = Len(items) /\ d.begin = 0 /\ d.slots = Loaded(items, L)
  BY <1>7
<1>9. d \in Storages
  BY <1>1, <1>2, <1>6, <1>7 DEF Storages
<1>10. Shaped(kind, d)
  <2>1. DOMAIN d.slots = 0 .. L - 1
    BY <1>8 DEF Loaded
  <2> QED
    BY <1>2, <1>8, <1>9, <2>1 DEF Shaped
<1>11. FilledWith(d, items)
  <2>1. \A i \in 0 .. d.capacity - 1 : Offset(d, i) = i
    BY <1>2, <1>8 DEF Offset
  <2>2. \A i \in 0 .. d.capacity - 1 : i \in 0 .. L - 1
    BY <1>2, <1>8
  <2>3. \A x \in 0 .. L - 1 : d.slots[x] = IF x < d.length THEN items[x + 1] ELSE Empty
    BY <1>8 DEF Loaded
  <2>4. ASSUME NEW x \in DOMAIN d.slots, Outside(d, x) PROVE d.slots[x] = Empty
    <3>1. x \in 0 .. L - 1
      BY <1>8 DEF Loaded
    <3>2. ~(x \in 0 .. d.capacity - 1)
      BY <2>1, <2>4 DEF Outside
    <3>3. ~(x < d.length)
      BY <1>1, <1>2, <1>8, <3>1, <3>2
    <3> QED
      BY <2>3, <3>1, <3>3
  <2> QED
    BY <1>8, <2>1, <2>2, <2>3, <2>4 DEF FilledWith
<1> QED
  BY <1>8, <1>10, <1>11 DEF Holds, d, s, capacity, L

-----------------------------------------------------------------------------
(***************************************************************************)
(* Inserting in place.                                                     *)
(***************************************************************************)
LEMMA SoundShape ==
    ASSUME NEW k, SoundKind(k), NEW c, Shaped(k, c)
    PROVE  Sound(c)
<1>1. 0 .. c.capacity - 1 \subseteq DOMAIN c.slots
  BY ShapeTypes
<1> QED
  BY <1>1 DEF Shaped, Sound

\* The array of c, with another offset and other items in it.
LEMMA Refilled ==
    ASSUME NEW k, SoundKind(k), ~k.stuffed, NEW c, Shaped(k, c),
           NEW d \in Storages, DOMAIN d.slots = DOMAIN c.slots, d.capacity = c.capacity,
           d.begin = 0 \/ d.begin < c.capacity, ~k.circular => d.begin = 0,
           NEW q \in Seq(Items), d.length = Len(q), Len(q) <= c.capacity,
           \A i \in 0 .. c.capacity - 1 :
                d.slots[Offset(d, i)] = IF i < Len(q) THEN q[i + 1] ELSE Empty,
           \A x \in DOMAIN c.slots : Outside(d, x) => d.slots[x] = Empty
    PROVE  Holds(k, d, q)
<1>1. Shaped(k, d)
  BY DEF Shaped
<1>2. FilledWith(d, q)
  BY DEF FilledWith
<1> QED
  BY <1>1, <1>2 DEF Holds

\* The same array from another offset on.
LEMMA TurnedBack ==
    ASSUME NEW c, Sound(c), NEW r, r.capacity = c.capacity, NEW n \in 1 .. c.capacity,
           r.begin = IF c.begin >= n THEN c.begin - n ELSE c.capacity - (n - c.begin)
    PROVE  /\ r.begin \in Nat /\ r.begin < c.capacity
           /\ \A i \in n .. c.capacity - 1 : Offset(r, i) = Offset(c, i - n)
           /\ \A i \in 0 .. n - 1 : Offset(r, i) = Offset(c, c.capacity - n + i)
           /\ \A x : Outside(r, x) => Outside(c, x)
<1>1. c.capacity \in Nat /\ c.begin \in Nat /\ (c.begin = 0 \/ c.begin < c.capacity)
  BY DEF Sound, Storages
<1>2. r.begin \in Nat /\ r.begin < c.capacity
  BY <1>1
<1>3. \A i \in n .. c.capacity - 1 : Offset(r, i) = Offset(c, i - n)
  BY <1>1, <1>2 DEF Offset
<1>4. \A i \in 0 .. n - 1 : Offset(r, i) = Offset(c, c.capacity - n + i)
  BY <1>1, <1>2 DEF Offset
<1>5. ASSUME NEW x, Outside(r, x), NEW i \in 0 .. c.capacity - 1 PROVE Offset(c, i) # x
  <2>1. CASE i < c.capacity - n
    <3>1. i + n \in n .. c.capacity - 1 /\ i + n \in 0 .. c.capacity - 1 /\ (i + n) - n = i
      BY <1>1, <2>1
    <3> QED
      BY <1>3, <1>5, <3>1 DEF Outside
  <2>2. CASE ~(i < c.capacity - n)
    <3>1. /\ i - (c.capacity - n) \in 0 .. n - 1 /\ i - (c.capacity - n) \in 0 .. c.capacity - 1
          /\ c.capacity - n + (i - (c.capacity - n)) = i
      BY <1>1, <2>2
    <3> QED
      BY <1>4, <1>5, <3>1 DEF Outside
  <2> QED
    BY <2>1, <2>2
<1> QED
  BY <1>2, <1>3, <1>4, <1>5 DEF Outside

\* What a storage holds, position by position.
LEMMA HeldItems ==
    ASSUME NEW k, SoundKind(k), NEW c, NEW q, Holds(k, c, q)
    PROVE  /\ Sound(c) /\ c \in Storages /\ c.capacity \in Nat /\ c.length \in Nat /\ c.begin \in Nat
           /\ c.length = Len(q) /\ c.length <= c.capacity /\ q \in Seq(Items)
           /\ \A i \in 0 .. c.capacity - 1 :
                c.slots[Offset(c, i)] = IF i < c.length THEN q[i + 1] ELSE Empty
           /\ \A x \in DOMAIN c.slots : Outside(c, x) => c.slots[x] = Empty
<1>1. Shaped(k, c) /\ FilledWith(c, q)
  BY DEF Holds
<1>2. Sound(c) /\ c \in Storages /\ c.capacity \in Nat /\ c.length \in Nat /\ c.begin \in Nat
  BY <1>1, SoundShape, ShapeTypes DEF Sound
<1>3. c.length <= c.capacity
  BY <1>1 DEF Shaped
<1> QED
  BY <1>1, <1>2, <1>3 DEF FilledWith

\* There is room in m for the items among those of q.
Gapped(c, m, q, at, gap) ==
    /\ m \in Storages /\ DOMAIN m.slots = DOMAIN c.slots
    /\ m.capacity = c.capacity /\ m.length = Len(q) + gap /\ m.length <= c.capacity
    /\ m.begin = 0 \/ m.begin < c.capacity
    /\ ~kind.circular => m.begin = 0
    /\ \A i \in 0 .. c.capacity - 1 : i \notin at .. at + gap - 1 =>
            m.slots[Offset(m, i)] = IF i < Len(q) + gap
                                    THEN IF i < at THEN q[i + 1] ELSE q[i - gap + 1]
                                    ELSE Empty
    /\ \A x \in DOMAIN c.slots : Outside(m, x) => m.slots[x] = Empty

LEMMA GapFilled ==
    ASSUME SoundKind(kind), ~kind.stuffed, NEW c, Shaped(kind, c), NEW q \in Seq(Items),
           NEW at \in 0 .. Len(q), NEW items \in Seq(Items), NEW m, Gapped(c, m, q, at, Len(items))
    PROVE  Holds(kind, Construct(m, at, items), Spliced(q, at, items))
<1> DEFINE gap == Len(items)
           P == 0 .. c.capacity - 1
           g == [i \in 0 .. m.capacity - 1 |->
                    IF i \in at .. at + Len(items) - 1 THEN items[i - at + 1] ELSE m.slots[Offset(m, i)]]
           d == Construct(m, at, items)
           s == Spliced(q, at, items)
<1>1. /\ c.capacity \in Nat /\ gap \in Nat /\ Len(q) \in Nat /\ at \in Nat /\ at <= Len(q)
      /\ Len(q) + gap <= c.capacity /\ m.capacity = c.capacity
  <2>1. c.capacity \in Nat
    BY ShapeTypes
  <2>2. gap \in Nat /\ Len(q) \in Nat /\ at \in Nat /\ at <= Len(q)
    OBVIOUS
  <2>3. Len(q) + gap <= c.capacity /\ m.capacity = c.capacity
    BY DEF Gapped
  <2> QED
    BY <2>1, <2>2, <2>3
<1>2. Sound(m)
  <2>1. 0 .. c.capacity - 1 \subseteq DOMAIN c.slots
    BY ShapeTypes
  <2> QED
    BY <2>1 DEF Gapped, Sound
<1>3. at + Len(items) <= m.capacity
  BY <1>1
<1>4. at \in Nat
  BY <1>1
<1>5. Rearranged(m, d, g)
  BY <1>2, <1>3, <1>4, Constructs, Zenon
<1>6. \A i \in P : g[i] = IF i \in at .. at + gap - 1 THEN items[i - at + 1] ELSE m.slots[Offset(m, i)]
  BY <1>1
<1> HIDE DEF g, d
<1>7. /\ d \in Storages /\ DOMAIN d.slots = DOMAIN c.slots /\ d.capacity = c.capacity
      /\ d.begin = m.begin /\ d.length = Len(q) + gap
      /\ d.begin = 0 \/ d.begin < c.capacity
      /\ ~kind.circular => d.begin = 0
  BY <1>5 DEF Gapped, Rearranged
<1>8. \A i \in P : Offset(d, i) = Offset(m, i)
  BY <1>1, <1>7 DEF Offset
<1>9. \A i \in P : d.slots[Offset(d, i)] = g[i]
  BY <1>1, <1>5, <1>8 DEF Rearranged
<1>10. /\ s \in Seq(Items) /\ Len(s) = Len(q) + gap
       /\ \A i \in 0 .. Len(q) + gap - 1 :
            s[i + 1] = IF i < at THEN q[i + 1]
                       ELSE IF i < at + gap THEN items[i - at + 1] ELSE q[i - gap + 1]
  BY SplicedItems
<1> HIDE DEF s, gap
<1>11. ASSUME NEW i \in P PROVE d.slots[Offset(d, i)] = IF i < Len(s) THEN s[i + 1] ELSE Empty
  <2>1. CASE i \in at .. at + gap - 1
    <3>1. i \in 0 .. Len(q) + gap - 1 /\ ~(i < at) /\ i < at + gap /\ i < Len(s)
      BY <1>1, <1>10, <2>1
    <3> QED
      BY <1>6, <1>9, <1>10, <2>1, <3>1
  <2>2. CASE i \notin at .. at + gap - 1
    <3>1. d.slots[Offset(d, i)] = IF i < Len(q) + gap
                                  THEN IF i < at THEN q[i + 1] ELSE q[i - gap + 1]
                                  ELSE Empty
      BY <1>6, <1>9, <2>2 DEF Gapped, gap
    <3>2. CASE i < Len(q) + gap
      <4>1. i \in 0 .. Len(q) + gap - 1 /\ (~(i < at) => ~(i < at + gap))
        BY <1>1, <2>2, <3>2
      <4> QED
        BY <1>10, <3>1, <3>2, <4>1
    <3>3. CASE ~(i < Len(q) + gap)
      BY <1>10, <3>1, <3>3
    <3> QED
      BY <3>2, <3>3
  <2> QED
    BY <2>1, <2>2
<1>12. ASSUME NEW x \in DOMAIN c.slots, Outside(d, x) PROVE d.slots[x] = Empty
  <2>1. Outside(m, x)
    BY <1>1, <1>7, <1>8, <1>12 DEF Outside
  <2> QED
    BY <1>5, <2>1 DEF Rearranged, Gapped
<1>13. d.length = Len(s) /\ Len(s) <= c.capacity
  BY <1>1, <1>7, <1>10
<1>14. Holds(kind, d, s)
  BY <1>7, <1>10, <1>11, <1>12, <1>13, Refilled
<1> QED
  BY <1>14 DEF d, s

\* What is behind gives way.
LEMMA RoomBehind ==
    ASSUME SoundKind(kind), ~kind.stuffed, NEW c, NEW q, Holds(kind, c, q),
           NEW at \in 0 .. Len(q), NEW gap \in Nat, gap > 0, gap <= Remaining(c)
    PROVE  Gapped(c, [c EXCEPT !.slots = Relocate(@, Backwards(c, at, c.length, gap)), !.length = @ + gap],
                  q, at, gap)
<1> DEFINE P == 0 .. c.capacity - 1
           f == [i \in 0 .. c.capacity - 1 |->
                    IF i - gap \in at .. c.length - 1 THEN c.slots[Offset(c, i - gap)]
                    ELSE IF i \in at .. c.length - 1 THEN Empty ELSE c.slots[Offset(c, i)]]
           slots == Carried(c.slots, Path(c, at, c.length, gap), Empty)
           m1 == [c EXCEPT !.slots = slots]
           m == [c EXCEPT !.slots = Relocate(@, Backwards(c, at, c.length, gap)), !.length = @ + gap]
<1>1. /\ Sound(c) /\ c \in Storages /\ c.capacity \in Nat /\ c.length \in Nat /\ c.begin \in Nat
      /\ c.length = Len(q) /\ c.length <= c.capacity /\ q \in Seq(Items)
      /\ \A i \in P : c.slots[Offset(c, i)] = IF i < c.length THEN q[i + 1] ELSE Empty
      /\ \A x \in DOMAIN c.slots : Outside(c, x) => c.slots[x] = Empty
  BY HeldItems
<1>2. c.length + gap <= c.capacity
  BY <1>1 DEF Remaining
<1>3. Path(c, at, c.length, gap) = Backwards(c, at, c.length, gap)
  BY DEF Path
<1>4. Rearranged(c, m1, f)
  <2>1. /\ Sound(c) /\ Empty \in {Empty, Moved} /\ at \in Nat /\ c.length \in Nat /\ gap \in Int
        /\ gap # 0 /\ at <= c.length /\ at + gap >= 0
        /\ c.length <= c.capacity /\ c.length + gap <= c.capacity
    BY <1>1, <1>2
  <2> QED
    BY <2>1, Shifts, Zenon
<1>5. \A i \in P : f[i] = IF i - gap \in at .. c.length - 1 THEN c.slots[Offset(c, i - gap)]
                          ELSE IF i \in at .. c.length - 1 THEN Empty ELSE c.slots[Offset(c, i)]
  OBVIOUS
<1> HIDE DEF f, slots
<1>6. /\ m.slots = m1.slots /\ m.capacity = c.capacity /\ m.begin = c.begin /\ m.length = c.length + gap
      /\ m \in Storages
  <2>1. m = [c EXCEPT !.slots = slots, !.length = @ + gap]
    BY <1>3 DEF Relocate, slots
  <2>2. c.length + gap \in Nat
    BY <1>1
  <2>3. m1 \in Storages /\ m1.slots = slots
    BY <1>1, <1>4 DEF Rearranged, Storages
  <2>4. slots \in Arrays
    BY <2>3 DEF Storages
  <2> HIDE DEF m
  <2> QED
    BY <1>1, <2>1, <2>2, <2>3, <2>4 DEF Storages
<1> HIDE DEF m1, m
<1>7. \A i \in P : Offset(m, i) = Offset(c, i)
  BY <1>6 DEF Offset
<1>8. ASSUME NEW i \in P, i \notin at .. at + gap - 1
      PROVE  m.slots[Offset(m, i)] = IF i < Len(q) + gap
                                     THEN IF i < at THEN q[i + 1] ELSE q[i - gap + 1]
                                     ELSE Empty
  <2>1. m.slots[Offset(m, i)] = f[i]
    BY <1>4, <1>6, <1>7 DEF Rearranged
  <2>2. CASE i < at
    <3>1. i - gap \notin at .. c.length - 1 /\ i \notin at .. c.length - 1 /\ i < c.length /\ i < Len(q) + gap
      BY <1>1, <2>2
    <3> QED
      BY <1>1, <1>5, <2>1, <2>2, <3>1
  <2>3. CASE i >= at + gap /\ i < Len(q) + gap
    <3>1. /\ i - gap \in at .. c.length - 1 /\ i - gap \in P /\ i - gap < c.length /\ ~(i < at)
      BY <1>1, <1>2, <2>3
    <3> QED
      BY <1>1, <1>5, <2>1, <2>3, <3>1
  <2>4. CASE i >= Len(q) + gap
    <3>1. /\ i - gap \notin at .. c.length - 1 /\ i \notin at .. c.length - 1
          /\ ~(i < c.length) /\ ~(i < Len(q) + gap)
      BY <1>1, <2>4
    <3> QED
      BY <1>1, <1>5, <2>1, <3>1
  <2>5. i < at \/ (i >= at + gap /\ i < Len(q) + gap) \/ i >= Len(q) + gap
    BY <1>1, <1>8
  <2> QED
    BY <2>2, <2>3, <2>4, <2>5
<1>9. ASSUME NEW x \in DOMAIN c.slots, Outside(m, x) PROVE m.slots[x] = Empty
  <2>1. Outside(c, x)
    BY <1>6, <1>7, <1>9 DEF Outside
  <2> QED
    BY <1>1, <1>4, <1>6, <2>1 DEF Rearranged
<1>10. /\ DOMAIN m.slots = DOMAIN c.slots
       /\ m.begin = 0 \/ m.begin < c.capacity
       /\ ~kind.circular => m.begin = 0
  BY <1>4, <1>6 DEF Rearranged, Holds, Shaped
<1>11. m.length = Len(q) + gap /\ m.length <= c.capacity
  BY <1>1, <1>2, <1>6
<1>12. Gapped(c, m, q, at, gap)
  BY <1>6, <1>8, <1>9, <1>10, <1>11 DEF Gapped
<1> QED
  BY <1>12 DEF m

\* The ring r is c, begun by a gap earlier.
BegunBefore(r, c, gap) == r = [c EXCEPT !.begin = IF @ >= gap THEN @ - gap ELSE c.capacity - (gap - @)]

\* In a ring, what is in front gives way.
LEMMA RoomBefore ==
    ASSUME SoundKind(kind), kind.circular, NEW c, NEW q, Holds(kind, c, q),
           NEW at \in 0 .. Len(q), NEW gap \in Nat, gap > 0, gap <= Remaining(c),
           NEW r, BegunBefore(r, c, gap)
    PROVE  Gapped(c, [r EXCEPT !.slots = Relocate(@, Forwards(r, gap, gap + at, -gap)), !.length = @ + gap],
                  q, at, gap)
<1> DEFINE P == 0 .. c.capacity - 1
           f == [i \in 0 .. r.capacity - 1 |->
                    IF i - (-gap) \in gap .. (gap + at) - 1 THEN r.slots[Offset(r, i - (-gap))]
                    ELSE IF i \in gap .. (gap + at) - 1 THEN Empty ELSE r.slots[Offset(r, i)]]
           slots == Carried(r.slots, Path(r, gap, gap + at, -gap), Empty)
           m1 == [r EXCEPT !.slots = slots]
           m == [r EXCEPT !.slots = Relocate(@, Forwards(r, gap, gap + at, -gap)), !.length = @ + gap]
<1>1. /\ Sound(c) /\ c \in Storages /\ c.capacity \in Nat /\ c.length \in Nat /\ c.begin \in Nat
      /\ c.length = Len(q) /\ c.length <= c.capacity /\ q \in Seq(Items)
      /\ \A i \in P : c.slots[Offset(c, i)] = IF i < c.length THEN q[i + 1] ELSE Empty
      /\ \A x \in DOMAIN c.slots : Outside(c, x) => c.slots[x] = Empty
  BY HeldItems
<1>2. /\ c.length + gap <= c.capacity /\ gap \in 1 .. c.capacity
      /\ at \in Nat /\ at <= c.length
  BY <1>1 DEF Remaining
<1>3. /\ r.capacity = c.capacity /\ r.slots = c.slots /\ r.length = c.length
      /\ r.begin = IF c.begin >= gap THEN c.begin - gap ELSE c.capacity - (gap - c.begin)
  BY <1>1 DEF Storages, BegunBefore
<1>3a. r.begin \in Nat => r \in Storages
  <2>1. (IF c.begin >= gap THEN c.begin - gap ELSE c.capacity - (gap - c.begin)) = r.begin
    BY <1>3
  <2>2. r = [c EXCEPT !.begin = r.begin]
    BY <1>1, <2>1 DEF Storages, BegunBefore
  <2> QED
    BY <1>1, <2>2 DEF Storages
<1>4. /\ r.begin \in Nat /\ r.begin < c.capacity
      /\ \A i \in gap .. c.capacity - 1 : Offset(r, i) = Offset(c, i - gap)
      /\ \A i \in 0 .. gap - 1 : Offset(r, i) = Offset(c, c.capacity - gap + i)
      /\ \A x : Outside(r, x) => Outside(c, x)
  <2>1. Sound(c) /\ r.capacity = c.capacity
        /\ r.begin = IF c.begin >= gap THEN c.begin - gap ELSE c.capacity - (gap - c.begin)
    BY <1>1, <1>3
  <2> QED
    BY <1>2, <2>1, TurnedBack
<1>5. r \in Storages
  BY <1>3a, <1>4
<1>6. Sound(r)
  BY <1>1, <1>3, <1>4, <1>5 DEF Sound
<1>7. Path(r, gap, gap + at, -gap) = Forwards(r, gap, gap + at, -gap)
  BY DEF Path
<1>8. Rearranged(r, m1, f)
  <2>1. /\ Empty \in {Empty, Moved} /\ gap + at \in Nat /\ -gap \in Int
        /\ -gap # 0 /\ gap <= gap + at /\ gap + (-gap) >= 0
    BY <1>2
  <2>2. gap + at <= r.capacity /\ gap + at + (-gap) <= r.capacity
    BY <1>1, <1>2, <1>3
  <2> QED
    BY <1>6, <2>1, <2>2, Shifts, Zenon
<1>9. \A i \in P : f[i] = IF i - (-gap) \in gap .. (gap + at) - 1 THEN r.slots[Offset(r, i - (-gap))]
                          ELSE IF i \in gap .. (gap + at) - 1 THEN Empty ELSE r.slots[Offset(r, i)]
  BY <1>3
<1> HIDE DEF f, slots
<1>10. /\ m.slots = m1.slots /\ m.capacity = c.capacity /\ m.begin = r.begin /\ m.length = c.length + gap
       /\ m \in Storages
  <2>1. m = [r EXCEPT !.slots = slots, !.length = @ + gap]
    BY <1>7 DEF Relocate, slots
  <2>2. c.length + gap \in Nat
    BY <1>1
  <2>3. m1 \in Storages /\ m1.slots = slots
    BY <1>5, <1>8 DEF Rearranged, Storages
  <2>4. slots \in Arrays
    BY <2>3 DEF Storages
  <2> HIDE DEF m
  <2> QED
    BY <1>3, <1>5, <2>1, <2>2, <2>3, <2>4 DEF Storages
<1> HIDE DEF m1, m
<1>11. \A i \in P : Offset(m, i) = Offset(r, i)
  BY <1>3, <1>10 DEF Offset
<1>12. ASSUME NEW i \in P
       PROVE  r.slots[Offset(r, i)] = IF i >= gap /\ i < Len(q) + gap THEN q[i - gap + 1] ELSE Empty
  <2>1. CASE i >= gap
    <3>1. i - gap \in P /\ (i - gap < c.length <=> i < Len(q) + gap) /\ i \in gap .. c.capacity - 1
      BY <1>1, <2>1
    <3> QED
      BY <1>1, <1>3, <1>4, <2>1, <3>1
  <2>2. CASE ~(i >= gap)
    <3>1. /\ c.capacity - gap + i \in P /\ ~(c.capacity - gap + i < c.length)
          /\ i \in 0 .. gap - 1
      BY <1>1, <1>2, <2>2
    <3> QED
      BY <1>1, <1>3, <1>4, <2>2, <3>1
  <2> QED
    BY <2>1, <2>2
<1>13. ASSUME NEW i \in P, i \notin at .. at + gap - 1
       PROVE  m.slots[Offset(m, i)] = IF i < Len(q) + gap
                                      THEN IF i < at THEN q[i + 1] ELSE q[i - gap + 1]
                                      ELSE Empty
  <2>1. m.slots[Offset(m, i)] = f[i]
    BY <1>3, <1>8, <1>10, <1>11 DEF Rearranged
  <2>2. CASE i < at
    <3>1. /\ i - (-gap) = i + gap /\ i + gap \in gap .. (gap + at) - 1 /\ i + gap \in P
          /\ i < Len(q) + gap /\ i + gap >= gap /\ i + gap < Len(q) + gap /\ (i + gap) - gap = i
      <4>1. i \in Nat /\ gap \in Nat /\ at \in Nat /\ Len(q) = c.length /\ at <= c.length
            /\ c.length \in Nat /\ c.capacity \in Nat /\ c.length + gap <= c.capacity
        BY <1>1, <1>2
      <4>2. i + gap \in P
        BY <2>2, <4>1
      <4>3. i - (-gap) = i + gap
        BY <4>1
      <4> QED
        BY <2>2, <4>1, <4>2, <4>3
    <3>2. f[i] = r.slots[Offset(r, i + gap)]
      BY <1>9, <3>1
    <3> QED
      BY <1>12, <2>1, <2>2, <3>1, <3>2
  <2>3. CASE ~(i < at)
    <3>1. /\ i - (-gap) \notin gap .. (gap + at) - 1 /\ i \notin gap .. (gap + at) - 1 /\ i >= gap
      BY <1>1, <1>13, <2>3
    <3>2. f[i] = r.slots[Offset(r, i)]
      BY <1>9, <3>1
    <3> QED
      BY <1>12, <2>1, <2>3, <3>1, <3>2
  <2> QED
    BY <2>2, <2>3
<1>14. ASSUME NEW x \in DOMAIN c.slots, Outside(m, x) PROVE m.slots[x] = Empty
  <2>1. Outside(r, x)
    BY <1>3, <1>10, <1>11, <1>14 DEF Outside
  <2>2. m.slots[x] = c.slots[x]
    BY <1>3, <1>8, <1>10, <2>1 DEF Rearranged
  <2> QED
    BY <1>1, <1>4, <2>1, <2>2
<1>15. DOMAIN m.slots = DOMAIN c.slots /\ m.begin < c.capacity
  BY <1>3, <1>4, <1>8, <1>10 DEF Rearranged
<1>16. m.length = Len(q) + gap /\ m.length <= c.capacity
  BY <1>1, <1>2, <1>10
<1>17. Gapped(c, m, q, at, gap)
  BY <1>10, <1>13, <1>14, <1>15, <1>16 DEF Gapped
<1> QED
  BY <1>17 DEF m

LEMMA GrownHolds ==
    ASSUME SoundKind(kind), NEW c, NEW q, Holds(kind, c, q), NEW n \in Nat,
           NEW at \in 0 .. Len(q), NEW items \in Seq(Items), Roomy(kind, n, Len(q) + Len(items))
    PROVE  /\ Holds(kind, Grown(c, n, at, items), Spliced(q, at, items))
           /\ Grown(c, n, at, items).capacity
                = IF kind.stuffed THEN Len(q) + Len(items) ELSE Larger(n, kind.squeezed)
<1> DEFINE s == Spliced(q, at, items)
<1>1. Content(c) = q /\ c.length = Len(q) /\ q \in Seq(Items)
  BY ContentHeld, HeldItems
<1>2. s \in Seq(Items) /\ Len(s) = Len(q) + Len(items)
  BY <1>1, SplicedItems
<1>3. Grown(c, n, at, items) = SetLength(Construct(Storage(n), 0, s), Len(s))
  BY <1>1, <1>2 DEF Grown, Spliced
<1> HIDE DEF s
<1>4. Roomy(kind, n, Len(s))
  BY <1>2
<1>5. Holds(kind, Grown(c, n, at, items), s)
  BY <1>2, <1>3, <1>4, Fresh
<1>6. Grown(c, n, at, items).capacity = IF kind.stuffed THEN Len(s) ELSE Larger(n, kind.squeezed)
  BY <1>2, <1>3, <1>4, Fresh
<1> QED
  BY <1>2, <1>5, <1>6 DEF s

LEMMA Inserts ==
    ASSUME SoundKind(kind), NEW c, NEW q, Holds(kind, c, q),
           NEW at \in 0 .. Len(q), NEW items \in Seq(Items), items # <<>>, Growable(c, items)
    PROVE  Holds(kind, WithInserted(c, at, items), Spliced(q, at, items))
<1> DEFINE gap == Len(items)
<1>1. /\ c.capacity \in Nat /\ c.length \in Nat /\ c.length = Len(q) /\ c.length <= c.capacity
      /\ q \in Seq(Items)
  BY HeldItems
<1>2. gap \in Nat /\ gap > 0
  BY EmptySeq
<1>3. Shaped(kind, c)
  BY DEF Holds
<1>4. CASE Fits(c, items)
  <2>1. gap <= Remaining(c)
    BY <1>1, <1>2, <1>4 DEF Fits, Remaining
  <2>2. ~kind.stuffed
    BY <1>1, <1>2, <1>3, <2>1 DEF Remaining, Shaped
  <2>3. Gapped(c, MakeRoom(c, at, gap), q, at, gap)
    <3>1. CASE kind.circular /\ at * 2 < c.length
      <4> DEFINE r == [c EXCEPT !.begin = IF @ >= gap THEN @ - gap ELSE c.capacity - (gap - @)]
                 m == [r EXCEPT !.slots = Relocate(@, Forwards(r, gap, gap + at, -gap)), !.length = @ + gap]
      <4>1. Gapped(c, m, q, at, gap)
        <5>1. BegunBefore(r, c, gap)
          BY DEF BegunBefore
        <5> HIDE DEF r
        <5> QED
          BY <1>2, <2>1, <3>1, <5>1, RoomBefore
      <4>2. MakeRoom(c, at, gap) = m
        BY <3>1 DEF MakeRoom
      <4> QED
        BY <4>1, <4>2
    <3>2. CASE ~(kind.circular /\ at * 2 < c.length)
      <4> DEFINE m == [c EXCEPT !.slots = Relocate(@, Backwards(c, at, c.length, gap)), !.length = @ + gap]
      <4>1. Gapped(c, m, q, at, gap)
        BY <1>2, <2>1, <2>2, RoomBehind
      <4>2. MakeRoom(c, at, gap) = m
        BY <3>2, Zenon DEF MakeRoom
      <4> QED
        BY <4>1, <4>2
    <3> QED
      BY <3>1, <3>2
  <2>4. Holds(kind, Construct(MakeRoom(c, at, Len(items)), at, items), Spliced(q, at, items))
    BY <1>1, <1>3, <2>2, <2>3, GapFilled
  <2> QED
    BY <1>4, <2>4 DEF WithInserted
<1>5. CASE ~Fits(c, items)
  <2> DEFINE n == c.capacity + Extra(c, items)
  <2>1. ~(c.capacity - c.length >= gap) /\ ~kind.only
    BY <1>5 DEF Fits, Remaining, Growable
  <2>2. Extra(c, items) = IF gap > 1 THEN gap - (c.capacity - c.length)
                          ELSE IF ~kind.stuffed /\ c.capacity > 0 THEN c.capacity ELSE 1
    BY DEF Extra, Remaining
  <2>3. kind.stuffed => c.capacity = c.length
    BY <1>3 DEF Shaped
  <2>4. kind.squeezed \in Nat /\ kind.stuffed \in BOOLEAN
    BY DEF SoundKind, Configurations
  <2> HIDE DEF gap
  <2>5. Extra(c, items) \in Nat
    BY <1>1, <1>2, <2>1, <2>2
  <2>6. n \in Nat /\ n >= c.length + gap /\ (kind.stuffed => n = c.length + gap)
    BY <1>1, <1>2, <2>1, <2>2, <2>3, <2>5
  <2> HIDE DEF n
  <2>7. Roomy(kind, n, Len(q) + gap)
    BY <1>1, <1>2, <2>1, <2>4, <2>6 DEF Roomy, Larger
  <2>8. Holds(kind, Grown(c, n, at, items), Spliced(q, at, items))
    BY <2>6, <2>7, GrownHolds DEF gap
  <2> QED
    BY <1>5, <2>8 DEF WithInserted, n
<1> QED
  BY <1>4, <1>5

LEMMA Expands ==
    ASSUME SoundKind(kind), ~kind.only, ~kind.stuffed, NEW c, NEW q, Holds(kind, c, q),
           NEW n \in Nat, n >= c.capacity
    PROVE  Holds(kind, Grown(c, n, 0, <<>>), Spliced(q, 0, <<>>)) /\ Len(Spliced(q, 0, <<>>)) = Len(q)
<1>1. /\ c.capacity \in Nat /\ c.length = Len(q) /\ c.length <= c.capacity /\ q \in Seq(Items)
      /\ Len(q) \in Nat
  BY HeldItems
<1>2. <<>> \in Seq(Items) /\ Len(<<>>) = 0 /\ 0 \in 0 .. Len(q) /\ Len(q) + Len(<<>>) = Len(q)
  BY <1>1
<1>3. kind.squeezed \in Nat
  BY DEF SoundKind, Configurations
<1>4. Len(q) <= Larger(n, kind.squeezed)
  BY <1>1, <1>3 DEF Larger
<1>5. Roomy(kind, n, Len(q) + Len(<<>>))
  <2>1. Roomy(kind, n, Len(q))
    BY <1>4 DEF Roomy
  <2> QED
    BY <1>2, <2>1
<1> QED
  BY <1>1, <1>2, <1>5, GrownHolds, SplicedItems

-----------------------------------------------------------------------------
(***************************************************************************)
(* Erasing in place.                                                       *)
(***************************************************************************)

\* d has the array of c, with the items of q in it, and its length is yet to be set.
Filed(c, d, q) ==
    /\ d \in Storages /\ DOMAIN d.slots = DOMAIN c.slots /\ d.capacity = c.capacity
    /\ d.begin = 0 \/ d.begin < c.capacity
    /\ ~kind.circular => d.begin = 0
    /\ q \in Seq(Items) /\ Len(q) <= c.capacity
    /\ \A i \in 0 .. c.capacity - 1 :
            d.slots[Offset(d, i)] = IF i < Len(q) THEN q[i + 1] ELSE Empty
    /\ \A x \in DOMAIN c.slots : Outside(d, x) => d.slots[x] = Empty

LEMMA LengthSet ==
    ASSUME SoundKind(kind), NEW c, Shaped(kind, c), kind.stuffed => c.capacity <= kind.squeezed,
           NEW d, NEW q, Filed(c, d, q)
    PROVE  Holds(kind, SetLength(d, Len(q)), q)
<1> DEFINE e == SetLength(d, Len(q))
<1>1. /\ c.capacity \in Nat /\ kind.squeezed \in Nat /\ kind.stuffed \in BOOLEAN
      /\ kind.only => c.capacity <= kind.squeezed
  BY ShapeTypes DEF Shaped
<1>2. Len(q) \in Nat /\ Len(q) <= c.capacity
  BY DEF Filed
<1>3. CASE ~kind.stuffed
  <2>1. e = [d EXCEPT !.length = Len(q)]
    BY <1>3 DEF SetLength, Filed, Storages
  <2>2. e \in Storages /\ e.length = Len(q) /\ e.capacity = d.capacity /\ e.begin = d.begin /\ e.slots = d.slots
    BY <1>2, <2>1 DEF Filed, Storages
  <2> HIDE DEF e
  <2>3. \A i \in 0 .. c.capacity - 1 : Offset(e, i) = Offset(d, i)
    BY <2>2 DEF Offset
  <2>4. \A x : Outside(e, x) => Outside(d, x)
    BY <2>2, <2>3 DEF Outside, Filed
  <2>5. /\ \A i \in 0 .. c.capacity - 1 : e.slots[Offset(e, i)] = IF i < Len(q) THEN q[i + 1] ELSE Empty
        /\ \A x \in DOMAIN c.slots : Outside(e, x) => e.slots[x] = Empty
    BY <2>2, <2>3, <2>4 DEF Filed
  <2>6. /\ DOMAIN e.slots = DOMAIN c.slots /\ e.capacity = c.capacity
        /\ e.begin = 0 \/ e.begin < c.capacity
        /\ ~kind.circular => e.begin = 0
        /\ q \in Seq(Items)
    BY <2>2 DEF Filed
  <2>7. Holds(kind, e, q)
    BY <1>2, <1>3, <2>2, <2>5, <2>6, Refilled
  <2> QED
    BY <2>7 DEF e
<1>4. CASE kind.stuffed
  <2>1. d.begin = 0
    BY <1>4 DEF Filed, SoundKind
  <2>2. e = [d EXCEPT !.length = Len(q), !.capacity = Len(q)]
    BY <1>4 DEF SetLength, Filed, Storages
  <2>3. e \in Storages /\ e.length = Len(q) /\ e.capacity = Len(q) /\ e.begin = 0 /\ e.slots = d.slots
    BY <1>2, <2>1, <2>2 DEF Filed, Storages
  <2> HIDE DEF e
  <2>4. \A i \in 0 .. c.capacity - 1 : Offset(d, i) = i
    BY <1>1, <2>1 DEF Offset, Filed
  <2>5. \A i \in 0 .. Len(q) - 1 : Offset(e, i) = i /\ i \in 0 .. c.capacity - 1
    BY <1>1, <1>2, <2>3 DEF Offset
  <2>6. Shaped(kind, e)
    <3>1. DOMAIN e.slots = 0 .. Larger(c.capacity, kind.squeezed) - 1
      BY <2>3 DEF Filed, Shaped
    <3>2. Larger(c.capacity, kind.squeezed) = Larger(Len(q), kind.squeezed)
      BY <1>1, <1>2, <1>4 DEF Larger
    <3>3. kind.only => e.capacity <= kind.squeezed
      BY <1>1, <1>2, <2>3
    <3> QED
      BY <1>2, <1>4, <2>3, <3>1, <3>2, <3>3 DEF Shaped
  <2>7. ASSUME NEW x \in DOMAIN e.slots, Outside(e, x) PROVE e.slots[x] = Empty
    <3>1. CASE x \in 0 .. c.capacity - 1
      <4>1. ~(x < Len(q))
        BY <1>1, <1>2, <2>3, <2>5, <2>7, <3>1 DEF Outside
      <4> QED
        BY <2>3, <2>4, <3>1, <4>1 DEF Filed
    <3>2. CASE x \notin 0 .. c.capacity - 1
      <4>1. Outside(d, x)
        BY <2>4, <3>2 DEF Outside, Filed
      <4> QED
        BY <2>3, <4>1 DEF Filed
    <3> QED
      BY <3>1, <3>2
  <2>8. \A i \in 0 .. e.capacity - 1 : e.slots[Offset(e, i)] = IF i < e.length THEN q[i + 1] ELSE Empty
    BY <1>2, <2>3, <2>4, <2>5 DEF Filed
  <2>9. FilledWith(e, q)
    BY <2>3, <2>7, <2>8 DEF FilledWith, Filed
  <2> QED
    BY <2>6, <2>9 DEF Holds, e
<1> QED
  BY <1>1, <1>3, <1>4

LEMMA TurnedOn ==
    ASSUME NEW c, Sound(c), NEW r, r.capacity = c.capacity, NEW n \in 0 .. c.capacity,
           c.begin + n <= c.capacity, c.capacity > 0,
           r.begin = IF c.begin + n >= c.capacity THEN 0 ELSE c.begin + n
    PROVE  /\ r.begin \in Nat /\ r.begin < c.capacity
           /\ \A i \in 0 .. c.capacity - n - 1 : Offset(r, i) = Offset(c, i + n)
           /\ \A i \in c.capacity - n .. c.capacity - 1 : Offset(r, i) = Offset(c, i - (c.capacity - n))
           /\ \A x : Outside(r, x) => Outside(c, x)
<1>1. c.capacity \in Nat /\ c.begin \in Nat /\ c.begin < c.capacity
  BY DEF Sound, Storages
<1>2. r.begin \in Nat /\ r.begin < c.capacity
  BY <1>1
<1>3. \A i \in 0 .. c.capacity - n - 1 : Offset(r, i) = Offset(c, i + n)
  BY <1>1, <1>2 DEF Offset
<1>4. \A i \in c.capacity - n .. c.capacity - 1 : Offset(r, i) = Offset(c, i - (c.capacity - n))
  BY <1>1, <1>2 DEF Offset
<1>5. ASSUME NEW x, Outside(r, x), NEW i \in 0 .. c.capacity - 1 PROVE Offset(c, i) # x
  <2>1. CASE i >= n
    <3>1. i - n \in 0 .. c.capacity - n - 1 /\ i - n \in 0 .. c.capacity - 1 /\ (i - n) + n = i
      BY <1>1, <2>1
    <3> QED
      BY <1>3, <1>5, <3>1 DEF Outside
  <2>2. CASE ~(i >= n)
    <3>0. PICK e \in Int : e = c.capacity - n
      BY <1>1
    <3>1. PICK j \in c.capacity - n .. c.capacity - 1 : j - (c.capacity - n) = i
      <4>1. i + e \in c.capacity - n .. c.capacity - 1 /\ (i + e) - e = i
        BY <1>1, <2>2, <3>0
      <4> QED
        BY <3>0, <4>1
    <3>2. j \in 0 .. c.capacity - 1
      BY <1>1
    <3> QED
      BY <1>4, <1>5, <3>1, <3>2 DEF Outside
  <2> QED
    BY <2>1, <2>2
<1> QED
  BY <1>2, <1>3, <1>4, <1>5 DEF Outside

\* The items that are moved over what is erased, from behind it or from in front of it.
Closed(c, first, last, by) ==
    [c EXCEPT !.slots = Carried(c.slots, Path(c, first, last, by), Moved)]

\* m is c with what has become of its slots by that.
ClosedUp(c, m, first, last, by) ==
    /\ Sound(m) /\ m.capacity = c.capacity /\ m.begin = c.begin /\ m.length = c.length
    /\ DOMAIN m.slots = DOMAIN c.slots
    /\ \A i : Offset(m, i) = Offset(c, i)
    /\ \A i \in 0 .. c.capacity - 1 : m.slots[Offset(c, i)] =
            IF i - by \in first .. last - 1 THEN c.slots[Offset(c, i - by)]
            ELSE IF i \in first .. last - 1 THEN Moved ELSE c.slots[Offset(c, i)]
    /\ \A x \in DOMAIN c.slots : Outside(c, x) => m.slots[x] = c.slots[x]

LEMMA Closes ==
    ASSUME NEW c, Sound(c), NEW first \in Nat, NEW last \in Nat, NEW by \in Int, by # 0, first <= last,
           first + by >= 0, last <= c.capacity, last + by <= c.capacity
    PROVE  ClosedUp(c, Closed(c, first, last, by), first, last, by)
<1> DEFINE m == Closed(c, first, last, by)
           f == [i \in 0 .. c.capacity - 1 |->
                    IF i - by \in first .. last - 1 THEN c.slots[Offset(c, i - by)]
                    ELSE IF i \in first .. last - 1 THEN Moved ELSE c.slots[Offset(c, i)]]
<1>1. Rearranged(c, m, f)
  <2>1. Moved \in {Empty, Moved}
    OBVIOUS
  <2> QED
    BY <2>1, Shifts, Zenon DEF Closed
<1>2. \A i \in 0 .. c.capacity - 1 : f[i] =
            IF i - by \in first .. last - 1 THEN c.slots[Offset(c, i - by)]
            ELSE IF i \in first .. last - 1 THEN Moved ELSE c.slots[Offset(c, i)]
  OBVIOUS
<1> HIDE DEF m, f
<1>3. Sound(m) /\ m.capacity = c.capacity /\ m.begin = c.begin /\ m.length = c.length
      /\ DOMAIN m.slots = DOMAIN c.slots
  BY <1>1 DEF Rearranged, Sound
<1>4. \A i : Offset(m, i) = Offset(c, i)
  BY <1>3 DEF Offset
<1>5. \A i \in 0 .. c.capacity - 1 : m.slots[Offset(c, i)] =
            IF i - by \in first .. last - 1 THEN c.slots[Offset(c, i - by)]
            ELSE IF i \in first .. last - 1 THEN Moved ELSE c.slots[Offset(c, i)]
  BY <1>1, <1>2 DEF Rearranged
<1>6. \A x \in DOMAIN c.slots : Outside(c, x) => m.slots[x] = c.slots[x]
  BY <1>1 DEF Rearranged
<1> QED
  BY <1>3, <1>4, <1>5, <1>6 DEF m, ClosedUp

\* m is c without what was in some of its slots.
Cleared(c, m, first, last) ==
    /\ Sound(m) /\ m.capacity = c.capacity /\ m.begin = c.begin /\ m.length = c.length
    /\ DOMAIN m.slots = DOMAIN c.slots
    /\ \A i : Offset(m, i) = Offset(c, i)
    /\ \A i \in 0 .. c.capacity - 1 : m.slots[Offset(c, i)] =
            IF i \in first .. last - 1 THEN Empty ELSE c.slots[Offset(c, i)]
    /\ \A x \in DOMAIN c.slots : Outside(c, x) => m.slots[x] = c.slots[x]

LEMMA Clears ==
    ASSUME NEW c, Sound(c), NEW first \in Nat, NEW last \in Nat, last <= c.capacity
    PROVE  Cleared(c, Destruct(c, first, last), first, last)
<1> DEFINE m == Destruct(c, first, last)
           f == [i \in 0 .. c.capacity - 1 |-> IF i \in first .. last - 1 THEN Empty ELSE c.slots[Offset(c, i)]]
<1>1. Rearranged(c, m, f)
  BY Destructs, Zenon
<1>2. \A i \in 0 .. c.capacity - 1 : f[i] = IF i \in first .. last - 1 THEN Empty ELSE c.slots[Offset(c, i)]
  OBVIOUS
<1> HIDE DEF m, f
<1>3. Sound(m) /\ m.capacity = c.capacity /\ m.begin = c.begin /\ m.length = c.length
      /\ DOMAIN m.slots = DOMAIN c.slots
  BY <1>1 DEF Rearranged, Sound
<1>4. \A i : Offset(m, i) = Offset(c, i)
  BY <1>3 DEF Offset
<1>5. \A i \in 0 .. c.capacity - 1 : m.slots[Offset(c, i)] =
            IF i \in first .. last - 1 THEN Empty ELSE c.slots[Offset(c, i)]
  BY <1>1, <1>2 DEF Rearranged
<1>6. \A x \in DOMAIN c.slots : Outside(c, x) => m.slots[x] = c.slots[x]
  BY <1>1 DEF Rearranged
<1> QED
  BY <1>3, <1>4, <1>5, <1>6 DEF m, Cleared

LEMMA ErasesBehind ==
    ASSUME SoundKind(kind), NEW c, NEW q, Holds(kind, c, q), kind.stuffed => Squeezed(c),
           NEW to \in 0 .. Len(q), NEW from \in 0 .. to, from < to
    PROVE  Holds(kind, InPlacePopBack(
                    [c EXCEPT !.slots = MoveAssign(@, Forwards(c, to, c.length, from - to))], to - from),
                 CutOut(q, from, to))
<1> DEFINE P == 0 .. c.capacity - 1
           n == to - from
           m == Closed(c, to, c.length, from - to)
           d == Destruct(m, c.length - n, c.length)
           s == CutOut(q, from, to)
<1>1. /\ Sound(c) /\ c \in Storages /\ c.capacity \in Nat /\ c.length \in Nat /\ c.begin \in Nat
      /\ c.length = Len(q) /\ c.length <= c.capacity /\ q \in Seq(Items)
      /\ \A i \in P : c.slots[Offset(c, i)] = IF i < c.length THEN q[i + 1] ELSE Empty
      /\ \A x \in DOMAIN c.slots : Outside(c, x) => c.slots[x] = Empty
  BY HeldItems
<1>2. Shaped(kind, c)
  BY DEF Holds
<1>3. [c EXCEPT !.slots = MoveAssign(@, Forwards(c, to, c.length, from - to))] = m
  BY DEF MoveAssign, Closed, Path
<1>4. /\ s \in Seq(Items) /\ Len(s) = Len(q) - n
      /\ \A i \in 0 .. Len(q) - n - 1 : s[i + 1] = IF i < from THEN q[i + 1] ELSE q[i + n + 1]
  BY <1>1, CutOutItems
<1>1a. /\ Sound(c) /\ c.capacity \in Nat /\ c.length \in Nat /\ c.length = Len(q) /\ c.length <= c.capacity
  BY <1>1
<1>5. n \in Nat /\ n > 0 /\ from - to = -n /\ to \in Nat /\ from \in Nat /\ to = from + n /\ to <= c.length
      /\ c.length - n \in Nat
  BY <1>1
<1> HIDE DEF n, s
<1>6. ClosedUp(c, m, to, c.length, from - to)
  <2>1. /\ from - to \in Int /\ from - to # 0 /\ to <= c.length /\ to + (from - to) >= 0
        /\ c.length + (from - to) <= c.capacity
    <3>1. from \in Int /\ to \in Int /\ from >= 0
      BY <1>5
    <3>2. from - to \in Int /\ from - to < 0 /\ to + (from - to) = from
      BY <3>1
    <3>3. c.length + (from - to) <= c.capacity
      BY <1>1a, <3>1
    <3> QED
      BY <1>5, <3>1, <3>2, <3>3
  <2>2. Sound(c) /\ to \in Nat /\ c.length \in Nat /\ c.length <= c.capacity
    BY <1>1a, <1>5
  <2> QED
    BY <2>1, <2>2, Closes
<1> HIDE DEF m
<1>7. /\ Cleared(m, d, c.length - n, c.length)
      /\ Sound(d) /\ d.capacity = c.capacity /\ d.begin = c.begin /\ DOMAIN d.slots = DOMAIN c.slots
  <2>1. Sound(m) /\ c.length - n \in Nat /\ c.length \in Nat /\ c.length <= m.capacity
    BY <1>1a, <1>5, <1>6 DEF ClosedUp
  <2>2. Cleared(m, d, c.length - n, c.length)
    BY <2>1, Clears
  <2> HIDE DEF d
  <2> QED
    BY <1>6, <2>2 DEF ClosedUp, Cleared
<1> HIDE DEF d
<1>7a. ASSUME NEW i \in P
       PROVE  d.slots[Offset(d, i)] =
                IF i \in c.length - n .. c.length - 1 THEN Empty
                ELSE IF i - (from - to) \in to .. c.length - 1 THEN c.slots[Offset(c, i - (from - to))]
                ELSE IF i \in to .. c.length - 1 THEN Moved ELSE c.slots[Offset(c, i)]
  <2>1. Offset(d, i) = Offset(m, i) /\ Offset(m, i) = Offset(c, i) /\ i \in 0 .. m.capacity - 1
    BY <1>6, <1>7 DEF ClosedUp, Cleared
  <2>2. d.slots[Offset(m, i)] = IF i \in c.length - n .. c.length - 1 THEN Empty ELSE m.slots[Offset(m, i)]
    BY <1>7, <2>1 DEF Cleared
  <2>3. m.slots[Offset(c, i)] =
            IF i - (from - to) \in to .. c.length - 1 THEN c.slots[Offset(c, i - (from - to))]
            ELSE IF i \in to .. c.length - 1 THEN Moved ELSE c.slots[Offset(c, i)]
    BY <1>6 DEF ClosedUp
  <2> QED
    BY <2>1, <2>2, <2>3
<1>8. ASSUME NEW i \in P PROVE d.slots[Offset(d, i)] = IF i < Len(s) THEN s[i + 1] ELSE Empty
  <2>1. CASE i < from
    <3>1. /\ i \notin c.length - n .. c.length - 1 /\ i - (from - to) \notin to .. c.length - 1
          /\ i \notin to .. c.length - 1 /\ i < c.length /\ i < Len(s) /\ i \in 0 .. Len(q) - n - 1
      BY <1>1, <1>4, <1>5, <2>1
    <3> QED
      BY <1>1, <1>4, <1>7a, <2>1, <3>1
  <2>2. CASE i >= from /\ i < c.length - n
    <3>1. /\ i \notin c.length - n .. c.length - 1 /\ i - (from - to) \in to .. c.length - 1
          /\ i - (from - to) = i + n /\ i + n \in P /\ i + n < c.length
          /\ i < Len(s) /\ i \in 0 .. Len(q) - n - 1 /\ ~(i < from)
      <4>1. Len(s) = c.length - n
        BY <1>1a, <1>4
      <4>2. i - (from - to) = i + n
        BY <1>5, <2>2
      <4>3. i + n \in to .. c.length - 1 /\ i + n \in P
        BY <1>1a, <1>5, <2>2
      <4> QED
        BY <1>1a, <1>5, <2>2, <4>1, <4>2, <4>3
    <3>2. d.slots[Offset(d, i)] = c.slots[Offset(c, i + n)]
      BY <1>7a, <3>1
    <3> QED
      BY <1>1, <1>4, <3>1, <3>2
  <2>3. CASE i >= c.length - n
    <3>1. /\ ~(i < Len(s)) /\ i - (from - to) \notin to .. c.length - 1
          /\ i \in c.length - n .. c.length - 1 \/ (~(i < c.length) /\ i \notin to .. c.length - 1)
      BY <1>1, <1>4, <1>5, <2>3
    <3> QED
      BY <1>1, <1>7a, <3>1
  <2>4. i < from \/ (i >= from /\ i < c.length - n) \/ i >= c.length - n
    BY <1>1, <1>5
  <2> QED
    BY <2>1, <2>2, <2>3, <2>4
<1>9. \A x \in DOMAIN c.slots : Outside(d, x) => d.slots[x] = Empty
  <2>1. \A x : Outside(d, x) => Outside(c, x) /\ Outside(m, x)
    BY <1>6, <1>7 DEF Outside, ClosedUp, Cleared
  <2> QED
    BY <1>1, <1>6, <1>7, <2>1 DEF ClosedUp, Cleared
<1>10. Len(s) \in Nat /\ Len(s) <= c.capacity /\ Len(s) = c.length - n
  BY <1>1, <1>4, <1>5
<1>11. /\ d \in Storages
       /\ d.begin = 0 \/ d.begin < c.capacity
       /\ ~kind.circular => d.begin = 0
  BY <1>2, <1>7 DEF Sound, Shaped
<1>12. Filed(c, d, s)
  BY <1>4, <1>7, <1>8, <1>9, <1>10, <1>11 DEF Filed
<1>13. kind.stuffed => c.capacity <= kind.squeezed
  BY <1>2 DEF Squeezed, Shaped
<1>14. Holds(kind, SetLength(d, Len(s)), s)
  BY <1>2, <1>12, <1>13, LengthSet
<1>15. InPlacePopBack(m, n) = SetLength(d, Len(s))
  BY <1>6, <1>10 DEF InPlacePopBack, d, ClosedUp
<1> QED
  BY <1>3, <1>14, <1>15 DEF s, n

\* In a ring, in front of what is erased.
LEMMA ErasesBefore ==
    ASSUME SoundKind(kind), kind.circular, NEW c, NEW q, Holds(kind, c, q),
           NEW to \in 0 .. Len(q), NEW from \in 0 .. to, from < to, c.begin + (to - from) <= c.capacity
    PROVE  Holds(kind, InPlacePopFront(
                    [c EXCEPT !.slots = MoveAssign(@, Backwards(c, 0, from, to - from))], to - from),
                 CutOut(q, from, to))
<1> DEFINE P == 0 .. c.capacity - 1
           n == to - from
           m == Closed(c, 0, from, to - from)
           d == Destruct(m, 0, n)
           r == [d EXCEPT !.begin = IF @ + n >= c.capacity THEN 0 ELSE @ + n]
           s == CutOut(q, from, to)
<1>1. /\ Sound(c) /\ c \in Storages /\ c.capacity \in Nat /\ c.length \in Nat /\ c.begin \in Nat
      /\ c.length = Len(q) /\ c.length <= c.capacity /\ q \in Seq(Items)
      /\ \A i \in P : c.slots[Offset(c, i)] = IF i < c.length THEN q[i + 1] ELSE Empty
      /\ \A x \in DOMAIN c.slots : Outside(c, x) => c.slots[x] = Empty
  BY HeldItems
<1>2. Shaped(kind, c)
  BY DEF Holds
<1>3. /\ s \in Seq(Items) /\ Len(s) = Len(q) - n
      /\ \A i \in 0 .. Len(q) - n - 1 : s[i + 1] = IF i < from THEN q[i + 1] ELSE q[i + n + 1]
  BY <1>1, CutOutItems
<1>4. /\ c.capacity \in Nat /\ c.length \in Nat /\ c.length = Len(q) /\ c.length <= c.capacity
      /\ n \in Nat /\ n > 0 /\ to \in Nat /\ from \in Nat /\ to = from + n /\ to <= c.length
      /\ c.length - n \in Nat /\ n <= c.capacity /\ c.capacity > 0 /\ c.begin + n <= c.capacity
  BY <1>1
<1>5. [c EXCEPT !.slots = MoveAssign(@, Backwards(c, 0, from, to - from))] = m
  BY DEF MoveAssign, Closed, Path
<1> HIDE DEF n, s
<1>6. ClosedUp(c, m, 0, from, n)
  <2>1. n \in Int /\ n # 0 /\ 0 <= from /\ 0 + n >= 0 /\ from <= c.capacity /\ from + n <= c.capacity
    BY <1>4
  <2>2. Sound(c) /\ 0 \in Nat /\ from \in Nat
    BY <1>1, <1>4
  <2> QED
    BY <2>1, <2>2, Closes DEF n
<1> HIDE DEF m
<1>7. Cleared(m, d, 0, n)
  <2>1. Sound(m) /\ 0 \in Nat /\ n \in Nat /\ n <= m.capacity
    BY <1>4, <1>6 DEF ClosedUp
  <2> QED
    BY <2>1, Clears
<1> HIDE DEF d
<1>8. Sound(d) /\ d.capacity = c.capacity /\ d.begin = c.begin /\ DOMAIN d.slots = DOMAIN c.slots
  BY <1>6, <1>7 DEF ClosedUp, Cleared
<1>9. /\ r.capacity = d.capacity /\ r.slots = d.slots /\ r.length = d.length
      /\ r.begin = IF d.begin + n >= d.capacity THEN 0 ELSE d.begin + n
      /\ r.begin \in Nat => r \in Storages
  <2>1. d \in Storages
    BY <1>8 DEF Sound
  <2>2. r = [d EXCEPT !.begin = IF d.begin + n >= c.capacity THEN 0 ELSE d.begin + n]
    OBVIOUS
  <2> DEFINE b == IF d.begin + n >= c.capacity THEN 0 ELSE d.begin + n
  <2>3. b \in Nat
    BY <1>1, <1>4, <1>8
  <2> HIDE DEF r, b
  <2>4. r = [d EXCEPT !.begin = b]
    BY <2>2 DEF b
  <2>5. /\ r.capacity = d.capacity /\ r.slots = d.slots /\ r.length = d.length /\ r.begin = b
        /\ r \in Storages
    BY <2>1, <2>3, <2>4 DEF Storages
  <2> QED
    BY <1>8, <2>5 DEF b
<1> HIDE DEF r
<1>10. /\ r.begin \in Nat /\ r.begin < c.capacity
       /\ \A i \in 0 .. c.capacity - n - 1 : Offset(r, i) = Offset(d, i + n)
       /\ \A i \in c.capacity - n .. c.capacity - 1 : Offset(r, i) = Offset(d, i - (c.capacity - n))
       /\ \A x : Outside(r, x) => Outside(d, x)
  <2>1. Sound(d) /\ r.capacity = d.capacity /\ n \in 0 .. d.capacity
        /\ d.begin + n <= d.capacity /\ d.capacity > 0
    BY <1>4, <1>8, <1>9
  <2>2. r.begin = IF d.begin + n >= d.capacity THEN 0 ELSE d.begin + n
    BY <1>9
  <2> QED
    BY <1>8, <2>1, <2>2, TurnedOn
<1>11. ASSUME NEW i \in P
       PROVE  d.slots[Offset(d, i)] =
                IF i \in 0 .. n - 1 THEN Empty
                ELSE IF i - n \in 0 .. from - 1 THEN c.slots[Offset(c, i - n)]
                ELSE IF i \in 0 .. from - 1 THEN Moved ELSE c.slots[Offset(c, i)]
  <2>1. Offset(d, i) = Offset(m, i) /\ Offset(m, i) = Offset(c, i) /\ i \in 0 .. m.capacity - 1
    BY <1>6, <1>7 DEF ClosedUp, Cleared
  <2>2. d.slots[Offset(m, i)] = IF i \in 0 .. n - 1 THEN Empty ELSE m.slots[Offset(m, i)]
    BY <1>7, <2>1 DEF Cleared
  <2>3. m.slots[Offset(c, i)] =
            IF i - n \in 0 .. from - 1 THEN c.slots[Offset(c, i - n)]
            ELSE IF i \in 0 .. from - 1 THEN Moved ELSE c.slots[Offset(c, i)]
    BY <1>6 DEF ClosedUp
  <2> QED
    BY <2>1, <2>2, <2>3
<1>12. ASSUME NEW i \in P PROVE r.slots[Offset(r, i)] = IF i < Len(s) THEN s[i + 1] ELSE Empty
  <2>0. i \in Nat /\ Len(s) = c.length - n
    BY <1>3, <1>4
  <2>1. CASE i >= c.capacity - n
    <3>1. PICK j \in Int : j = i - (c.capacity - n)
      BY <1>4, <2>0
    <3>2. j \in P /\ j \in 0 .. n - 1 /\ i \in c.capacity - n .. c.capacity - 1 /\ ~(i < Len(s))
      BY <1>4, <2>0, <2>1, <3>1
    <3>3. Offset(r, i) = Offset(d, j)
      BY <1>10, <3>1, <3>2
    <3> QED
      BY <1>9, <1>11, <3>2, <3>3
  <2>2. CASE i < c.capacity - n
    <3>1. PICK j \in Int : j = i + n
      BY <1>4, <2>0
    <3>2. j \in P /\ j \notin 0 .. n - 1 /\ i \in 0 .. c.capacity - n - 1 /\ j - n = i /\ i \in P
      BY <1>4, <2>0, <2>2, <3>1
    <3>3. Offset(r, i) = Offset(d, j)
      BY <1>10, <3>1, <3>2
    <3>4. r.slots[Offset(r, i)] = IF i \in 0 .. from - 1 THEN c.slots[Offset(c, i)]
                                  ELSE IF j \in 0 .. from - 1 THEN Moved ELSE c.slots[Offset(c, j)]
      BY <1>9, <1>11, <3>2, <3>3
    <3>5. CASE i < from
      <4>1. i \in 0 .. from - 1 /\ i < c.length /\ i < Len(s) /\ i \in 0 .. Len(q) - n - 1
        BY <1>4, <2>0, <3>5
      <4> QED
        BY <1>1, <1>3, <3>2, <3>4, <3>5, <4>1
    <3>6. CASE ~(i < from)
      <4>1. i \notin 0 .. from - 1 /\ j \notin 0 .. from - 1
        BY <1>4, <2>0, <3>1, <3>6
      <4>2. r.slots[Offset(r, i)] = IF j < c.length THEN q[j + 1] ELSE Empty
        BY <1>1, <3>2, <3>4, <4>1
      <4>3. (j < c.length <=> i < Len(s)) /\ (i < Len(s) => i \in 0 .. Len(q) - n - 1)
        BY <1>4, <2>0, <3>1
      <4> QED
        BY <1>3, <3>1, <3>6, <4>2, <4>3
    <3> QED
      BY <3>5, <3>6
  <2> QED
    BY <1>4, <2>0, <2>1, <2>2
<1>13. \A x \in DOMAIN c.slots : Outside(r, x) => r.slots[x] = Empty
  <2>1. \A x : Outside(r, x) => Outside(c, x) /\ Outside(m, x)
    BY <1>6, <1>7, <1>10 DEF Outside, ClosedUp, Cleared
  <2> QED
    BY <1>1, <1>6, <1>7, <1>9, <2>1 DEF ClosedUp, Cleared
<1>14. Len(s) \in Nat /\ Len(s) <= c.capacity /\ Len(s) = c.length - n
  BY <1>3, <1>4
<1>15. r \in Storages /\ DOMAIN r.slots = DOMAIN c.slots /\ r.capacity = c.capacity
  BY <1>8, <1>9, <1>10
<1>16. Filed(c, r, s)
  BY <1>3, <1>10, <1>12, <1>13, <1>14, <1>15 DEF Filed
<1>17. ~kind.stuffed
  BY DEF SoundKind
<1>18. Holds(kind, SetLength(r, Len(s)), s)
  BY <1>2, <1>16, <1>17, LengthSet
<1>19. InPlacePopFront(m, n) = SetLength(r, Len(s))
  BY <1>6, <1>14 DEF InPlacePopFront, d, r, ClosedUp
<1> QED
  BY <1>5, <1>18, <1>19 DEF s, n

LEMMA ShrunkHolds ==
    ASSUME SoundKind(kind), ~kind.only, NEW c, NEW q, Holds(kind, c, q),
           NEW to \in 0 .. Len(q), NEW from \in 0 .. to
    PROVE  Holds(kind, Shrunk(c, from, to), CutOut(q, from, to))
<1> DEFINE s == CutOut(q, from, to)
<1>1. Content(c) = q /\ c.length = Len(q) /\ q \in Seq(Items)
  BY ContentHeld, HeldItems
<1>2. s \in Seq(Items)
  BY <1>1, CutOutItems
<1>3. Shrunk(c, from, to) = SetLength(Construct(Storage(Len(s)), 0, s), Len(s))
  BY <1>1 DEF Shrunk, CutOut
<1> HIDE DEF s
<1>4. kind.squeezed \in Nat /\ Len(s) \in Nat
  BY <1>2 DEF SoundKind, Configurations
<1>5. Roomy(kind, Len(s), Len(s))
  BY <1>4 DEF Roomy, Larger
<1> QED
  BY <1>2, <1>3, <1>4, <1>5, Fresh DEF s

LEMMA ErasesItems ==
    ASSUME SoundKind(kind), NEW c, NEW q, Holds(kind, c, q),
           NEW from \in Nat, NEW to \in Nat, NEW range \in BOOLEAN,
           Erasable(c, from, to, range), PopsTheErased(c, from, to, range)
    PROVE  Holds(kind, WithErased(c, from, to, range), CutOut(q, from, to))
<1>1. c.length = Len(q) /\ c.length \in Nat /\ c.capacity \in Nat /\ c.begin \in Nat
  BY HeldItems
<1>2. from < to /\ to \in 0 .. Len(q) /\ from \in 0 .. to
  BY <1>1 DEF Erasable
<1>3. Shaped(kind, c)
  BY DEF Holds
<1>4. CASE kind.stuffed /\ ~Squeezed(c)
  BY <1>2, <1>4, ShrunkHolds DEF WithErased, Squeezed
<1>5. CASE ~(kind.stuffed /\ ~Squeezed(c))
  <2>1. CASE kind.circular /\ from < c.length - to
    <3>1. IF range THEN to - from = from /\ c.begin + from <= c.capacity ELSE to = from + 1
      BY <2>1 DEF Erasable, PopsTheErased
    <3>2. c.begin + (to - from) <= c.capacity /\ (IF range THEN from ELSE 1) = to - from
      BY <1>1, <1>2, <1>3, <3>1 DEF Shaped
    <3>3. WithErased(c, from, to, range) = InPlacePopFront(
                [c EXCEPT !.slots = MoveAssign(@, Backwards(c, 0, from, to - from))], to - from)
      BY <1>5, <2>1, <3>2 DEF WithErased, InPlaceErase
    <3> QED
      BY <1>2, <2>1, <3>2, <3>3, ErasesBefore
  <2>2. CASE ~(kind.circular /\ from < c.length - to)
    <3>1. WithErased(c, from, to, range) = InPlacePopBack(
                [c EXCEPT !.slots = MoveAssign(@, Forwards(c, to, c.length, from - to))], to - from)
      BY <1>5, <2>2 DEF WithErased, InPlaceErase
    <3> QED
      BY <1>2, <1>5, <3>1, ErasesBehind
  <2> QED
    BY <2>1, <2>2
<1> QED
  BY <1>4, <1>5

LEMMA PopsBack ==
    ASSUME SoundKind(kind), ~kind.stuffed, NEW c, NEW q, Holds(kind, c, q), NEW n \in 1 .. c.length
    PROVE  \E s : Holds(kind, InPlacePopBack(c, n), s) /\ Len(s) = c.length - n
<1> DEFINE P == 0 .. c.capacity - 1
           d == Destruct(c, c.length - n, c.length)
           s == SubSeq(q, 1, Len(q) - n)
<1>1. /\ Sound(c) /\ c \in Storages /\ c.capacity \in Nat /\ c.length \in Nat /\ c.begin \in Nat
      /\ c.length = Len(q) /\ c.length <= c.capacity /\ q \in Seq(Items)
      /\ \A i \in P : c.slots[Offset(c, i)] = IF i < c.length THEN q[i + 1] ELSE Empty
      /\ \A x \in DOMAIN c.slots : Outside(c, x) => c.slots[x] = Empty
  BY HeldItems
<1>2. Shaped(kind, c)
  BY DEF Holds
<1>3. c.length - n \in Nat /\ c.length - n \in 0 .. Len(q) /\ Len(q) - n = c.length - n
  BY <1>1
<1>4. s \in Seq(Items) /\ Len(s) = c.length - n /\ \A i \in 1 .. c.length - n : s[i] = q[i]
  BY <1>1, <1>3, Parts
<1> HIDE DEF s
<1>5. Cleared(c, d, c.length - n, c.length)
  BY <1>1, <1>3, Clears
<1> HIDE DEF d
<1>6. ASSUME NEW i \in P PROVE d.slots[Offset(d, i)] = IF i < Len(s) THEN s[i + 1] ELSE Empty
  <2>1. d.slots[Offset(d, i)] =
            IF i \in c.length - n .. c.length - 1 THEN Empty ELSE c.slots[Offset(c, i)]
    BY <1>5 DEF Cleared
  <2>2. CASE i < Len(s)
    <3>1. i \notin c.length - n .. c.length - 1 /\ i < c.length /\ i + 1 \in 1 .. c.length - n
      BY <1>1, <1>4, <2>2
    <3> QED
      BY <1>1, <1>4, <2>1, <2>2, <3>1
  <2>3. CASE ~(i < Len(s))
    <3>1. i \in c.length - n .. c.length - 1 \/ ~(i < c.length)
      BY <1>1, <1>4, <2>3
    <3> QED
      BY <1>1, <2>1, <2>3, <3>1
  <2> QED
    BY <2>2, <2>3
<1>7. \A x \in DOMAIN c.slots : Outside(d, x) => d.slots[x] = Empty
  <2>1. \A x : Outside(d, x) => Outside(c, x)
    BY <1>5 DEF Outside, Cleared
  <2> QED
    BY <1>1, <1>5, <2>1 DEF Cleared
<1>8. Len(s) \in Nat /\ Len(s) <= c.capacity
  BY <1>1, <1>3, <1>4
<1>9. /\ d \in Storages /\ DOMAIN d.slots = DOMAIN c.slots /\ d.capacity = c.capacity
      /\ d.begin = 0 \/ d.begin < c.capacity
      /\ ~kind.circular => d.begin = 0
  BY <1>2, <1>5 DEF Cleared, Sound, Shaped
<1>10. Filed(c, d, s)
  BY <1>4, <1>6, <1>7, <1>8, <1>9 DEF Filed
<1>11. Holds(kind, SetLength(d, Len(s)), s)
  BY <1>2, <1>10, LengthSet
<1>12. InPlacePopBack(c, n) = SetLength(d, Len(s))
  BY <1>4 DEF InPlacePopBack, d
<1> QED
  BY <1>4, <1>11, <1>12

-----------------------------------------------------------------------------
(***************************************************************************)
(* Whole lists.                                                            *)
(***************************************************************************)
LEMMA SqueezedShape ==
    ASSUME SoundKind(kind), NEW c, Shaped(kind, c)
    PROVE  /\ Squeezed(c) <=> kind.only \/ (kind.squeezed > 0 /\ c.capacity <= kind.squeezed)
           /\ Squeezed(c) => c.capacity <= kind.squeezed
           /\ Block(c) = IF Squeezed(c) \/ c.capacity = 0 THEN 0 ELSE 1
BY DEF Squeezed, Block, Shaped

LEMMA CopiedHolds ==
    ASSUME SoundKind(kind), NEW c, NEW q, Holds(kind, c, q)
    PROVE  Holds(kind, Copied(c), q)
<1>1. Content(c) = q /\ c.length = Len(q) /\ q \in Seq(Items) /\ c.length <= c.capacity
      /\ c.capacity \in Nat /\ c.length \in Nat
  BY ContentHeld, HeldItems
<1>2. kind.squeezed \in Nat /\ (kind.only => c.capacity <= kind.squeezed)
  BY DEF SoundKind, Configurations, Holds, Shaped
<1>3. Roomy(kind, Len(q), Len(q))
  BY <1>1, <1>2 DEF Roomy, Larger
<1> QED
  BY <1>1, <1>3, Fresh DEF Copied

LEMMA InsideHolds ==
    ASSUME SoundKind(kind), NEW c, NEW q, Holds(kind, c, q), Squeezed(c)
    PROVE  Holds(kind, Inside(q), q) /\ Squeezed(Inside(q))
<1>1. c.length = Len(q) /\ q \in Seq(Items) /\ c.length <= c.capacity
      /\ c.capacity \in Nat /\ c.length \in Nat
  BY HeldItems
<1>2. /\ kind.squeezed \in Nat /\ c.capacity <= kind.squeezed /\ Shaped(kind, c)
      /\ kind.only \/ kind.squeezed > 0
  BY SqueezedShape DEF SoundKind, Configurations, Holds
<1>3. Len(q) <= kind.squeezed /\ Len(q) \in Nat
  BY <1>1, <1>2
<1>4. Roomy(kind, 0, Len(q))
  BY <1>2, <1>3 DEF Roomy, Larger
<1>5. /\ Holds(kind, Inside(q), q)
      /\ Inside(q).capacity = IF kind.stuffed THEN Len(q) ELSE Larger(0, kind.squeezed)
  BY <1>1, <1>4, Fresh DEF Inside
<1>6. Inside(q).capacity <= kind.squeezed
  BY <1>2, <1>3, <1>5 DEF Larger
<1> QED
  BY <1>2, <1>5, <1>6 DEF Squeezed

\* What swapWith makes of both lists holds what the other one held.
LEMMA SwapsItems ==
    ASSUME SoundKind(kind), NEW c, NEW q, Holds(kind, c, q), NEW d, NEW p, Holds(kind, d, p),
           SwapEndsWell(c, d)
    PROVE  Holds(kind, Swapped(c, d), q) /\ Block(Swapped(c, d)) = Block(c)
<1>1. /\ Content(c) = q /\ c.length = Len(q) /\ q \in Seq(Items) /\ c.length <= c.capacity
      /\ c.capacity \in Nat /\ c.length \in Nat
  BY ContentHeld, HeldItems
<1>2. Shaped(kind, c) /\ Shaped(kind, d)
  BY DEF Holds
<1>3. CASE ~Squeezed(c)
  BY <1>3 DEF Swapped
<1>4. CASE Squeezed(c) /\ ~Squeezed(d)
  BY <1>1, <1>4, InsideHolds DEF Swapped, Block
<1>5. CASE Squeezed(c) /\ Squeezed(d)
  <2> DEFINE P == 0 .. d.capacity - 1
             e == Destruct(d, 0, d.length)
             f == Construct(e, 0, q)
             g == [i \in 0 .. e.capacity - 1 |->
                    IF i \in 0 .. 0 + Len(q) - 1 THEN q[i - 0 + 1] ELSE e.slots[Offset(e, i)]]
  <2>1. /\ Sound(d) /\ d \in Storages /\ d.capacity \in Nat /\ d.length \in Nat /\ d.begin \in Nat
        /\ d.length <= d.capacity
        /\ \A i \in P : d.slots[Offset(d, i)] = IF i < d.length THEN p[i + 1] ELSE Empty
        /\ \A x \in DOMAIN d.slots : Outside(d, x) => d.slots[x] = Empty
    BY HeldItems
  <2>2. /\ c.capacity <= kind.squeezed /\ d.capacity <= kind.squeezed /\ kind.squeezed \in Nat
        /\ kind.stuffed \in BOOLEAN
    BY <1>2, <1>5, SqueezedShape DEF SoundKind, Configurations
  <2>3. Len(q) \in Nat /\ Len(q) <= d.capacity
    <3>1. CASE kind.stuffed
      BY <1>1, <1>5, <2>1, <3>1 DEF SwapEndsWell
    <3>2. CASE ~kind.stuffed
      BY <1>1, <1>2, <2>1, <2>2, <3>2 DEF Shaped
    <3> QED
      BY <2>2, <3>1, <3>2
  <2>4. Cleared(d, e, 0, d.length)
    BY <2>1, Clears
  <2> HIDE DEF e
  <2>5. Rearranged(e, f, g)
    <3>1. Sound(e) /\ 0 \in Nat /\ 0 + Len(q) <= e.capacity
      BY <2>3, <2>4 DEF Cleared
    <3> QED
      BY <1>1, <3>1, Constructs, Zenon
  <2>6. \A i \in P : g[i] = IF i \in 0 .. 0 + Len(q) - 1 THEN q[i - 0 + 1] ELSE e.slots[Offset(e, i)]
    BY <2>4 DEF Cleared
  <2> HIDE DEF f, g
  <2>7. /\ f \in Storages /\ DOMAIN f.slots = DOMAIN d.slots /\ f.capacity = d.capacity
        /\ f.begin = d.begin
    BY <2>4, <2>5 DEF Rearranged, Cleared
  <2>8. \A i \in P : Offset(f, i) = Offset(d, i) /\ Offset(e, i) = Offset(d, i)
    BY <2>4, <2>7 DEF Offset, Cleared
  <2>9. ASSUME NEW i \in P PROVE f.slots[Offset(f, i)] = IF i < Len(q) THEN q[i + 1] ELSE Empty
    <3>1. f.slots[Offset(f, i)] = g[i] /\ i \in Nat
      BY <2>1, <2>4, <2>5, <2>8 DEF Rearranged, Cleared
    <3>2. e.slots[Offset(e, i)] = Empty
      <4>1. e.slots[Offset(d, i)] = IF i \in 0 .. d.length - 1 THEN Empty ELSE d.slots[Offset(d, i)]
        BY <2>4 DEF Cleared
      <4>2. i \in 0 .. d.length - 1 \/ ~(i < d.length)
        BY <2>1
      <4> QED
        BY <2>1, <2>8, <4>1, <4>2
    <3>3. (i \in 0 .. 0 + Len(q) - 1 <=> i < Len(q)) /\ i - 0 + 1 = i + 1
      BY <2>3, <3>1
    <3> QED
      BY <2>6, <3>1, <3>2, <3>3
  <2>10. \A x \in DOMAIN d.slots : Outside(f, x) => f.slots[x] = Empty
    <3>1. \A x : Outside(f, x) => Outside(d, x) /\ Outside(e, x)
      BY <2>4, <2>7, <2>8 DEF Outside, Cleared
    <3> QED
      BY <2>1, <2>4, <2>5, <3>1 DEF Cleared, Rearranged
  <2>11. /\ f.begin = 0 \/ f.begin < d.capacity
         /\ ~kind.circular => f.begin = 0
    BY <1>2, <2>7 DEF Shaped
  <2>12. Filed(d, f, q)
    BY <1>1, <2>3, <2>7, <2>9, <2>10, <2>11 DEF Filed
  <2>13. Holds(kind, SetLength(f, Len(q)), q)
    BY <1>2, <2>2, <2>12, LengthSet
  <2>14. Swapped(c, d) = SetLength(f, Len(q))
    BY <1>1, <1>5 DEF Swapped, f, e
  <2>15. SetLength(f, Len(q)).capacity <= kind.squeezed
    <3>1. SetLength(f, Len(q)).capacity = IF kind.stuffed THEN Len(q) ELSE f.capacity
      BY <2>7 DEF SetLength, Storages
    <3> QED
      BY <2>1, <2>2, <2>3, <2>7, <3>1
  <2>16. Squeezed(SetLength(f, Len(q)))
    BY <1>5, <2>15 DEF Squeezed
  <2> QED
    BY <1>5, <2>13, <2>14, <2>16 DEF Block
<1> QED
  BY <1>3, <1>4, <1>5

-----------------------------------------------------------------------------
(***************************************************************************)
(* What there is of all lists.                                             *)
(***************************************************************************)
OfOthers(number, k) == UNION {{l} \X (1 .. number[l]) : l \in Lists \ {k}}

LEMMA TotalParts ==
    ASSUME NEW number, \A l \in Lists : number[l] \in Nat, NEW k \in Lists
    PROVE  /\ Cardinality(OfOthers(number, k)) \in Nat
           /\ Total(number) = Cardinality(OfOthers(number, k)) + number[k]
<1> DEFINE f == [l \in Lists \ {k} |-> {l} \X (1 .. number[l])]
           R == {{l} \X (1 .. number[l]) : l \in Lists \ {k}}
           T == {k} \X (1 .. number[k])
<1>1. IsFiniteSet(Lists \ {k})
  BY ListsAssumption, FS_Subset
<1>2. f \in Surjection(Lists \ {k}, R)
  <2>1. f \in [Lists \ {k} -> R]
    OBVIOUS
  <2>2. \A t \in R : \E l \in Lists \ {k} : f[l] = t
    OBVIOUS
  <2> HIDE DEF f, R
  <2> QED
    BY <2>1, <2>2 DEF Surjection
<1>3. IsFiniteSet(R)
  <2> HIDE DEF f, R
  <2> QED
    BY <1>1, <1>2, FS_Surjection
<1>4. ASSUME NEW l \in Lists PROVE /\ IsFiniteSet({l} \X (1 .. number[l]))
                                   /\ Cardinality({l} \X (1 .. number[l])) = number[l]
  <2>1. IsFiniteSet({l}) /\ Cardinality({l}) = 1
    BY FS_Singleton
  <2>2. number[l] \in Nat
    OBVIOUS
  <2>3. IsFiniteSet(1 .. number[l]) /\ Cardinality(1 .. number[l]) = number[l]
    BY <2>2, FS_Interval
  <2>4. /\ IsFiniteSet({l} \X (1 .. number[l]))
        /\ Cardinality({l} \X (1 .. number[l])) = 1 * number[l]
    BY <2>1, <2>3, FS_Product
  <2> QED
    BY <2>2, <2>4
<1>5. IsFiniteSet(UNION R)
  <2>1. \A t \in R : IsFiniteSet(t)
    BY <1>4
  <2> HIDE DEF R
  <2> QED
    BY <1>3, <2>1, FS_UNION
<1>6. UNION {{l} \X (1 .. number[l]) : l \in Lists} = (UNION R) \cup T
  OBVIOUS
<1>7. (UNION R) \cap T = {}
  OBVIOUS
<1>8. IsFiniteSet(T) /\ Cardinality(T) = number[k] /\ number[k] \in Nat
  BY <1>4
<1> HIDE DEF T, R
<1>9. Cardinality((UNION R) \cup T) = Cardinality(UNION R) + Cardinality(T)
  <2>1. Cardinality((UNION R) \cup T)
            = Cardinality(UNION R) + Cardinality(T) - Cardinality((UNION R) \cap T)
    BY <1>5, <1>8, FS_Union
  <2>2. Cardinality((UNION R) \cap T) = 0
    BY <1>7, FS_EmptySet
  <2>3. Cardinality(UNION R) \in Nat
    BY <1>5, FS_CardinalityType
  <2> QED
    BY <1>8, <2>1, <2>2, <2>3
<1>10. Cardinality(UNION R) \in Nat
  BY <1>5, FS_CardinalityType
<1> QED
  BY <1>6, <1>8, <1>9, <1>10 DEF Total, OfOthers, R

LEMMA TotalExcept ==
    ASSUME NEW n, NEW m, \A l \in Lists : n[l] \in Nat /\ m[l] \in Nat, NEW k \in Lists,
           \A l \in Lists \ {k} : n[l] = m[l]
    PROVE  /\ Total(n) \in Nat /\ Total(m) \in Nat
           /\ Total(m) = Total(n) - n[k] + m[k]
<1>1. OfOthers(n, k) = OfOthers(m, k)
  BY DEF OfOthers
<1>2. /\ Cardinality(OfOthers(n, k)) \in Nat /\ Total(n) = Cardinality(OfOthers(n, k)) + n[k]
      /\ Total(m) = Cardinality(OfOthers(m, k)) + m[k]
  BY TotalParts
<1> QED
  BY <1>1, <1>2

LEMMA TotalExceptTwo ==
    ASSUME NEW n, NEW m, \A l \in Lists : n[l] \in Nat /\ m[l] \in Nat,
           NEW j \in Lists, NEW k \in Lists, j # k,
           \A l \in Lists \ {j, k} : n[l] = m[l], n[j] + n[k] = m[j] + m[k]
    PROVE  Total(m) = Total(n)
<1> DEFINE o == [l \in Lists |-> IF l = j THEN m[l] ELSE n[l]]
<1>1. \A l \in Lists : o[l] \in Nat
  OBVIOUS
<1>2. o[j] = m[j] /\ o[k] = n[k] /\ (\A l \in Lists \ {j} : n[l] = o[l]) /\ (\A l \in Lists \ {k} : o[l] = m[l])
  OBVIOUS
<1> HIDE DEF o
<1>3. Total(n) \in Nat /\ Total(o) = Total(n) - n[j] + o[j]
  BY <1>1, <1>2, TotalExcept
<1>4. Total(m) = Total(o) - o[k] + m[k]
  BY <1>1, <1>2, TotalExcept
<1> QED
  BY <1>2, <1>3, <1>4

-----------------------------------------------------------------------------
(***************************************************************************)
(* Every list holds a sequence, and what has been constructed is in them.  *)
(***************************************************************************)
HoldsItems(k, c) == c = Nothing \/ \E q : Holds(k, c, q)
Lengths(f) == [l \in Lists |-> f[l].length]
Blocks(f) == [l \in Lists |-> Block(f[l])]

ListsInv ==
    /\ SoundKind(kind)
    /\ lists = [l \in Lists |-> lists[l]]
    /\ \A l \in Lists : HoldsItems(kind, lists[l])
    /\ living = Total(Lengths(lists)) /\ blocks = Total(Blocks(lists))

LEMMA HeldNumbers ==
    ASSUME SoundKind(kind), NEW c, HoldsItems(kind, c)
    PROVE  c.length \in Nat /\ Block(c) \in Nat
<1>1. Block(c) \in Nat
  BY DEF Block
<1>2. c.length \in Nat
  <2>1. CASE c = Nothing
    BY <2>1 DEF Nothing
  <2>2. CASE \E q : Holds(kind, c, q)
    BY <2>2, HeldItems
  <2> QED
    BY <2>1, <2>2 DEF HoldsItems
<1> QED
  BY <1>1, <1>2

LEMMA ChangeKeeps ==
    ASSUME ListsInv, NEW l \in Lists, NEW c, HoldsItems(kind, c), NEW n,
           n = c.length - lists[l].length, Change(l, c, n)
    PROVE  ListsInv'
<1> DEFINE a == Lengths(lists)
           b == Lengths([lists EXCEPT ![l] = c])
           d == Blocks(lists)
           e == Blocks([lists EXCEPT ![l] = c])
<1>1. /\ lists' = [lists EXCEPT ![l] = c] /\ kind' = kind
      /\ living' = living + n /\ blocks' = blocks - Block(lists[l]) + Block(c)
  BY DEF Change
<1>2. \A k \in Lists : lists'[k] = IF k = l THEN c ELSE lists[k]
  BY <1>1 DEF ListsInv
<1>3. \A k \in Lists : HoldsItems(kind, lists[k]) /\ HoldsItems(kind, lists'[k])
  BY <1>2 DEF ListsInv
<1>4. \A k \in Lists : a[k] = lists[k].length /\ b[k] = lists'[k].length
                    /\ d[k] = Block(lists[k]) /\ e[k] = Block(lists'[k])
  BY <1>1 DEF Lengths, Blocks
<1>5. \A k \in Lists : a[k] \in Nat /\ b[k] \in Nat /\ d[k] \in Nat /\ e[k] \in Nat
  BY <1>3, <1>4, HeldNumbers DEF ListsInv
<1>6. \A k \in Lists \ {l} : a[k] = b[k] /\ d[k] = e[k]
  BY <1>2, <1>4
<1>7. living = Total(a) /\ blocks = Total(d)
  BY DEF ListsInv
<1> HIDE DEF a, b, d, e
<1>8. Total(a) \in Nat /\ Total(b) = Total(a) - a[l] + b[l]
  BY <1>5, <1>6, TotalExcept
<1>9. Total(d) \in Nat /\ Total(e) = Total(d) - d[l] + e[l]
  BY <1>5, <1>6, TotalExcept
<1>10. a[l] = lists[l].length /\ b[l] = c.length /\ d[l] = Block(lists[l]) /\ e[l] = Block(c)
  BY <1>2, <1>4
<1>11. living' = Total(b)
  BY <1>1, <1>5, <1>7, <1>8, <1>10
<1>12. blocks' = Total(e)
  BY <1>1, <1>7, <1>9, <1>10
<1>13. Blocks(lists)' = e /\ Lengths(lists)' = b
  BY <1>1 DEF Blocks, Lengths, Block, Squeezed, b, e
<1>14. SoundKind(kind)' /\ (lists = [k \in Lists |-> lists[k]])'
  BY <1>1 DEF ListsInv, SoundKind
<1>15. (\A k \in Lists : HoldsItems(kind, lists[k]))'
  BY <1>1, <1>3 DEF HoldsItems, Holds, Shaped, FilledWith, Outside
<1> QED
  BY <1>11, <1>12, <1>13, <1>14, <1>15 DEF ListsInv

\* Two lists change, and nothing is constructed or allocated.
LEMMA ExchangeKeeps ==
    ASSUME ListsInv, NEW l \in Lists, NEW m \in Lists, l # m,
           NEW c, HoldsItems(kind, c), NEW d, HoldsItems(kind, d),
           c.length + d.length = lists[l].length + lists[m].length,
           Block(c) + Block(d) = Block(lists[l]) + Block(lists[m]),
           lists' = [lists EXCEPT ![l] = c, ![m] = d], UNCHANGED <<kind, living, blocks>>
    PROVE  ListsInv'
<1> DEFINE a == Lengths(lists)
           b == Lengths([lists EXCEPT ![l] = c, ![m] = d])
           e == Blocks(lists)
           f == Blocks([lists EXCEPT ![l] = c, ![m] = d])
<1>1. kind' = kind /\ living' = living /\ blocks' = blocks
  OBVIOUS
<1>2. \A k \in Lists : lists'[k] = IF k = m THEN d ELSE IF k = l THEN c ELSE lists[k]
  BY DEF ListsInv
<1>3. \A k \in Lists : HoldsItems(kind, lists[k]) /\ HoldsItems(kind, lists'[k])
  BY <1>2 DEF ListsInv
<1>4. \A k \in Lists : a[k] = lists[k].length /\ b[k] = lists'[k].length
                    /\ e[k] = Block(lists[k]) /\ f[k] = Block(lists'[k])
  BY DEF Lengths, Blocks
<1>5. \A k \in Lists : a[k] \in Nat /\ b[k] \in Nat /\ e[k] \in Nat /\ f[k] \in Nat
  BY <1>3, <1>4, HeldNumbers DEF ListsInv
<1> HIDE DEF a, b, e, f
<1>6. \A k \in Lists \ {l, m} : a[k] = b[k] /\ e[k] = f[k]
  <2> TAKE k \in Lists \ {l, m}
  <2>1. k \in Lists /\ k # l /\ k # m
    OBVIOUS
  <2>2. lists'[k] = lists[k]
    BY <1>2, <2>1
  <2>3. a[k] = lists[k].length /\ b[k] = lists'[k].length /\ e[k] = Block(lists[k]) /\ f[k] = Block(lists'[k])
    BY <1>4, <2>1
  <2> QED
    BY <2>2, <2>3
<1>7. living = Total(a) /\ blocks = Total(e)
  BY DEF ListsInv, a, e
<1>8. /\ a[l] = lists[l].length /\ b[l] = c.length /\ e[l] = Block(lists[l]) /\ f[l] = Block(c)
      /\ a[m] = lists[m].length /\ b[m] = d.length /\ e[m] = Block(lists[m]) /\ f[m] = Block(d)
  <2>1. lists'[l] = c /\ lists'[m] = d
    BY <1>2
  <2> QED
    BY <1>4, <2>1
<1>9. a[l] + a[m] = b[l] + b[m] /\ e[l] + e[m] = f[l] + f[m]
  BY <1>8
<1>10. Total(b) = Total(a)
  BY <1>5, <1>6, <1>9, TotalExceptTwo
<1>11. Total(f) = Total(e)
  BY <1>5, <1>6, <1>9, TotalExceptTwo
<1>12. Blocks(lists)' = f /\ Lengths(lists)' = b
  BY <1>1 DEF Blocks, Lengths, Block, Squeezed, b, f
<1>13. SoundKind(kind)' /\ (lists = [k \in Lists |-> lists[k]])'
  BY <1>1 DEF ListsInv, SoundKind
<1>14. (\A k \in Lists : HoldsItems(kind, lists[k]))'
  BY <1>1, <1>3
<1> QED
  BY <1>1, <1>7, <1>10, <1>11, <1>12, <1>13, <1>14 DEF ListsInv

LEMMA ListStarts == ASSUME OnlySound PROVE ListInit => ListsInv
<1> SUFFICES ASSUME ListInit PROVE ListsInv
  OBVIOUS
<1>1. SoundKind(kind)
  BY KindsAssumption DEF ListInit, SoundKind, Configurations
<1>2. \A l \in Lists : lists[l] = Nothing
  BY DEF ListInit
<1>3. \A l \in Lists : Lengths(lists)[l] = 0 /\ Blocks(lists)[l] = 0
  BY <1>2 DEF Lengths, Blocks, Block, Nothing
<1>4. ASSUME NEW n, \A l \in Lists : n[l] = 0 PROVE Total(n) = 0
  <2>1. UNION {{l} \X (1 .. n[l]) : l \in Lists} = {}
    BY <1>4
  <2> QED
    BY <2>1, FS_EmptySet DEF Total
<1>5. Total(Lengths(lists)) = 0 /\ Total(Blocks(lists)) = 0
  BY <1>3, <1>4
<1>6. lists = [l \in Lists |-> lists[l]]
  BY DEF ListInit
<1> QED
  BY <1>1, <1>2, <1>5, <1>6 DEF ListInit, ListsInv, HoldsItems

\* What the lists hold.
LEMMA HeldThere ==
    ASSUME ListsInv, NEW l \in There
    PROVE  l \in Lists /\ lists[l] # Nothing /\ \E q : Holds(kind, lists[l], q)
BY DEF ListsInv, HoldsItems, There

LEMMA NotThere ==
    ASSUME NEW l \in Lists, l \notin There
    PROVE  lists[l] = Nothing /\ lists[l].length = 0 /\ Block(lists[l]) = 0
<1>1. lists[l] = Nothing
  BY DEF There
<1> QED
  BY <1>1 DEF Nothing, Block

LEMMA CreateKeeps ==
    ASSUME ListsInv, NEW l \in Lists, NEW n \in Nat, NEW items \in Seq(Items), Create(l, n, items)
    PROVE  ListsInv'
<1> DEFINE c == SetLength(Construct(Storage(n), 0, items), Len(items))
<1>1. SoundKind(kind) /\ kind.squeezed \in Nat /\ kind.stuffed \in BOOLEAN /\ Len(items) \in Nat
  BY DEF ListsInv, SoundKind, Configurations
<1>2. Len(items) = n \/ (items = <<>> /\ ~kind.stuffed)
  BY DEF Create
<1>3. items = <<>> => Len(items) = 0
  OBVIOUS
<1>4. kind.only => n = 0
  BY DEF Create
<1>5. Roomy(kind, n, Len(items))
  BY <1>1, <1>2, <1>3, <1>4 DEF Roomy, Larger
<1>6. Holds(kind, c, items)
  BY <1>1, <1>5, Fresh
<1>7. c.length = Len(items) /\ lists[l].length = 0
  BY <1>1, <1>6, HeldItems, NotThere DEF Create
<1>8. Change(l, c, Len(items))
  BY DEF Create
<1> HIDE DEF c
<1>9. Len(items) = c.length - lists[l].length
  BY <1>1, <1>7
<1> QED
  BY <1>6, <1>8, <1>9, ChangeKeeps DEF HoldsItems

LEMMA InsertKeeps ==
    ASSUME ListsInv, NEW l \in Lists, NEW at \in Nat, NEW items \in Seq(Items), items # <<>>,
           Insert(l, at, items)
    PROVE  ListsInv'
<1> DEFINE c == WithInserted(lists[l], at, items)
<1>1. l \in There /\ at <= lists[l].length /\ Growable(lists[l], items) /\ Change(l, c, Len(items))
  BY DEF Insert
<1>2. SoundKind(kind)
  BY DEF ListsInv
<1>3. PICK q : Holds(kind, lists[l], q)
  BY <1>1, HeldThere
<1>4. lists[l].length = Len(q) /\ q \in Seq(Items) /\ Len(q) \in Nat
  BY <1>2, <1>3, HeldItems
<1>5. at \in 0 .. Len(q)
  BY <1>1, <1>4
<1>6. Holds(kind, c, Spliced(q, at, items))
  BY <1>1, <1>2, <1>3, <1>5, Inserts
<1> HIDE DEF c
<1>7. c.length = Len(q) + Len(items)
  <2>1. c.length = Len(Spliced(q, at, items))
    BY <1>2, <1>6, HeldItems
  <2>2. Len(Spliced(q, at, items)) = Len(q) + Len(items)
    BY <1>4, <1>5, SplicedItems
  <2> QED
    BY <2>1, <2>2
<1>8. Len(items) = c.length - lists[l].length
  BY <1>4, <1>7
<1> QED
  BY <1>1, <1>6, <1>8, ChangeKeeps DEF HoldsItems

LEMMA InsertFailsKeeps ==
    ASSUME ListsInv, OnlySound, NEW l \in Lists, NEW at, NEW items, InsertFails(l, at, items)
    PROVE  ListsInv'
<1>1. l \in There /\ ~Fits(lists[l], items) /\ Change(l, lists[l], 0)
  BY DEF InsertFails
<1>2. SoundKind(kind) /\ HoldsItems(kind, lists[l])
  BY DEF ListsInv
<1>3. lists[l].length \in Nat
  BY <1>2, HeldNumbers
<1>4. 0 = lists[l].length - lists[l].length
  BY <1>3
<1> QED
  BY <1>1, <1>2, <1>4, ChangeKeeps

LEMMA ExpandKeeps ==
    ASSUME ListsInv, NEW l \in Lists, NEW n \in Nat, ForceExpandBack(l, n)
    PROVE  ListsInv'
<1> DEFINE size == lists[l].capacity + n
           c == Grown(lists[l], size, 0, <<>>)
<1>1. l \in There /\ ~kind.only /\ ~kind.stuffed /\ Change(l, c, 0)
  BY DEF ForceExpandBack
<1>2. SoundKind(kind)
  BY DEF ListsInv
<1>3. PICK q : Holds(kind, lists[l], q)
  BY <1>1, HeldThere
<1>4. lists[l].length = Len(q) /\ Len(q) \in Nat /\ lists[l].capacity \in Nat
  BY <1>2, <1>3, HeldItems
<1>5. size \in Nat /\ size >= lists[l].capacity
  BY <1>4
<1> HIDE DEF size
<1>6. Holds(kind, c, Spliced(q, 0, <<>>)) /\ Len(Spliced(q, 0, <<>>)) = Len(q)
  BY <1>1, <1>2, <1>3, <1>5, Expands
<1>7. c.length = Len(q)
  BY <1>2, <1>6, HeldItems
<1> HIDE DEF c
<1>8. 0 = c.length - lists[l].length
  BY <1>4, <1>7
<1> QED
  BY <1>1, <1>6, <1>8, ChangeKeeps DEF HoldsItems

LEMMA PopKeeps ==
    ASSUME ListsInv, OnlySound, NEW l \in Lists, NEW n \in Nat, NEW front \in BOOLEAN, Pop(l, n, front)
    PROVE  ListsInv'
<1> DEFINE c == InPlacePopBack(lists[l], n)
<1>1. l \in There /\ ~kind.stuffed /\ n \in 1 .. lists[l].length /\ Change(l, c, -n)
  BY DEF Pop
<1>2. SoundKind(kind)
  BY DEF ListsInv
<1>3. PICK q : Holds(kind, lists[l], q)
  BY <1>1, HeldThere
<1>4. lists[l].length \in Nat
  BY <1>2, <1>3, HeldItems
<1>5. PICK s : Holds(kind, c, s) /\ Len(s) = lists[l].length - n
  BY <1>1, <1>2, <1>3, PopsBack
<1>6. c.length = lists[l].length - n
  BY <1>2, <1>5, HeldItems
<1> HIDE DEF c
<1>7. -n = c.length - lists[l].length
  BY <1>4, <1>6
<1> QED
  BY <1>1, <1>5, <1>7, ChangeKeeps DEF HoldsItems

\* One of both ways to erase.
LEMMA CutKeeps ==
    ASSUME ListsInv, NEW l \in There, NEW q, Holds(kind, lists[l], q),
           NEW to \in 0 .. Len(q), NEW from \in 0 .. to, NEW c, Holds(kind, c, CutOut(q, from, to)),
           Change(l, c, from - to)
    PROVE  ListsInv'
<1>1. SoundKind(kind) /\ l \in Lists
  BY DEF ListsInv, There
<1>2. lists[l].length = Len(q) /\ q \in Seq(Items) /\ Len(q) \in Nat
  BY <1>1, HeldItems
<1>3. Len(CutOut(q, from, to)) = Len(q) - (to - from)
  BY <1>2, CutOutItems
<1>4. c.length = Len(CutOut(q, from, to))
  BY <1>1, HeldItems
<1>5. from - to = c.length - lists[l].length
  BY <1>2, <1>3, <1>4
<1> QED
  BY <1>1, <1>5, ChangeKeeps DEF HoldsItems

LEMMA EraseKeeps ==
    ASSUME ListsInv, OnlySound, NEW l \in Lists, NEW from \in Nat, NEW to \in Nat, NEW range \in BOOLEAN,
           Erase(l, from, to, range) \/ EraseAndShrink(l, from, to)
    PROVE  ListsInv'
<1>1. l \in There /\ from < to /\ to <= lists[l].length
  BY DEF Erase, EraseAndShrink, Erasable
<1>2. SoundKind(kind)
  BY DEF ListsInv
<1>3. PICK q : Holds(kind, lists[l], q)
  BY <1>1, HeldThere
<1>4. lists[l].length = Len(q) /\ Len(q) \in Nat
  BY <1>2, <1>3, HeldItems
<1>5. to \in 0 .. Len(q) /\ from \in 0 .. to
  BY <1>1, <1>4
<1>6. CASE Erase(l, from, to, range)
  <2>1. Holds(kind, WithErased(lists[l], from, to, range), CutOut(q, from, to))
    BY <1>2, <1>3, <1>6, ErasesItems DEF Erase
  <2> QED
    BY <1>1, <1>3, <1>5, <1>6, <2>1, CutKeeps DEF Erase
<1>7. CASE EraseAndShrink(l, from, to)
  <2>1. Holds(kind, Shrunk(lists[l], from, to), CutOut(q, from, to))
    BY <1>2, <1>3, <1>5, <1>7, ShrunkHolds DEF EraseAndShrink
  <2> QED
    BY <1>1, <1>3, <1>5, <1>7, <2>1, CutKeeps DEF EraseAndShrink
<1> QED
  BY <1>6, <1>7

LEMMA DestroyKeeps ==
    ASSUME ListsInv, NEW l \in Lists, Destroy(l)
    PROVE  ListsInv'
<1>1. SoundKind(kind) /\ HoldsItems(kind, lists[l]) /\ HoldsItems(kind, Nothing) /\ Nothing.length = 0
  BY DEF ListsInv, HoldsItems, Nothing
<1>2. lists[l].length \in Nat
  BY <1>1, HeldNumbers
<1>3. -lists[l].length = Nothing.length - lists[l].length
  BY <1>1, <1>2
<1> QED
  BY <1>1, <1>3, ChangeKeeps DEF Destroy

LEMMA CloneKeeps ==
    ASSUME ListsInv, NEW l \in Lists, NEW m \in Lists, Clone(l, m)
    PROVE  ListsInv'
<1>1. l \in There /\ m \notin There /\ Change(m, Copied(lists[l]), lists[l].length)
  BY DEF Clone
<1>2. SoundKind(kind)
  BY DEF ListsInv
<1>3. PICK q : Holds(kind, lists[l], q)
  BY <1>1, HeldThere
<1>4. Holds(kind, Copied(lists[l]), q)
  BY <1>2, <1>3, CopiedHolds
<1>5. lists[l].length = Len(q) /\ Copied(lists[l]).length = Len(q) /\ lists[l].length \in Nat
  BY <1>2, <1>3, <1>4, HeldItems
<1>6. lists[m].length = 0
  BY <1>1, NotThere
<1>7. lists[l].length = Copied(lists[l]).length - lists[m].length
  BY <1>5, <1>6
<1> QED
  BY <1>1, <1>4, <1>7, ChangeKeeps DEF HoldsItems

\* What a list is left with that another one was constructed from.
LEMMA NewStorage ==
    ASSUME SoundKind(kind)
    PROVE  LET e == Storage(0) IN Holds(kind, e, <<>>) /\ Block(e) = 0 /\ e.length = 0
<1> DEFINE n == kind.squeezed
           size == IF kind.stuffed THEN 0 ELSE n
           s == [k \in 0 .. n - 1 |-> Empty]
           e == [capacity |-> size, length |-> 0, begin |-> 0, slots |-> s]
           f == SetLength(Construct(e, 0, <<>>), Len(<<>>))
<1>1. n \in Nat
  BY DEF SoundKind, Configurations
<1>2. Larger(0, n) = n
  BY <1>1 DEF Larger
<1>3. Storage(0) = e
  BY <1>2 DEF Storage
<1>4. <<>> \in Seq(Items) /\ Len(<<>>) = 0 /\ 0 \in Nat /\ DOMAIN <<>> = {}
  OBVIOUS
<1>5. Roomy(kind, 0, Len(<<>>))
  <2>1. Roomy(kind, 0, 0)
    BY <1>1, <1>2 DEF Roomy
  <2> QED
    BY <2>1, <1>4
<1>6. Holds(kind, SetLength(Construct(Storage(0), 0, <<>>), Len(<<>>)), <<>>)
  BY <1>4, <1>5, Fresh
<1>7. f = e
  <2>1. [k \in DOMAIN s |-> IF \E j \in DOMAIN <<>> : k = Offset(e, 0 + j - 1)
                            THEN <<>>[CHOOSE j \in DOMAIN <<>> : k = Offset(e, 0 + j - 1)] ELSE s[k]] = s
    BY <1>4
  <2> e \in [capacity : Nat, length : Nat, begin : Nat, slots : {s}]
    BY <1>1
  <2>0. e.slots = s /\ e.length = 0 /\ (kind.stuffed => e.capacity = 0)
    OBVIOUS
  <2> HIDE DEF e, s, size
  <2>2. Construct(e, 0, <<>>) = e
    <3>1. Construct(e, 0, <<>>) = [e EXCEPT !.slots = s]
      BY <2>0, <2>1 DEF Construct
    <3> QED
      BY <3>1, <2>0
  <2>3. SetLength(e, 0) = e
    BY <2>0 DEF SetLength
  <2> QED
    BY <2>2, <2>3, <1>4
<1>8. Holds(kind, e, <<>>)
  BY <1>3, <1>6, <1>7
<1>9. Block(e) = 0
  BY <1>1 DEF Block, Squeezed
<1>10. e.length = 0
  OBVIOUS
<1> HIDE DEF e
<1> QED
  BY <1>3, <1>8, <1>9, <1>10

LEMMA MoveKeeps ==
    ASSUME ListsInv, NEW l \in Lists, NEW m \in Lists, Move(l, m)
    PROVE  ListsInv'
<1> DEFINE c == IF Squeezed(lists[l]) THEN Inside(Content(lists[l])) ELSE lists[l]
           e == Storage(0)
<1>1. /\ l \in There /\ m \notin There /\ lists' = [lists EXCEPT ![m] = c, ![l] = e]
      /\ UNCHANGED <<kind, living, blocks>>
  BY DEF Move
<1>2. SoundKind(kind) /\ kind.squeezed \in Nat
  BY DEF ListsInv, SoundKind, Configurations
<1>3. PICK q : Holds(kind, lists[l], q)
  BY <1>1, HeldThere
<1>4. Content(lists[l]) = q
  BY <1>2, <1>3, ContentHeld
<1>5. Holds(kind, c, q) /\ Block(c) = Block(lists[l])
  BY <1>2, <1>3, <1>4, InsideHolds DEF Block
<1>6. lists[l].length = Len(q) /\ c.length = Len(q) /\ Len(q) \in Nat
  BY <1>2, <1>3, <1>5, HeldItems
<1> HIDE DEF c, e
<1>7. Holds(kind, e, <<>>) /\ Block(e) = 0 /\ e.length = 0
  BY <1>2, NewStorage DEF e
<1>8. lists[m].length = 0 /\ Block(lists[m]) = 0
  BY <1>1, NotThere
<1>9. Block(lists[l]) \in Nat
  BY DEF Block
<1>10. c.length + e.length = lists[m].length + lists[l].length
  BY <1>6, <1>7, <1>8
<1>11. Block(c) + Block(e) = Block(lists[m]) + Block(lists[l])
  BY <1>5, <1>7, <1>8, <1>9
<1>12. HoldsItems(kind, c) /\ HoldsItems(kind, e) /\ l # m
  BY <1>1, <1>5, <1>7 DEF HoldsItems
<1> QED
  BY <1>1, <1>10, <1>11, <1>12, ExchangeKeeps

LEMMA SwapKeeps ==
    ASSUME ListsInv, NEW l \in Lists, NEW m \in Lists, Swap(l, m)
    PROVE  ListsInv'
<1> DEFINE c == Swapped(lists[m], lists[l])
           e == Swapped(lists[l], lists[m])
<1>1. /\ l \in There /\ m \in There /\ l # m /\ SwapEndsWell(lists[l], lists[m])
      /\ lists' = [lists EXCEPT ![l] = c, ![m] = e] /\ UNCHANGED <<kind, living, blocks>>
  BY DEF Swap
<1>2. SoundKind(kind)
  BY DEF ListsInv
<1>3. PICK q : Holds(kind, lists[l], q)
  BY <1>1, HeldThere
<1>4. PICK p : Holds(kind, lists[m], p)
  BY <1>1, HeldThere
<1>5. SwapEndsWell(lists[m], lists[l])
  BY <1>1 DEF SwapEndsWell
<1>6. Holds(kind, e, q) /\ Block(e) = Block(lists[l])
  BY <1>1, <1>2, <1>3, <1>4, SwapsItems
<1>7. Holds(kind, c, p) /\ Block(c) = Block(lists[m])
  BY <1>2, <1>3, <1>4, <1>5, SwapsItems
<1>8. lists[l].length = Len(q) /\ e.length = Len(q) /\ lists[m].length = Len(p) /\ c.length = Len(p)
      /\ Len(q) \in Nat /\ Len(p) \in Nat
  BY <1>2, <1>3, <1>4, <1>6, <1>7, HeldItems
<1>9. Block(lists[l]) \in Nat /\ Block(lists[m]) \in Nat
  BY DEF Block
<1> HIDE DEF c, e
<1>10. c.length + e.length = lists[l].length + lists[m].length
  BY <1>8
<1>11. Block(c) + Block(e) = Block(lists[l]) + Block(lists[m])
  BY <1>6, <1>7, <1>9
<1>12. HoldsItems(kind, c) /\ HoldsItems(kind, e)
  BY <1>6, <1>7 DEF HoldsItems
<1> QED
  BY <1>1, <1>10, <1>11, <1>12, ExchangeKeeps

LEMMA AssignKeeps ==
    ASSUME ListsInv, NEW l \in Lists, NEW m \in Lists, Assign(l, m)
    PROVE  ListsInv'
<1> DEFINE copy == Copied(lists[m])
           c == Swapped(copy, lists[l])
<1>1. /\ l \in There /\ m \in There /\ SwapEndsWell(lists[l], copy)
      /\ Change(l, c, copy.length - lists[l].length)
  BY DEF Assign
<1>2. SoundKind(kind)
  BY DEF ListsInv
<1>3. PICK q : Holds(kind, lists[l], q)
  BY <1>1, HeldThere
<1>4. PICK p : Holds(kind, lists[m], p)
  BY <1>1, HeldThere
<1>5. Holds(kind, copy, p)
  BY <1>2, <1>4, CopiedHolds
<1>6. SwapEndsWell(copy, lists[l])
  BY <1>1 DEF SwapEndsWell
<1> HIDE DEF copy
<1>7. Holds(kind, c, p)
  BY <1>2, <1>3, <1>5, <1>6, SwapsItems
<1>8. c.length = copy.length
  BY <1>2, <1>5, <1>7, HeldItems
<1> HIDE DEF c
<1> QED
  BY <1>1, <1>7, <1>8, ChangeKeeps DEF HoldsItems

LEMMA InsertedItems ==
    ASSUME NEW items \in Inserted
    PROVE  items \in Seq(Items) /\ Len(items) \in Nat /\ items # <<>>
<1>1. CASE \E x \in Items : items = <<x>>
  <2>1. PICK x \in Items : items = <<x>>
    BY <1>1
  <2>2. <<x>> \in Seq(Items) /\ Len(<<x>>) = 1 /\ Len(<<>>) = 0
    OBVIOUS
  <2> QED
    BY <2>1, <2>2
<1>2. CASE \E x, y \in Items : items = <<x, y>>
  <2>1. PICK x \in Items, y \in Items : items = <<x, y>>
    BY <1>2
  <2>2. <<x, y>> \in Seq(Items) /\ Len(<<x, y>>) = 2 /\ Len(<<>>) = 0
    OBVIOUS
  <2> QED
    BY <2>1, <2>2
<1> QED
  BY <1>1, <1>2 DEF Inserted

LEMMA ListSteps == ASSUME OnlySound, ListsInv, ListNext PROVE ListsInv'
<1>1. Sizes \subseteq Nat
  BY CapacityAssumption DEF Sizes
<1>2. \A items \in Inserted : items \in Seq(Items) /\ items # <<>>
  BY InsertedItems
<1>3. <<>> \in Seq(Items)
  OBVIOUS
<1>4. PICK l \in Lists :
        \/ \E n \in Sizes : Create(l, n, <<>>)
        \/ \E items \in Inserted : Create(l, Len(items), items)
        \/ \E at \in Sizes, items \in Inserted : Insert(l, at, items) \/ InsertFails(l, at, items)
        \/ \E x \in Items : Push(l, x)
        \/ \E n \in Sizes : ForceExpandBack(l, n) \/ (\E front \in BOOLEAN : Pop(l, n, front))
        \/ \E from, to \in Sizes :
              (\E range \in BOOLEAN : Erase(l, from, to, range)) \/ EraseAndShrink(l, from, to)
        \/ Destroy(l)
        \/ \E m \in Lists : Clone(l, m) \/ Move(l, m) \/ Swap(l, m) \/ Assign(l, m)
  BY DEF ListNext
<1>5. CASE \E n \in Sizes : Create(l, n, <<>>)
  BY <1>1, <1>3, <1>5, CreateKeeps
<1>6. CASE \E items \in Inserted : Create(l, Len(items), items)
  <2>1. PICK items \in Inserted : Create(l, Len(items), items)
    BY <1>6
  <2>2. items \in Seq(Items) /\ Len(items) \in Nat
    BY <1>2
  <2> QED
    BY <2>1, <2>2, CreateKeeps
<1>7. CASE \E at \in Sizes, items \in Inserted : Insert(l, at, items) \/ InsertFails(l, at, items)
  <2>1. PICK at \in Sizes, items \in Inserted : Insert(l, at, items) \/ InsertFails(l, at, items)
    BY <1>7
  <2>2. at \in Nat /\ items \in Seq(Items) /\ items # <<>>
    BY <1>1, <1>2
  <2> QED
    BY <2>1, <2>2, InsertKeeps, InsertFailsKeeps
<1>8. CASE \E n \in Sizes : ForceExpandBack(l, n) \/ (\E front \in BOOLEAN : Pop(l, n, front))
  BY <1>1, <1>8, ExpandKeeps, PopKeeps
<1>9. CASE \E from, to \in Sizes :
              (\E range \in BOOLEAN : Erase(l, from, to, range)) \/ EraseAndShrink(l, from, to)
  BY <1>1, <1>9, EraseKeeps
<1>10. CASE Destroy(l)
  BY <1>10, DestroyKeeps
<1>11. CASE \E m \in Lists : Clone(l, m) \/ Move(l, m) \/ Swap(l, m) \/ Assign(l, m)
  BY <1>11, CloneKeeps, MoveKeeps, SwapKeeps, AssignKeeps
<1>12. CASE \E x \in Items : Push(l, x)
  <2>1. PICK x \in Items : Push(l, x)
    BY <1>12
  <2>2. <<x>> \in Seq(Items) /\ <<x>> # <<>>
    OBVIOUS
  <2>3. lists[l].length \in Nat /\ 0 \in Nat
    BY HeldNumbers DEF ListsInv
  <2> QED
    BY <2>1, <2>2, <2>3, InsertKeeps DEF Push
<1> QED
  BY <1>4, <1>5, <1>6, <1>7, <1>8, <1>9, <1>10, <1>11, <1>12

LEMMA ListAlways == ASSUME OnlySound PROVE ListSpec => []ListsInv
<1>1. ListInit => ListsInv
  BY ListStarts
<1>2. ListsInv /\ [ListNext]_listVars => ListsInv'
  <2> SUFFICES ASSUME ListsInv, [ListNext]_listVars PROVE ListsInv'
    OBVIOUS
  <2>1. CASE ListNext
    BY <2>1, ListSteps
  <2>2. CASE UNCHANGED listVars
    BY <2>2 DEF listVars, ListsInv, Blocks, Block, Squeezed, Lengths
  <2> QED
    BY <2>1, <2>2
<1> QED
  BY <1>1, <1>2, PTL DEF ListSpec

LEMMA InPlace == ASSUME ListsInv PROVE ItemsInPlace
<1>1. living = Total([l \in Lists |-> lists[l].length]) /\ blocks = Total([l \in Lists |-> Block(lists[l])])
  BY DEF ListsInv, Lengths, Blocks
<1>2. ASSUME NEW l \in There
      PROVE  LET c == lists[l]
                 occupied == {Offset(c, i) : i \in 0 .. c.length - 1}
             IN  /\ c.length <= c.capacity /\ c.begin \in 0 .. Larger(c.capacity - 1, 0)
                 /\ occupied \subseteq DOMAIN c.slots
                 /\ \A k \in DOMAIN c.slots :
                        IF k \in occupied THEN c.slots[k] \in Items ELSE c.slots[k] = Empty
  <2> DEFINE c == lists[l]
             occupied == {Offset(c, i) : i \in 0 .. c.length - 1}
  <2>1. PICK q : Holds(kind, c, q)
    BY HeldThere
  <2>2. SoundKind(kind)
    BY DEF ListsInv
  <2> HIDE DEF c
  <2>3. /\ Sound(c) /\ c.capacity \in Nat /\ c.length \in Nat /\ c.begin \in Nat
        /\ c.length = Len(q) /\ c.length <= c.capacity /\ q \in Seq(Items)
        /\ \A i \in 0 .. c.capacity - 1 :
                c.slots[Offset(c, i)] = IF i < c.length THEN q[i + 1] ELSE Empty
        /\ \A x \in DOMAIN c.slots : Outside(c, x) => c.slots[x] = Empty
    BY <2>1, <2>2, HeldItems
  <2>4. c.begin \in 0 .. Larger(c.capacity - 1, 0)
    BY <2>3 DEF Sound, Larger
  <2>5. \A i \in 0 .. c.length - 1 : i \in 0 .. c.capacity - 1 /\ i < c.length /\ i + 1 \in 1 .. Len(q)
    BY <2>3
  <2>6. occupied \subseteq DOMAIN c.slots
    BY <2>3, <2>5, SoundTypes
  <2>7. ASSUME NEW k \in DOMAIN c.slots, k \in occupied PROVE c.slots[k] \in Items
    <3>1. PICK i \in 0 .. c.length - 1 : k = Offset(c, i)
      BY <2>7
    <3>2. c.slots[k] = q[i + 1]
      BY <2>3, <2>5, <3>1
    <3>3. i + 1 \in 1 .. Len(q)
      BY <2>5
    <3> QED
      BY <2>3, <3>2, <3>3
  <2>8. ASSUME NEW k \in DOMAIN c.slots, k \notin occupied PROVE c.slots[k] = Empty
    <3>1. CASE Outside(c, k)
      BY <2>3, <3>1
    <3>2. CASE ~Outside(c, k)
      <4>1. PICK i \in 0 .. c.capacity - 1 : Offset(c, i) = k
        BY <3>2 DEF Outside
      <4>2. ~(i < c.length)
        BY <2>3, <2>8, <4>1
      <4> QED
        BY <2>3, <4>1, <4>2
    <3> QED
      BY <3>1, <3>2
  <2> QED
    BY <2>3, <2>4, <2>6, <2>7, <2>8 DEF c
<1> QED
  BY <1>1, <1>2 DEF ItemsInPlace

LEMMA ActsSo == ASSUME OnlySound, ListsInv PROVE ActsAsSequence
<1> SUFFICES ASSUME NEW l \in There
             PROVE  LET c == lists[l]
                        s == Content(c)
                        n == c.length
                    IN  /\ \A at \in 0 .. n, items \in Inserted : Growable(c, items) =>
                            Content(WithInserted(c, at, items))
                                = SubSeq(s, 1, at) \o items \o SubSeq(s, at + 1, n)
                        /\ \A from, to \in 0 .. n, range \in BOOLEAN :
                            Erasable(c, from, to, range) /\ PopsTheErased(c, from, to, range) =>
                            Content(WithErased(c, from, to, range))
                                = SubSeq(s, 1, from) \o SubSeq(s, to + 1, n)
                        /\ \A m \in There : SwapEndsWell(c, lists[m]) => Content(Swapped(c, lists[m])) = s
  BY DEF ActsAsSequence
<1> DEFINE c == lists[l]
<1>1. PICK q : Holds(kind, c, q)
  BY HeldThere
<1>2. SoundKind(kind)
  BY DEF ListsInv
<1> HIDE DEF c
<1>3. Content(c) = q /\ c.length = Len(q) /\ c.length \in Nat
  BY <1>1, <1>2, ContentHeld, HeldItems
<1>4. ASSUME NEW at \in 0 .. c.length, NEW items \in Inserted, Growable(c, items)
      PROVE  Content(WithInserted(c, at, items)) = SubSeq(q, 1, at) \o items \o SubSeq(q, at + 1, Len(q))
  <2>1. items \in Seq(Items) /\ items # <<>>
    BY InsertedItems
  <2>2. Holds(kind, WithInserted(c, at, items), Spliced(q, at, items))
    BY <1>1, <1>2, <1>3, <1>4, <2>1, Inserts
  <2> QED
    BY <1>2, <2>2, ContentHeld DEF Spliced
<1>5. ASSUME NEW from \in 0 .. c.length, NEW to \in 0 .. c.length, NEW range \in BOOLEAN,
             Erasable(c, from, to, range), PopsTheErased(c, from, to, range)
      PROVE  Content(WithErased(c, from, to, range)) = SubSeq(q, 1, from) \o SubSeq(q, to + 1, Len(q))
  <2>1. Holds(kind, WithErased(c, from, to, range), CutOut(q, from, to))
    BY <1>1, <1>2, <1>3, <1>5, ErasesItems
  <2> QED
    BY <1>2, <2>1, ContentHeld DEF CutOut
<1>6. ASSUME NEW m \in There, SwapEndsWell(c, lists[m]) PROVE Content(Swapped(c, lists[m])) = q
  <2>1. PICK p : Holds(kind, lists[m], p)
    BY HeldThere
  <2>2. Holds(kind, Swapped(c, lists[m]), q)
    BY <1>1, <1>2, <1>6, <2>1, SwapsItems
  <2> QED
    BY <1>2, <2>2, ContentHeld
<1>7. \A at \in 0 .. c.length, items \in Inserted : Growable(c, items) =>
          Content(WithInserted(c, at, items)) = SubSeq(q, 1, at) \o items \o SubSeq(q, at + 1, Len(q))
  BY <1>4
<1>8. \A from, to \in 0 .. c.length, range \in BOOLEAN :
          Erasable(c, from, to, range) /\ PopsTheErased(c, from, to, range) =>
          Content(WithErased(c, from, to, range)) = SubSeq(q, 1, from) \o SubSeq(q, to + 1, Len(q))
  BY <1>5, Zenon
<1>9. \A m \in There : SwapEndsWell(c, lists[m]) => Content(Swapped(c, lists[m])) = q
  BY <1>6
<1> QED
  BY <1>3, <1>7, <1>8, <1>9, Zenon DEF c

\* Whatever is done to lists of whatever configuration, over arrays of any size: every item of
\* a list is constructed, in the slot that the list expects it in, and nothing else is, and what
\* has been constructed or allocated and is of no list has been given back (list.hpp).
THEOREM ItemsStayInPlace == ASSUME OnlySound PROVE ListSpec => []ItemsInPlace
<1>1. ListsInv => ItemsInPlace
  BY InPlace
<1> QED
  BY <1>1, ListAlways, PTL

\* In every state that a list comes to by calls which leave lists sound, wherever in its array the
\* ring begins: inserting at any place and erasing at any position do to it what they do to a
\* sequence, and so do erasing a range unless inPlaceErase_ pops other items of a ring than the
\* erased, and swapping unless both lists keep their items inside and the swap does not end well.
THEOREM ListsAreSequences == ASSUME OnlySound PROVE ListSpec => []ActsAsSequence
<1>1. ListsInv => ActsAsSequence
  BY ActsSo
<1> QED
  BY <1>1, ListAlways, PTL
=============================================================================
