-------------------------------- MODULE List --------------------------------
(***************************************************************************)
(* container/list.hpp: a sequence in one array, which lies inside of the   *)
(* list while it has room for no more than squeezedCapacity items, and is  *)
(* allocated from a pool beyond that.  A list may be of fixed capacity     *)
(* (squeezedOnly), always full (stuffed), or a ring (circular).            *)
(*                                                                         *)
(* The slots of an array are modelled with what is constructed in them, so *)
(* that relocations are made one by one, in the order of the code.         *)
(* Relocating an item cannot fail, constructing a new one may.  A pool     *)
(* never expands a block in place, which is the default of resource/pool,  *)
(* and never fails: initialize of a list is noexcept.                      *)
(***************************************************************************)
EXTENDS Containers, Integers, Sequences, FiniteSets, SequencesExt

CONSTANTS
    Kinds,       \* configurations of a list
    MaxCapacity, \* bounds the arrays
    OnlySound    \* leave out the calls that do not leave a list as the document says

ASSUME CapacityAssumption == MaxCapacity \in Nat
ASSUME KindsAssumption ==
    Kinds \subseteq [only : BOOLEAN, stuffed : BOOLEAN, circular : BOOLEAN, squeezed : Nat]

Empty == "empty"      \* no object in the slot
Moved == "moved from" \* an object that a move has left behind
Nothing == [capacity |-> 0, length |-> 0]

VARIABLES
    kind,   \* the configuration of all lists
    lists,  \* the storages
    living, \* how many items have been constructed and not destroyed
    blocks  \* how many arrays have been allocated and not deallocated

listVars == <<kind, lists, living, blocks>>

There == {l \in Lists : lists[l] # Nothing}

Offset(c, i) == IF i < c.capacity - c.begin THEN c.begin + i ELSE i - (c.capacity - c.begin)
Content(c) == [i \in 1 .. c.length |-> c.slots[Offset(c, i - 1)]]

\* The storage is inside of the list.
Squeezed(c) == kind.only \/ (kind.squeezed > 0 /\ c.capacity <= kind.squeezed)
Block(c) == IF Squeezed(c) \/ c.capacity = 0 THEN 0 ELSE 1

-----------------------------------------------------------------------------
(* Storages                                                                *)

Larger(m, n) == IF m > n THEN m ELSE n

\* A storage for a number of items, without items.
Storage(capacity) ==
    [capacity |-> IF kind.stuffed THEN capacity ELSE Larger(capacity, kind.squeezed),
     length |-> 0, begin |-> 0,
     slots |-> [k \in 0 .. Larger(capacity, kind.squeezed) - 1 |-> Empty]]

\* The length of a stuffed list is its capacity.
SetLength(c, n) == [c EXCEPT !.length = n, !.capacity = IF kind.stuffed THEN n ELSE @]

\* Items go from slots of one array to slots of the same or another one, one by one.
Carried(slots, moves, left) ==
    LET after[n \in 0 .. Len(moves)] ==
            IF n = 0 THEN slots
            ELSE [after[n - 1] EXCEPT
                    ![moves[n].to] = after[n - 1][moves[n].from], ![moves[n].from] = left]
    IN  after[Len(moves)]

Relocate(slots, moves) == Carried(slots, moves, Empty)
MoveAssign(slots, moves) == Carried(slots, moves, Moved)

\* Items first to last - 1 of c, forwards or backwards, by a number of places.
Forwards(c, first, last, by) ==
    [j \in 1 .. last - first |->
        [from |-> Offset(c, first + j - 1), to |-> Offset(c, first + j - 1 + by)]]
Backwards(c, first, last, by) == Reverse(Forwards(c, first, last, by))

\* Constructs items from the position on.
Construct(c, at, items) ==
    [c EXCEPT !.slots = [k \in DOMAIN c.slots |->
        IF \E j \in DOMAIN items : k = Offset(c, at + j - 1)
        THEN items[CHOOSE j \in DOMAIN items : k = Offset(c, at + j - 1)] ELSE c.slots[k]]]

Destruct(c, first, last) ==
    [c EXCEPT !.slots = [k \in DOMAIN c.slots |->
        IF \E i \in first .. last - 1 : k = Offset(c, i) THEN Empty ELSE c.slots[k]]]

-----------------------------------------------------------------------------
(* Inserting                                                               *)

\* Mutant of MakeRoom: relocates forwards on both sides.
MakeRoomForwards(c, at, gap) ==
    IF kind.circular /\ at * 2 < c.length
    THEN LET r == [c EXCEPT !.begin = IF @ >= gap THEN @ - gap ELSE c.capacity - (gap - @)]
         IN  [r EXCEPT !.slots = Relocate(@, Forwards(r, gap, gap + at, -gap)), !.length = @ + gap]
    ELSE [c EXCEPT !.slots = Relocate(@, Forwards(c, at, c.length, gap)), !.length = @ + gap]

\* makeRoom_: in a ring the shorter side gives way, otherwise what is behind the gap.
MakeRoom(c, at, gap) ==
    IF kind.circular /\ at * 2 < c.length
    THEN LET r == [c EXCEPT !.begin = IF @ >= gap THEN @ - gap ELSE c.capacity - (gap - @)]
         IN  [r EXCEPT !.slots = Relocate(@, Forwards(r, gap, gap + at, -gap)), !.length = @ + gap]
    ELSE [c EXCEPT !.slots = Relocate(@, Backwards(c, at, c.length, gap)), !.length = @ + gap]

\* reclaimRoom_, after a construction in the gap has failed: the items go back, by one place.
ReclaimRoom(c, at) == [c EXCEPT !.slots = Relocate(@, Forwards(c, at + 1, c.length, -1))]

\* The items of c and the new ones among them, in a new array.
Grown(c, capacity, at, items) ==
    LET n == Len(items)
        first == SubSeq(Content(c), 1, at)
        last == SubSeq(Content(c), at + 1, c.length)
    IN  SetLength(Construct(Storage(capacity), 0, first \o items \o last), c.length + n)

Remaining(c) == c.capacity - c.length

\* emplace doubles the capacity, batchInsertN adds what it lacks.
Extra(c, items) ==
    IF Len(items) > 1 THEN Len(items) - Remaining(c)
    ELSE IF ~kind.stuffed /\ c.capacity > 0 THEN c.capacity ELSE 1

\* One list changes.
Change(l, c, constructed) ==
    /\ lists' = [lists EXCEPT ![l] = c]
    /\ living' = living + constructed
    /\ blocks' = blocks - Block(lists[l]) + Block(c)
    /\ UNCHANGED kind

\* There is room, or there is to be a new array.
Fits(c, items) == Remaining(c) >= Len(items)
Growable(c, items) == Fits(c, items) \/ (~kind.only /\ c.capacity + Extra(c, items) <= MaxCapacity)

WithInserted(c, at, items) ==
    IF Fits(c, items) THEN Construct(MakeRoom(c, at, Len(items)), at, items)
    ELSE Grown(c, c.capacity + Extra(c, items), at, items)

\* emplace, insert, and batchInsertN of several.
Insert(l, at, items) ==
    /\ l \in There /\ at <= lists[l].length /\ Growable(lists[l], items)
    /\ Change(l, WithInserted(lists[l], at, items), Len(items))

\* emplaceFront, pushFront, emplaceBack, pushBack.
Push(l, x) == Insert(l, 0, <<x>>) \/ Insert(l, lists[l].length, <<x>>)

\* A constructor throws.  In a new array nothing is lost; in place, the gap is not given back.
InsertFails(l, at, items) ==
    LET c == lists[l] IN
    /\ l \in There /\ at <= c.length
    /\ Fits(c, items) => ~OnlySound
    /\ Change(l, IF Fits(c, items)
                 THEN ReclaimRoom(MakeRoom(c, at, Len(items)), at) ELSE c, 0)

\* forceExpandBack, reserve: the items go to the front of a new array.
ForceExpandBack(l, extra) ==
    LET c == lists[l] IN
    /\ l \in There /\ ~kind.only /\ ~kind.stuffed
    /\ extra > 0 /\ c.capacity + extra <= MaxCapacity
    /\ Change(l, Grown(c, c.capacity + extra, 0, <<>>), 0)

-----------------------------------------------------------------------------
(* Erasing                                                                 *)

\* Mutant of InPlacePopFront: the offset is not brought back into the array.
InPlacePopFrontBeyond(c, n) ==
    SetLength([Destruct(c, 0, n) EXCEPT !.begin = @ + n], c.length - n)

InPlacePopFront(c, n) ==
    SetLength([Destruct(c, 0, n) EXCEPT !.begin = IF @ + n >= c.capacity THEN 0 ELSE @ + n],
        c.length - n)

InPlacePopBack(c, n) == SetLength(Destruct(c, c.length - n, c.length), c.length - n)

\* inPlaceErase_: what is on the shorter side of a ring, or behind, is moved over what is erased.
\* The front side then pops one item, if it was given a position, or if it was given a range, as
\* many items as were moved.
InPlaceErase(c, from, to, range) ==
    IF kind.circular /\ from < c.length - to
    THEN InPlacePopFront([c EXCEPT !.slots = MoveAssign(@, Backwards(c, 0, from, to - from))],
            IF range THEN from ELSE 1)
    ELSE InPlacePopBack([c EXCEPT !.slots = MoveAssign(@, Forwards(c, to, c.length, from - to))],
            to - from)

\* eraseAndShrink: what is not erased goes to a new array that fits.
Shrunk(c, from, to) ==
    LET rest == SubSeq(Content(c), 1, from) \o SubSeq(Content(c), to + 1, c.length)
    IN  SetLength(Construct(Storage(Len(rest)), 0, rest), Len(rest))

\* A stuffed list shrinks.
WithErased(c, from, to, range) ==
    IF kind.stuffed /\ ~Squeezed(c) THEN Shrunk(c, from, to) ELSE InPlaceErase(c, from, to, range)

\* What erase may be called with: a position, or a range, which is not empty (an empty one would
\* move items onto themselves).
Erasable(c, from, to, range) ==
    /\ from < to /\ to <= c.length /\ (range \/ to = from + 1)
    /\ ~(kind.only /\ kind.stuffed)

\* Of a range on the front side of a ring, of any length, as many items are popped as lie before
\* it, and where the pops go past the end of the array the offset becomes 0, whatever is left: any
\* other range loses items or keeps some that have been moved from.
PopsTheErased(c, from, to, range) ==
    range /\ kind.circular /\ from < c.length - to =>
        to - from = from /\ c.begin + from <= c.capacity

\* erase, and popBack and popFront of a stuffed list.
Erase(l, from, to, range) ==
    /\ l \in There /\ Erasable(lists[l], from, to, range)
    /\ OnlySound => PopsTheErased(lists[l], from, to, range)
    /\ Change(l, WithErased(lists[l], from, to, range), from - to)

EraseAndShrink(l, from, to) ==
    LET c == lists[l] IN
    /\ l \in There /\ from < to /\ to <= c.length
    /\ ~kind.only /\ ~kind.circular /\ ~Squeezed(c)
    /\ Change(l, Shrunk(c, from, to), from - to)

\* popBack, and popFront, of a list that is not stuffed.  popFront compiles for no list that is
\* circular or of fixed capacity, and of the others the offset of the first item stays 0.
Pop(l, n, front) ==
    LET c == lists[l] IN
    /\ l \in There /\ ~kind.stuffed /\ n \in 1 .. c.length
    /\ front => ~OnlySound /\ ~kind.only /\ ~kind.circular
    /\ Change(l, IF front THEN SetLength(Destruct(c, 0, n), c.length - n) ELSE InPlacePopBack(c, n), -n)

-----------------------------------------------------------------------------
(* Whole lists                                                             *)

\* The constructors: default, with a capacity, and from a range.
Create(l, capacity, items) ==
    /\ l \notin There
    /\ Len(items) = capacity \/ (items = <<>> /\ ~kind.stuffed)
    /\ capacity > 0 => ~kind.only
    /\ Change(l, SetLength(Construct(Storage(capacity), 0, items), Len(items)), Len(items))

\* Relocated item by item into the storage inside of a list.
Inside(items) == SetLength(Construct(Storage(0), 0, items), Len(items))

\* The copy constructor: an array that fits.
Copied(c) == SetLength(Construct(Storage(c.length), 0, Content(c)), c.length)

Clone(l, m) ==
    /\ l \in There /\ m \notin There
    /\ Change(m, Copied(lists[l]), lists[l].length)

\* The move constructor: relocateTo, and an empty list is left.
Move(l, m) ==
    /\ l \in There /\ m \notin There
    /\ lists' = [lists EXCEPT
            ![m] = IF Squeezed(lists[l]) THEN Inside(Content(lists[l])) ELSE lists[l], ![l] = Storage(0)]
    /\ UNCHANGED <<kind, living, blocks>>

\* swapWith: of a storage inside of a list the items go into the other.  Where both are inside
\* itemWiseSwapWith_ runs for ever unless one of them is empty, and then forgets the capacity of a
\* stuffed list that was not.
SwapEndsWell(c, d) == Squeezed(c) /\ Squeezed(d) =>
    0 \in {c.length, d.length} /\ (kind.stuffed => c.length = d.length)

Swapped(c, d) ==
    IF ~Squeezed(c) THEN c
    ELSE IF ~Squeezed(d) THEN Inside(Content(c))
    ELSE SetLength(Construct(Destruct(d, 0, d.length), 0, Content(c)), c.length)

Swap(l, m) ==
    /\ {l, m} \subseteq There /\ l # m /\ SwapEndsWell(lists[l], lists[m])
    /\ lists' = [lists EXCEPT ![l] = Swapped(lists[m], lists[l]), ![m] = Swapped(lists[l], lists[m])]
    /\ UNCHANGED <<kind, living, blocks>>

\* The copy assignment swaps with a temporary copy, which is destroyed with what there was.
Assign(l, m) ==
    LET copy == Copied(lists[m])
    IN  /\ {l, m} \subseteq There /\ l # m /\ SwapEndsWell(lists[l], copy)
        /\ Change(l, Swapped(copy, lists[l]), copy.length - lists[l].length)

\* The destructor.
Destroy(l) == l \in There /\ Change(l, Nothing, -lists[l].length)

-----------------------------------------------------------------------------
\* A stuffed ring would forget how large its array is.
ListInit ==
    /\ kind \in Kinds /\ (OnlySound => ~(kind.stuffed /\ kind.circular))
    /\ lists = [l \in Lists |-> Nothing]
    /\ living = 0 /\ blocks = 0

Sizes == 0 .. MaxCapacity
Inserted == {<<x>> : x \in Items} \cup {<<x, y>> : x, y \in Items}

ListNext == \E l \in Lists :
    \/ \E n \in Sizes : Create(l, n, <<>>)
    \/ \E items \in Inserted : Create(l, Len(items), items)
    \/ \E at \in Sizes, items \in Inserted : Insert(l, at, items) \/ InsertFails(l, at, items)
    \/ \E x \in Items : Push(l, x)
    \/ \E n \in Sizes : ForceExpandBack(l, n) \/ (\E front \in BOOLEAN : Pop(l, n, front))
    \/ \E from, to \in Sizes :
          (\E range \in BOOLEAN : Erase(l, from, to, range)) \/ EraseAndShrink(l, from, to)
    \/ Destroy(l)
    \/ \E m \in Lists : Clone(l, m) \/ Move(l, m) \/ Swap(l, m) \/ Assign(l, m)

ListSpec == ListInit /\ [][ListNext]_listVars

-----------------------------------------------------------------------------
(* Properties                                                              *)

\* How many there are in all of what each list has a number of.
Total(number) == Cardinality(UNION {{l} \X (1 .. number[l]) : l \in Lists})

\* Every item of a list is constructed, in the slot that the list expects it in, and nothing else
\* is; what was constructed and is in no list has been destroyed, and what was allocated and is
\* of no list has been deallocated (the livingCount of the tests).
ItemsInPlace ==
    /\ living = Total([l \in Lists |-> lists[l].length])
    /\ blocks = Total([l \in Lists |-> Block(lists[l])])
    /\ \A l \in There :
        LET c == lists[l]
            occupied == {Offset(c, i) : i \in 0 .. c.length - 1}
        IN  /\ c.length <= c.capacity /\ c.begin \in 0 .. Larger(c.capacity - 1, 0)
            /\ occupied \subseteq DOMAIN c.slots
            /\ \A k \in DOMAIN c.slots :
                IF k \in occupied THEN c.slots[k] \in Items ELSE c.slots[k] = Empty

\* Whatever has become of a list by growing, wrapping around and shrinking, the next call does to
\* it what it would do to a sequence: items are inserted at their position and erased from
\* theirs, and all others are kept in their order (emplace, batchInsertN, erase, swapWith).  Of
\* every list this is said of every insertion that constructs its items and of erasing at every
\* position.  It is not said of the ranges on the front side of a ring that inPlaceErase_ gets
\* wrong, nor of the swaps of two lists that keep their items inside, which do not end well.
ActsAsSequence == \A l \in There :
    LET c == lists[l]
        s == Content(c)
        n == c.length
    IN  /\ \A at \in 0 .. n, items \in Inserted : Growable(c, items) =>
            Content(WithInserted(c, at, items)) = SubSeq(s, 1, at) \o items \o SubSeq(s, at + 1, n)
        /\ \A from, to \in 0 .. n, range \in BOOLEAN :
            Erasable(c, from, to, range) /\ PopsTheErased(c, from, to, range) =>
            Content(WithErased(c, from, to, range)) = SubSeq(s, 1, from) \o SubSeq(s, to + 1, n)
        /\ \A m \in There : SwapEndsWell(c, lists[m]) => Content(Swapped(c, lists[m])) = s
=============================================================================
