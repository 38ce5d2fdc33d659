--------------------------- MODULE LinkedContract ---------------------------
(***************************************************************************)
(* What document/container/linked.md promises of container/linked.hpp: a   *)
(* linked list is a sequence of nodes after an end, items are inserted     *)
(* before or after a position and erased from it, all the other nodes stay *)
(* where they are, and a call that throws has done nothing.                *)
(*                                                                         *)
(* A ring lists the end of a linked list first and then its nodes.         *)
(***************************************************************************)
EXTENDS Integers, Sequences, SequencesExt

CONSTANTS Lists, Units, Items

NoItem == "no item" \* what the end of a list holds
NoUnit == -1

VARIABLES
    rings, \* of each list the units it consists of, with their items
    answer \* how the last call has ended, with the unit that it has returned the position of

contractVars == <<rings, answer>>

There == {l \in Lists : rings[l] # <<>>}
UnitsOf(ring) == {ring[k].unit : k \in DOMAIN ring}
Used == UNION {UnitsOf(rings[l]) : l \in Lists}
Answer(of, u) == [of |-> of, unit |-> u]
Holding(u, x) == [unit |-> u, item |-> x]

\* The position that follows the one at k.
After(ring, k) == ring[IF k = Len(ring) THEN 1 ELSE k + 1].unit

Create(l) == \E u \in Units :
    /\ answer' = Answer("create", NoUnit)
    /\ l \notin There /\ u \notin Used
    /\ rings' = [rings EXCEPT ![l] = <<Holding(u, NoItem)>>]

\* The copy has nodes of its own and the same items.
Clone(l, m) ==
    /\ answer' = Answer("clone", NoUnit)
    /\ l \in There /\ m \notin There
    /\ \E copy \in {rings'[m]} :
        /\ rings' = [rings EXCEPT ![m] = copy]
        /\ Len(copy) = Len(rings[l])
        /\ \A k \in DOMAIN copy :
            /\ copy[k].item = rings[l][k].item /\ copy[k].unit \in Units \ Used
            /\ \A j \in DOMAIN copy : copy[j].unit = copy[k].unit => j = k

Destroy(l) ==
    /\ answer' = Answer("destroy", NoUnit)
    /\ l \in There
    /\ rings' = [rings EXCEPT ![l] = <<>>]

\* After position k, which for the end means at the front.
Insert(l, k, x) == \E u \in Units :
    /\ answer' = Answer("insert", u)
    /\ u \notin Used
    /\ rings' = [rings EXCEPT ![l] = InsertAt(@, k + 1, Holding(u, x))]

\* What erase returns, other than eraseAfter, is left open.
Erase(l, k) ==
    /\ answer'.of = "erase" \/ answer' = Answer("eraseAfter", After(rings[l], k))
    /\ k > 1
    /\ rings' = [rings EXCEPT ![l] = RemoveAt(@, k)]

Swap(l, m) ==
    /\ answer' = Answer("swap", NoUnit)
    /\ {l, m} \subseteq There
    /\ rings' = [rings EXCEPT ![l] = rings[m], ![m] = rings[l]]

Throw == answer' = Answer("throw", NoUnit) /\ UNCHANGED rings

ContractInit == rings = [l \in Lists |-> <<>>] /\ answer = Answer("none", NoUnit)

ContractNext ==
    \/ Throw
    \/ \E l \in Lists :
        \/ Create(l) \/ Destroy(l)
        \/ \E k \in DOMAIN rings[l] : Erase(l, k) \/ (\E x \in Items : Insert(l, k, x))
        \/ \E m \in Lists : Clone(l, m) \/ Swap(l, m)

ContractSpec == ContractInit /\ [][ContractNext]_contractVars
=============================================================================
