---------------------------- MODULE MCContainers ----------------------------
(***************************************************************************)
(* Instances of List and Linked for TLC: two containers of either, over    *)
(* arrays of at most four items or a pool of five units.                   *)
(***************************************************************************)
EXTENDS List, Linked, TLC

CONSTANTS l1, l2, a, b

\* The configurations of the tests, with room for one item inside of a list.
Kind(only, stuffed, circular, squeezed) ==
    [only |-> only, stuffed |-> stuffed, circular |-> circular, squeezed |-> squeezed]
MCKinds == {
    Kind(FALSE, FALSE, FALSE, 0), Kind(FALSE, FALSE, FALSE, 1), Kind(FALSE, TRUE, FALSE, 1),
    Kind(FALSE, FALSE, TRUE, 1), Kind(TRUE, FALSE, FALSE, 4)}

\* Containers and values are treated alike.
Alike == Permutations(Lists) \cup Permutations(Items)

-----------------------------------------------------------------------------
(* The one or the other, told apart by their initial states.               *)

VARIABLE part

vars == <<part, listVars, linkedVars>>

Init ==
    \/ part = "list" /\ ListInit
       /\ LinkedInit /\ bidirectional
    \/ part = "linked" /\ LinkedInit
       /\ ListInit /\ kind = Kind(FALSE, FALSE, FALSE, 0)

Next ==
    /\ UNCHANGED part
    /\ \/ part = "list" /\ ListNext /\ UNCHANGED linkedVars
       \/ part = "linked" /\ LinkedNext /\ UNCHANGED listVars

Spec == Init /\ [][Next]_vars
=============================================================================
