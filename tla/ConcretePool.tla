---------------------------- MODULE ConcretePool ----------------------------
(***************************************************************************)
(* resource/concrete_pool.hpp: ConcretePinnedPool, an array of units.  The *)
(* free ones are chained from m_first_ on, each by the index of the next   *)
(* in its own storage (UnitStorage_ is a union), the last by unitCount.    *)
(*                                                                         *)
(* A memory is what is in the units: next, which is both the link of the   *)
(* pool and the m_next_ of a LinkedNodeHeader at the start of the unit,    *)
(* previous of the header, and first of the pool itself.                   *)
(***************************************************************************)
EXTENDS Integers

CONSTANT UnitCount

ASSUME UnitCountAssumption == UnitCount \in Nat

Units == 0 .. UnitCount - 1

VARIABLE memory

Filled == [next |-> [u \in Units |-> u + 1], previous |-> [u \in Units |-> 0], first |-> 0]

Exhausted == memory.first = UnitCount

\* allocate returns the first unit.
Allocate(m) == [m EXCEPT !.first = m.next[@]]

\* Mutant of Deallocate: the unit keeps what link it has.
DeallocateUnlinked(m, u) == [m EXCEPT !.previous[u] = 0, !.first = u]

\* deallocate links a unit in front of the others.  Nothing is left of what was in it.
Deallocate(m, u) == [m EXCEPT !.next[u] = m.first, !.previous[u] = 0, !.first = u]

=============================================================================
