----------------------------- MODULE Containers -----------------------------
(* What the models of the containers share.                                *)

EXTENDS FiniteSets

CONSTANTS
    Lists, \* the containers there may be
    Items  \* the values in them

ASSUME ListsAssumption == IsFiniteSet(Lists)
=============================================================================
