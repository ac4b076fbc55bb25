------------------------------- MODULE Places --------------------------------
(***************************************************************************)
(* Sequences that keep some places of another: a recording the draws of one *)
(* kind, a measurement the frames that follow one on one clock.             *)
(***************************************************************************)
EXTENDS Integers, FiniteSets

\* Where what place i has comes, of what the places of some have, in their order.
PlaceIn(i, some) == Cardinality({j \in some : j <= i})
=============================================================================
