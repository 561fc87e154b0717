------------------------------- MODULE Picks -------------------------------
(***************************************************************************)
(* What is left of a sequence when only some of its places stay, in their  *)
(* order.  It is SelectSeq by places, and not recursive, so that what it   *)
(* returns can be proved.                                                  *)
(***************************************************************************)
EXTENDS Naturals, Sequences, FiniteSets

\* The place that has k of the places up to it.
PlaceOf(places, k) == CHOOSE n \in places : Cardinality({m \in places : m =< n}) = k

Picked(s, places) == [k \in 1..Cardinality(places) |-> s[PlaceOf(places, k)]]

\* An array or a queue without an entry.
Pulled(s, entry) == Picked(s, {n \in DOMAIN s : s[n] # entry})
=============================================================================
