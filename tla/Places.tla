-------------------------------- MODULE Places --------------------------------
(***************************************************************************)
(* A list that was filtered, as the set of the places its elements have in *)
(* the list it was filtered from: the filter keeps their order.            *)
(***************************************************************************)
EXTENDS Integers, FiniteSets

\* The index, from 0, that the element at place i has among those at `places`.
Before(places, i) == Cardinality({j \in places : j < i})

\* The place of the element with the index k.
Nth(places, k) == CHOOSE i \in places : Before(places, i) = k
=============================================================================
