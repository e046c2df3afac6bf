---------------------------- MODULE QuantitySums ----------------------------
(***************************************************************************)
(* Sums of quantities, as the services take them over database rows         *)
(* (Sum("quantity") and the like): the units behind each index are counted. *)
(* A count needs no recursion, so facts about sums can be proved.           *)
(***************************************************************************)
EXTENDS Integers, FiniteSets

\* The units of the quantities q[i] for the indices i of S.
Units(q, S) == UNION {{i} \X (1..q[i]) : i \in S}

SumOver(q, S) == Cardinality(Units(q, S))

Sum(q) == SumOver(q, DOMAIN q)
=============================================================================
