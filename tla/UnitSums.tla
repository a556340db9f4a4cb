------------------------------ MODULE UnitSums ------------------------------
(* The sum of a natural-valued function over a finite set, counted unit by *)
(* unit as the number of pairs <<element, unit>>: the form in which facts  *)
(* about cardinalities prove facts about sums.                             *)
EXTENDS Integers, FiniteSets

Units(S, f) == UNION {{i} \X (1..f[i]) : i \in S}
Sum(S, f) == Cardinality(Units(S, f))
=============================================================================
