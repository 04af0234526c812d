------------------------------ MODULE SortedSets ------------------------------
(* Numbers put in their order: what a sort, or pushing positions one after    *)
(* the other, leaves behind.                                                  *)
EXTENDS Naturals, FiniteSets

\* By R, the pairs whose first goes before their second.
Ordered(S, R) ==
    [k \in 1..Cardinality(S) |-> CHOOSE r \in S : Cardinality({q \in S : <<q, r>> \in R}) = k - 1]

Ascending(S) == Ordered(S, {z \in S \X S : z[1] < z[2]})
===============================================================================
