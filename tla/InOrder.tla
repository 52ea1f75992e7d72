-------------------------------- MODULE InOrder --------------------------------
(* The numbers of a finite set, the least first.                            *)
EXTENDS Naturals, FiniteSets

Ascending(S) == [k \in 1..Cardinality(S) |-> CHOOSE n \in S : Cardinality({m \in S : m <= n}) = k]
=============================================================================
