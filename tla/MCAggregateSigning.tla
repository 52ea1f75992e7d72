--------------------------- MODULE MCAggregateSigning ---------------------------
(* Instances of AggregateSigning for TLC.                                   *)
EXTENDS AggregateSigning, TLC

CONSTANTS t1, t2, carol

Symmetry == Permutations(Transactions)
=============================================================================
