---------------------------- MODULE MCAliasResolution ----------------------------
(* Instances of AliasResolution for TLC: two accounts are interchangeable.  *)
EXTENDS AliasResolution, TLC

CONSTANTS alice, bob

Symmetry == Permutations(Meanings)
=============================================================================
