------------------------------ MODULE MCValueDelta ------------------------------
(* An instance of ValueDelta for TLC: texts of up to two characters.        *)
EXTENDS ValueDelta, TLC

MCTexts == {<<>>, <<{1}>>, <<{2}>>, <<{1}, {2}>>}
Symmetry == Permutations(Accounts) \union Permutations(Mosaics)
=============================================================================
