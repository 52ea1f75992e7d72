------------------------------- MODULE MerkleHash -------------------------------
(***************************************************************************)
(* MerkleHashBuilder (src/src/core/crypto/MerkleHashBuilder.ts) and the    *)
(* Merkle root its comments describe.  The hash of two hashes is the pair  *)
(* of them, the hash of a transaction the tuple of its name.               *)
(***************************************************************************)
EXTENDS Naturals, Sequences, SequencesExt

Hash(left, right) == <<left, right>>
Empty == <<>>

\* One step of the for loop, at index i = 2k: the hash of two neighbours (or of an odd one
\* with itself) is spliced into the list at k; nothing is taken out.
SpliceParent(st, k) ==
    LET left == st.hashes[2 * k + 1]
    IN  IF 2 * k + 1 < st.remaining
        THEN [st EXCEPT !.hashes = InsertAt(@, k + 1, Hash(left, st.hashes[2 * k + 2]))]
        ELSE [hashes |-> InsertAt(st.hashes, k + 1, Hash(left, left)), remaining |-> st.remaining + 1]

\* The for loop: the list after k steps of it, for k up to the number of pairs; half as many
\* hashes remain.
Halved(st) ==
    LET pairs == (st.remaining + 1) \div 2
        step[k \in 0..pairs] == IF k = 0 THEN st ELSE SpliceParent(step[k - 1], k - 1)
    IN  [step[pairs] EXCEPT !.remaining = @ \div 2]

\* The while loop: it is over after fewer rounds than there are hashes.
WhileRemaining(hashes) ==
    LET round[n \in 0..Len(hashes)] ==
          IF n = 0 THEN [hashes |-> hashes, remaining |-> Len(hashes)]
          ELSE LET st == round[n - 1] IN IF st.remaining <= 1 THEN st ELSE Halved(st)
    IN  round[Len(hashes)].hashes[1]

CalculateRootHash(hashes) == IF hashes = <<>> THEN Empty ELSE WhileRemaining(hashes)

\* The root of the tree whose levels are the hashes of neighbouring pairs, the last hash
\* of an odd level taken twice.
LevelAbove(level) ==
    [k \in 1..((Len(level) + 1) \div 2) |->
        Hash(level[2 * k - 1], IF 2 * k <= Len(level) THEN level[2 * k] ELSE level[2 * k - 1])]

Levels(leaves) ==
    LET level[n \in 0..Len(leaves)] ==
          IF n = 0 THEN leaves
          ELSE LET below == level[n - 1] IN IF Len(below) <= 1 THEN below ELSE LevelAbove(below)
    IN  level

MerkleRoot(leaves) == IF leaves = <<>> THEN Empty ELSE Levels(leaves)[Len(leaves)][1]
=============================================================================
