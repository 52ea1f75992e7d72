------------------------------ MODULE PatriciaTree ------------------------------
(***************************************************************************)
(* The path of a state in the node's Patricia tree, from the root to its   *)
(* leaf, read from the bytes REST gives (src/src/model/state/              *)
(* MerkleTreeParser.ts, MerkleTree.ts).                                    *)
(*                                                                         *)
(* A raw tree is a sequence of bytes in which a hash counts as one; the    *)
(* code reads 32.  A hash is what is hashed.                               *)
(***************************************************************************)
EXTENDS Integers, Sequences, InOrder

BranchMarker == 0
LeafMarker == 255
NoLink == <<>>    \* a hash of zeros

-----------------------------------------------------------------------------
(* MerkleTreeParser.  The slips (Slip...) are plausible bugs of these       *)
(* pieces; no specification uses them.                                      *)

\* The numbers of the bits that are set in the two bytes, the low one first.
BitsFromMask(mask) ==
    LET intValue == mask[1] + 256 * mask[2]
    IN  Ascending({bit \in 0..15 : (intValue \div 2^bit) % 2 = 1})

PathLength(nibbleCount) == (nibbleCount + 1) \div 2

NibbleAt(path, index) ==
    LET byte == path[index \div 2 + 1] IN IF index % 2 = 0 THEN byte \div 16 ELSE byte % 16

\* A flag for a leaf, a flag and the first nibble if their number is odd, and the others
\* two by two.
SlipEvenOnly(path, nibbleCount, isLeaf) ==
    [k \in 1..nibbleCount \div 2 + 1 |->
        IF k = 1 THEN IF isLeaf THEN 32 ELSE 0
        ELSE NibbleAt(path, 2 * k - 4) * 16 + NibbleAt(path, 2 * k - 3)]
EncodePath(path, nibbleCount, isLeaf) ==
    LET odd == nibbleCount % 2
    IN  [k \in 1..nibbleCount \div 2 + 1 |->
           IF k = 1 THEN (IF isLeaf THEN 32 ELSE 0) + (IF odd = 1 THEN 16 + NibbleAt(path, 0) ELSE 0)
           ELSE NibbleAt(path, 2 * k - 4 + odd) * 16 + NibbleAt(path, 2 * k - 3 + odd)]

BranchHash(encodedPath, links) ==
    <<"branch", encodedPath,
      [bit \in 0..15 |-> IF \E i \in DOMAIN links : links[i].bit = bit
                         THEN links[CHOOSE i \in DOMAIN links : links[i].bit = bit].link ELSE NoLink]>>
LeafHash(encodedPath, value) == <<"leaf", encodedPath, value>>

\* A node and what is left of the bytes behind it; the path is already read.
ParseBranch(offsetRaw, path, nibbleCount) ==
    LET bits  == BitsFromMask(SubSeq(offsetRaw, 1, 2))
        links == [i \in DOMAIN bits |-> [bit |-> bits[i], link |-> offsetRaw[2 + i]]]
    IN  [rest |-> SubSeq(offsetRaw, 3 + Len(bits), Len(offsetRaw)),
         node |-> [type |-> BranchMarker, links |-> links,
                   hash |-> BranchHash(EncodePath(path, nibbleCount, FALSE), links)]]
ParseLeaf(offsetRaw, path, nibbleCount) ==
    [rest |-> Tail(offsetRaw),
     node |-> [type |-> LeafMarker, value |-> Head(offsetRaw),
               hash |-> LeafHash(EncodePath(path, nibbleCount, TRUE), Head(offsetRaw))]]

ParseNode(raw) ==
    LET pathLength == PathLength(raw[2])
        path       == SubSeq(raw, 3, 2 + pathLength)
        offsetRaw  == SubSeq(raw, 3 + pathLength, Len(raw))
    IN  IF raw[1] = BranchMarker THEN ParseBranch(offsetRaw, path, raw[2])
        ELSE IF raw[1] = LeafMarker THEN ParseLeaf(offsetRaw, path, raw[2])
        ELSE [rest |-> <<>>, node |-> [type |-> raw[1]]]

\* After so many nodes: those, and the bytes that are left.  A node takes at least one.
NextParsed(st) ==
    LET parsed == ParseNode(st.rest) IN [rest |-> parsed.rest, nodes |-> Append(st.nodes, parsed.node)]
Parsed(raw) ==
    LET upto[n \in 0..Len(raw)] ==
          IF n = 0 THEN [rest |-> raw, nodes |-> <<>>]
          ELSE LET st == upto[n - 1] IN IF st.rest = <<>> THEN st ELSE NextParsed(st)
    IN  upto

\* It raises if there is something else than branches and leaves; toProof() raises of
\* no nodes, too.
ParseMerkleTreeFromRaw(raw) ==
    LET nodes == Parsed(raw)[Len(raw)].nodes
    IN  IF \A i \in DOMAIN nodes : nodes[i].type \in {BranchMarker, LeafMarker} THEN nodes ELSE <<>>

\* MerkleTree.fromRaw: the branches, and the leaves, of which the first one counts.
OfType(nodes, type) ==
    LET places == Ascending({i \in DOMAIN nodes : nodes[i].type = type})
    IN  [k \in DOMAIN places |-> nodes[places[k]]]
FromRaw(raw) ==
    LET nodes == ParseMerkleTreeFromRaw(raw)
    IN  [branches |-> OfType(nodes, BranchMarker), leaf |-> OfType(nodes, LeafMarker)]

-----------------------------------------------------------------------------
(* The node's tree: the branches above, from the root down, each with the   *)
(* nibbles of its path, the number of the link that is followed and the     *)
(* hashes of the others, and the leaf with the nibbles that are left.       *)
Pack(nibbles) == [k \in 1..Len(nibbles) \div 2 |-> nibbles[2 * k - 1] * 16 + nibbles[2 * k]]
Prefixed(nibbles, flag) ==
    Pack((IF Len(nibbles) % 2 = 1 THEN <<flag + 1>> ELSE <<flag, 0>>) \o nibbles)
Written(nibbles) == <<Len(nibbles)>> \o Pack(IF Len(nibbles) % 2 = 1 THEN nibbles \o <<0>> ELSE nibbles)

\* The sixteen links of a branch; the one to the node below may lead to nothing.
Linked(branch, below) ==
    [bit \in 0..15 |-> IF bit = branch.bit THEN below
                       ELSE IF bit \in branch.others THEN <<"other", bit>> ELSE NoLink]
Bits(branch, below) == {bit \in 0..15 : Linked(branch, below)[bit] # NoLink}
LinksOf(branch, below) ==
    LET bits == Ascending(Bits(branch, below))
    IN  [k \in DOMAIN bits |-> [bit |-> bits[k], link |-> Linked(branch, below)[bits[k]]]]
Mask(branch, below) ==
    LET sum[n \in 0..16] == IF n = 0 THEN 0
                            ELSE sum[n - 1] + (IF n - 1 \in Bits(branch, below) THEN 2^(n - 1) ELSE 0)
    IN  sum[16]

Above(branch, below) == <<"branch", Prefixed(branch.nibbles, 0), Linked(branch, below)>>
RawBranch(branch, below) ==
    <<BranchMarker>> \o Written(branch.nibbles) \o <<Mask(branch, below) % 256, Mask(branch, below) \div 256>>
      \o [k \in DOMAIN LinksOf(branch, below) |-> LinksOf(branch, below)[k].link]
LeafNode(nibbles, value) == <<"leaf", Prefixed(nibbles, 2), value>>
RawLeaf(nibbles, value) == <<LeafMarker>> \o Written(nibbles) \o <<value>>

NodeAbove(branch, below) ==
    [hash |-> Above(branch, below.hash), raw |-> RawBranch(branch, below.hash) \o below.raw]

\* The hash of the n lowest branches, and the bytes from there down, from those of the leaf.
Upwards(branches, leaf) ==
    LET node[n \in 0..Len(branches)] ==
          IF n = 0 THEN leaf
          ELSE LET below == node[n - 1] IN NodeAbove(branches[Len(branches) + 1 - n], below)
    IN  node
=============================================================================
