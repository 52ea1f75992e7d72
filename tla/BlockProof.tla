------------------------------- MODULE BlockProof -------------------------------
(***************************************************************************)
(* Proofs from REST: that a transaction or a statement is in a block       *)
(* (src/src/service/BlockService.ts), that a block's transactions have the *)
(* root it says, and what the state of an entity is                        *)
(* (src/src/service/StateProofService.ts).  Every proof takes several      *)
(* requests, between which the chain may change: another block comes, or   *)
(* another branch of the chain takes over.                                 *)
(*                                                                         *)
(* A chain is told by the block at the height and by the entity in         *)
(* question.                                                               *)
(***************************************************************************)
EXTENDS MerkleHash, ChainState, PatriciaTree, FiniteSets

CONSTANTS Chains,       \* chains: [transactions : Seq(hash), receipts : Seq(statement),
                        \*   entity : version of its state, or Absent,
                        \*   root : as a namespace it is a root, children : paths of ids below it,
                        \*   branches, nibbles : where its tree has it (PatriciaTree)]
          Absent,       \* there is no such entity
          Transactions, \* hashes of transactions that proofs are asked for
          Statements,   \* and statements: [types : Seq(receipt type), version]
          PageSize,     \* transactions on a page
          MaxChanges    \* bound: changes of the chain

ASSUME SizeAssumption == PageSize \in Nat \ {0}
ASSUME ChangesAssumption == MaxChanges \in Nat
ASSUME StatementsAssumption ==
    \A statement \in Statements : statement.types \in Seq(DOMAIN ClassOfType)

\* A path below a root is one of one or two ids, and not there without what it begins with.
Nibbles == Seq(0..15)
Branch == [nibbles : Nibbles, bit : 0..15, others : SUBSET (0..15)]
ASSUME ChainsAssumption ==
    \A c \in Chains :
      /\ c.transactions \in Seq(Transactions) /\ c.receipts \in Seq(Statements)
      /\ c.nibbles \in Nibbles /\ c.branches \in Seq(Branch)
      /\ IsFiniteSet(c.children)
      /\ \A p \in c.children : /\ p \in Seq(Nat) /\ Len(p) \in {1, 2}
                               /\ Len(p) = 2 => <<p[1]>> \in c.children

VARIABLES chain,    \* the node's chain
          changes,  \* how often it changed
          op,       \* the call: [name, leaf, begun: changes when it was made], or Idle
          read,     \* the answers so far, by request
          failed,   \* a request failed
          result    \* "none", "true", "false" or "error"

vars == <<chain, changes, op, read, failed, result>>

-----------------------------------------------------------------------------
(* Trees.  The node's proof path of a leaf: the neighbour's hash and its    *)
(* side at every level.                                                     *)
Height(leaves) == CHOOSE n \in 0..Len(leaves) :
    Len(Levels(leaves)[n]) = 1 /\ \A m \in 0..Len(leaves) : m < n => Len(Levels(leaves)[m]) # 1
\* Where the leaf's hash is on each level.
Places(leaves, i) ==
    LET place[n \in 0..Len(leaves)] == IF n = 0 THEN i ELSE (place[n - 1] + 1) \div 2
    IN  place
PathOf(leaves, i) ==
    [n \in 1..Height(leaves) |->
        LET level == Levels(leaves)[n - 1]
            place == Places(leaves, i)[n - 1]
            mate  == IF place % 2 = 0 THEN place - 1 ELSE IF place < Len(level) THEN place + 1 ELSE place
        IN  [position |-> IF place % 2 = 0 THEN "left" ELSE "right", hash |-> level[mate]]]

\* The leaf of a statement: its receipts and where they come from, or a resolution.
StatementLeaf(statement) ==
    <<"statement", statement.version>> \o
      FlattenSeq([i \in DOMAIN statement.types |->
          LET type == statement.types[i] IN <<type>> \o Stored(ClassOfType[type], statement.version)])
List(c, what) == IF what = "transactions" THEN c.transactions
                 ELSE [i \in DOMAIN c.receipts |-> StatementLeaf(c.receipts[i])]
Holds(c, what, leaf) == \E i \in DOMAIN List(c, what) : List(c, what)[i] = leaf
MerklePath(c, what, leaf) == PathOf(List(c, what), CHOOSE i \in DOMAIN List(c, what) : List(c, what)[i] = leaf)

\* The leaf of an entity, the nodes above it, and its path as bytes and as JSON.
Before(p, q) == \/ p[1] < q[1]
                \/ p[1] = q[1] /\ Len(p) < Len(q)
                \/ p[1] = q[1] /\ Len(p) = 2 /\ Len(q) = 2 /\ p[2] < q[2]
Ordered(paths) == [k \in 1..Cardinality(paths) |->
    CHOOSE p \in paths : Cardinality({q \in paths : q = p \/ Before(q, p)}) = k]
LeafOf(c, kind) == Stored(kind, c.entity) \o (IF kind = "namespace" THEN Ordered(c.children) ELSE <<>>)
Lowest(c, kind) == IF c.entity = Absent THEN [hash |-> NoLink, raw |-> <<>>]
                   ELSE [hash |-> LeafNode(c.nibbles, LeafOf(c, kind)),
                         raw  |-> RawLeaf(c.nibbles, LeafOf(c, kind))]
TreeOf(c, kind) == Upwards(c.branches, Lowest(c, kind))
StateRoot(c, kind) == TreeOf(c, kind)[Len(c.branches)].hash
Raw(c, kind) == TreeOf(c, kind)[Len(c.branches)].raw
Given(c, kind) ==
    [branches |-> [i \in DOMAIN c.branches |->
        LET below == TreeOf(c, kind)[Len(c.branches) - i].hash
        IN  [type |-> BranchMarker, links |-> LinksOf(c.branches[i], below), hash |-> Above(c.branches[i], below)]],
     leaf |-> IF c.entity = Absent THEN <<>>
              ELSE <<[type |-> LeafMarker, value |-> LeafOf(c, kind), hash |-> Lowest(c, kind).hash]>>]

(* BlockService.  The slips (Slip...) are plausible bugs; no specification  *)
(* uses them.                                                               *)
AddPathItem(proofHash, item) ==
    IF item.position = "left" THEN Hash(item.hash, proofHash) ELSE Hash(proofHash, item.hash)
SlipAnySide(leaf, path, rootHash) ==
    LET proofHash[n \in 0..Len(path)] == IF n = 0 THEN leaf ELSE Hash(proofHash[n - 1], path[n].hash)
    IN  proofHash[Len(path)] = rootHash
ValidateInBlock(leaf, path, rootHash) ==
    LET proofHash[n \in 0..Len(path)] == IF n = 0 THEN leaf ELSE AddPathItem(proofHash[n - 1], path[n])
    IN  IF path = <<>> THEN leaf = rootHash ELSE proofHash[Len(path)] = rootHash

\* A block's transactions as REST lists them: the call asks for no order.
Orders == {<<"asc">>, <<"desc">>}
Listed(c, order) ==
    LET n == Len(c.transactions)
        Index(k) == IF order = <<"asc">> THEN k ELSE n + 1 - k
    IN  [k \in 1..n |-> [index |-> Index(k), hash |-> c.transactions[Index(k)]]]

\* Their hashes, sorted by index.
Rank(all, p) ==
    Cardinality({q \in DOMAIN all : \/ all[q].index < all[p].index
                                   \/ (all[q].index = all[p].index /\ q <= p)})
SlipAsListed(all) == [k \in DOMAIN all |-> all[k].hash]
ByIndex(all) == [k \in DOMAIN all |-> all[CHOOSE p \in DOMAIN all : Rank(all, p) = k].hash]

\* A failed request settles the call as if the leaf were not in the block.
SlipNotCaught == "error"
Caught == "false"

\* The requests of a call: those sent together, in any order, or one after another.
BlockRequests == {"block", "path"}
Tree == "tree"

\* The requests for an entity that is asked for by its id; a namespace's children are
\* searched before its tree is read.
AccountToMultisig == [account |-> <<"info", Tree>>, namespace |-> <<"info", "children", Tree>>,
                      mosaic |-> <<"info", Tree>>, multisig |-> <<"info", Tree>>]
LocksToMetadata == [secretLock |-> <<"info", Tree>>, hashLock |-> <<"info", Tree>>,
                    accountRestriction |-> <<"info", Tree>>, addressRestriction |-> <<"info", Tree>>,
                    globalRestriction |-> <<"info", Tree>>, metadata |-> <<"info", Tree>>]
EntityRequests(kind) ==
    IF kind \in DOMAIN AccountToMultisig THEN AccountToMultisig[kind] ELSE LocksToMetadata[kind]
EntityKinds == DOMAIN AccountToMultisig \union DOMAIN LocksToMetadata

\* The hash of a statement read from REST.
GenerateHash(statement) ==
    <<"statement", statement.version>> \o
      FlattenSeq([i \in DOMAIN statement.types |->
          LET type  == statement.types[i]
              class == Receipts[ClassOfType[type]]
          IN  <<type>> \o Serialize(class, FromDto(class, Dto(class, statement.version)))])

\* What is hashed of an entity: for a namespace the version that was read first, and the
\* root and the paths below it that were searched.
Serialized(kind, info, found) ==
    LET class == Entities[kind]
    IN  IF kind # "namespace" THEN Serialize(class, info)
        ELSE <<info["version"]>> \o Tail(Serialize(class, FromDto(class, Dto(class, found.version))))
               \o NamespacePath(found.paths)

\* toMerkleStateInfo: the JSON of the tree, or the bytes if there is none.
ToMerkleStateInfo(c, kind, given) == IF given THEN Given(c, kind) ELSE FromRaw(Raw(c, kind))

\* toProof(): valid when the hash of what was read is the leaf of the tree; getRootHash()
\* takes the leaf for the root of a tree without branches, and raises without a leaf.
GetRootHash(tree) == IF tree.branches # <<>> THEN tree.branches[1].hash ELSE tree.leaf[1].hash
SlipLeafIsEnough(stateHash, tree) == IF tree.leaf # <<>> THEN "true" ELSE "false"
ToProof(stateHash, tree) ==
    IF tree.leaf = <<>> /\ tree.branches = <<>> THEN "error"
    ELSE IF tree.leaf # <<>> /\ stateHash = tree.leaf[1].value THEN "true" ELSE "false"

-----------------------------------------------------------------------------
Idle == [name |-> "idle", leaf |-> <<>>, begun |-> 0]
NoAnswers == [r \in {} |-> 0]

Init == /\ chain \in Chains
        /\ changes = 0
        /\ op = Idle
        /\ read = NoAnswers
        /\ failed = FALSE
        /\ result = "none"

Running(names) == op.name \in names /\ result = "none"
Calls(name, leaf) ==
    /\ op = Idle
    /\ op' = [name |-> name, leaf |-> leaf, begun |-> changes]
    /\ UNCHANGED <<chain, changes, read, failed, result>>

ValidateTransactionInBlock(leaf) == Calls("transactions", leaf)
ValidateStatementInBlock(statement) == Calls("receipts", GenerateHash(statement))
CalculateTransactionsMerkleRootHash(order) == Calls("root", order)
ProofById(kind) == Calls(kind, <<>>)

\* An answer to the requests that were sent together: both, or one failure, settle the
\* call.
BlockRoot(c) == MerkleRoot(List(c, op.name))
BlockAnswer(request) ==
    /\ Running({"transactions", "receipts"}) /\ request \in BlockRequests \ DOMAIN read
    /\ LET answer == IF request = "block" THEN BlockRoot(chain) ELSE MerklePath(chain, op.name, op.leaf)
           all    == [r \in DOMAIN read \union {request} |-> IF r = request THEN answer ELSE read[r]]
       IN  \/ /\ (request = "path" => Holds(chain, op.name, op.leaf))
              /\ read' = all
              /\ result' = IF DOMAIN all # BlockRequests THEN "none"
                           ELSE IF ValidateInBlock(op.leaf, all["path"], all["block"]) THEN "true" ELSE "false"
              /\ failed' = failed
           \/ \* not found, or the request failed
              /\ result' = Caught
              /\ failed' = ~(request = "path" /\ ~Holds(chain, op.name, op.leaf))
              /\ read' = read
    /\ UNCHANGED <<chain, changes, op>>

\* A page of the block's transactions; the last one is sorted with the others and hashed
\* by merkletreejs.  The caller compares the root with the one the block has.
PageAnswer ==
    /\ Running({"root"})
    /\ LET listed == Listed(chain, op.leaf)
           got    == IF read = NoAnswers THEN <<>> ELSE read["page"]
           upTo   == IF Len(listed) < Len(got) + PageSize THEN Len(listed) ELSE Len(got) + PageSize
           all    == got \o SubSeq(listed, Len(got) + 1, upTo)
           last   == Len(all) < Len(got) + PageSize
       IN  \/ /\ read' = [r \in {"page"} |-> all]
              /\ result' = IF ~last THEN "none"
                           ELSE IF MerkleRoot(ByIndex(all)) = MerkleRoot(chain.transactions) THEN "true" ELSE "false"
              /\ failed' = failed
           \/ result' = "error" /\ failed' = TRUE /\ read' = read
    /\ UNCHANGED <<chain, changes, op>>

\* The next answer about an entity; the tree's settles the call.  A namespace must be a
\* root when it is read first, and there when its children are searched.
Children(c) == {[version |-> c.entity, paths |-> paths] :
                   paths \in {SetToSeq(c.children), Reverse(SetToSeq(c.children))}}
Answers(request, kind) ==
    CASE request = "info" -> {FromDto(Entities[kind], Dto(Entities[kind], chain.entity))}
      [] request = "children" -> Children(chain)
      [] request = Tree -> {ToMerkleStateInfo(chain, kind, given) : given \in BOOLEAN}
Refused(request, kind) ==
    request = "info" /\ (chain.entity = Absent \/ (kind = "namespace" /\ ~chain.root))
Found == IF op.name = "namespace" THEN read["children"] ELSE <<>>
EntityAnswer ==
    /\ Running(EntityKinds)
    /\ LET request == EntityRequests(op.name)[Cardinality(DOMAIN read) + 1]
       IN  \/ /\ ~Refused(request, op.name)
              /\ \E answer \in Answers(request, op.name) :
                   /\ read' = [r \in DOMAIN read \union {request} |-> IF r = request THEN answer ELSE read[r]]
                   /\ result' = IF request # Tree THEN "none"
                                ELSE IF op.name = "namespace" /\ read["children"].version = Absent THEN "error"
                                ELSE ToProof(Serialized(op.name, read["info"], Found), answer)
              /\ failed' = failed
           \/ /\ result' = "error"
              /\ failed' = ~Refused(request, op.name)
              /\ read' = read
    /\ UNCHANGED <<chain, changes, op>>

ChainChanges(c) ==
    /\ changes < MaxChanges /\ c # chain
    /\ chain' = c
    /\ changes' = changes + 1
    /\ UNCHANGED <<op, read, failed, result>>

Next == \/ \E hash \in Transactions : ValidateTransactionInBlock(hash)
        \/ \E statement \in Statements : ValidateStatementInBlock(statement)
        \/ \E order \in Orders : CalculateTransactionsMerkleRootHash(order)
        \/ \E kind \in EntityKinds : ProofById(kind)
        \/ \E request \in BlockRequests : BlockAnswer(request)
        \/ PageAnswer
        \/ EntityAnswer
        \/ \E c \in Chains : ChainChanges(c)

Spec == Init /\ [][Next]_vars

-----------------------------------------------------------------------------
TypeOK ==
    /\ chain \in Chains /\ changes \in 0..MaxChanges /\ failed \in BOOLEAN
    /\ result \in {"none", "true", "false", "error"}
    /\ result = "error" => op.name \in {"root"} \union EntityKinds
    /\ op = Idle => read = NoAnswers

\* What is proven was so: the leaf is in a block with the root that was read, and the
\* state that was read, or for a namespace the one that was searched, is one the entity
\* had, part by part (validateInBlock, toProof, serialize).
ProvenWasSo ==
    result = "true" =>
      /\ (op.name \in {"transactions", "receipts"} =>
            \E c \in Chains : Holds(c, op.name, op.leaf) /\ MerkleRoot(List(c, op.name)) = read["block"])
      /\ (op.name \in EntityKinds =>
            \E c \in Chains :
              /\ c.entity # Absent /\ read[Tree].leaf[1].value = LeafOf(c, op.name)
              /\ IF op.name = "namespace" THEN ToSet(read["children"].paths) = c.children
                 ELSE \A f \in ToSet(Entities[op.name].serialized) : read["info"][f][2] = c.entity)

\* What is so is proven, when the chain stood still and no request failed
\* (validateTransactionInBlock, calculateTransactionsMerkleRootHash, accountById...,
\* generateHash, getNamespacePath).
UndisturbedIsProven ==
    (result \in {"false", "error"} /\ ~failed /\ changes = op.begun) =>
      \/ /\ op.name \in {"transactions", "receipts"}
         /\ ~Holds(chain, op.name, op.leaf)
      \/ /\ op.name \in EntityKinds
         /\ (chain.entity = Absent \/ (op.name = "namespace" /\ ~chain.root))

\* The root of the state a proof shows is that of a chain, however the tree was given:
\* every branch that was read from bytes is hashed as the node hashes it, with the node
\* below among its links (parseMerkleTreeFromRaw, toMerkleStateInfo, getRootHash).
RootIsTheChains ==
    op.name \in EntityKinds /\ result \in {"true", "false"} =>
        \E c \in Chains : StateRoot(c, op.name) = GetRootHash(read[Tree])
=============================================================================
