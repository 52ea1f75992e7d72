-------------------------- MODULE MCMultisigCompletion --------------------------
(* Instances of MultisigCompletion for TLC: three accounts that sign, and up *)
(* to three multisig accounts in the ways their levels can interact.         *)
EXTENDS MultisigCompletion, TLC

CONSTANTS outer, nested, second, alice, bob, carol

\* Networks in which the multisig accounts have the given cosignatories and the
\* thresholds that Wanted admits (approvals p and removals r of outer, q and s of nested).
Settings(ofOuter, ofNested, ofSecond, Wanted(_, _, _, _)) ==
    {[cosignatories |-> outer :> ofOuter @@ nested :> ofNested @@ second :> ofSecond
                        @@ [a \in Accounts |-> {}],
      minApproval |-> outer :> t[1] @@ nested :> t[2]
                      @@ second :> Cardinality(ofSecond) @@ [a \in Accounts |-> 0],
      minRemoval  |-> outer :> t[3] @@ nested :> t[4]
                      @@ second :> Cardinality(ofSecond) @@ [a \in Accounts |-> 0]] :
        t \in {u \in (1..2) \X (1..2) \X (1..2) \X (1..2) : Wanted(u[1], u[2], u[3], u[4])}}

\* Side by side, one below the other, one below that shares a cosignatory, and two below.
FlatNetworks   == Settings({alice, bob}, {bob, carol}, {}, LAMBDA p, q, r, s : p # r /\ q # s)
NestedNetworks == Settings({alice, nested}, {bob, carol}, {}, LAMBDA p, q, r, s : r = 1 /\ q # s)
                  \union Settings({bob, nested}, {bob, carol}, {}, LAMBDA p, q, r, s : p = 2 /\ r = s)
SplitNetworks  == Settings({nested, second}, {alice, bob}, {bob, carol}, LAMBDA p, q, r, s : r = 2 /\ q = s)
AllNetworks    == FlatNetworks \union NestedNetworks \union SplitNetworks
=============================================================================
