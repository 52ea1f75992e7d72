---------------------------- MODULE MultisigCompletion ----------------------------
(***************************************************************************)
(* AggregateTransactionService.isComplete()                                *)
(* (src/src/service/AggregateTransactionService.ts): whether the signers   *)
(* of an aggregate transaction are enough for the signer of each of its    *)
(* inner transactions.  The multisig settings of all inner signers are     *)
(* asked for at once; the answers come in any order, and for a multisig    *)
(* account its graph is asked for next.                                    *)
(***************************************************************************)
EXTENDS Integers, SequencesExt

CONSTANTS Accounts,
          Networks,    \* multisig settings of all accounts, see Network
          Inner,       \* the inner transactions
          ListsAbove   \* whether a graph has the accounts its root is a cosignatory of

Network == [cosignatories : [Accounts -> SUBSET Accounts],
            minApproval : [Accounts -> Nat], minRemoval : [Accounts -> Nat]]

IsMultisig(network, a) == network.minApproval[a] # 0 /\ network.minRemoval[a] # 0

ASSUME AccountsAssumption == IsFiniteSet(Accounts)
ASSUME NetworksAssumption ==
    /\ Networks \subseteq Network
    /\ \A network \in Networks : \A a \in Accounts :
         IsMultisig(network, a) <=> network.cosignatories[a] # {}
ASSUME ListsAboveAssumption == ListsAbove \in BOOLEAN

VARIABLES network,           \* the settings on the chain
          signers,           \* who signed the aggregate: its cosignatures, then its initiator
          innerTransactions, \* of each its signer and whether it removes cosignatories
          stage,             \* each inner transaction: "info", "graph", "validated"
          verdict,           \* whether its signer's cosignatories have signed
          emitted            \* what isComplete emitted

inputs == <<network, signers, innerTransactions>>
completionVars == <<inputs, stage, verdict, emitted>>

-----------------------------------------------------------------------------
(* The graph of an account: level 0 is the account, level n + 1 holds the   *)
(* cosignatories of level n, level -n - 1 the multisig accounts of -n if    *)
(* the REST server lists them.                                              *)

Depth == Cardinality(Accounts)

Down(root) == LET level[n \in 0..Depth] ==
                      IF n = 0 THEN {root}
                      ELSE UNION {network.cosignatories[a] : a \in level[n - 1]}
              IN  level
Up(root) == LET level[n \in 0..Depth] ==
                    IF n = 0 THEN {root}
                    ELSE UNION {{m \in Accounts : a \in network.cosignatories[m]} : a \in level[n - 1]}
            IN  level

MultisigEntries(root) ==
    [n \in -Depth..Depth |-> IF n >= 0 THEN Down(root)[n] ELSE IF ListsAbove THEN Up(root)[-n] ELSE {}]

\* getMaxCosignatures() tells Address objects apart and not addresses: a cosignatory counts
\* once for each entry of the graph that names it.
GetMaxCosignatures(root) ==
    MapThenSumSet(LAMBDA n : MapThenSumSet(LAMBDA a : Cardinality(network.cosignatories[a]),
                                           MultisigEntries(root)[n]),
                  -Depth..Depth)

-----------------------------------------------------------------------------
(* validateCosignatories.  The slips (Slip...) are plausible bugs of these  *)
(* pieces; no specification uses them.                                      *)

\* How many of the received signatures are by cosignatories of a (compareArrays).
Matched(received, a) == Cardinality({n \in DOMAIN received : received[n] \in network.cosignatories[a]})

SlipAlwaysApproval(a, removal) == network.minApproval[a]
Required(a, removal) == IF removal THEN network.minRemoval[a] ELSE network.minApproval[a]

\* A multisig account that has enough of them counts as a signer at the next level.
SlipNotPassedOn(received, a) == received
PassedOn(received, a) == IF a \in ToSet(received) THEN received ELSE Append(received, a)

CheckAccount(state, a, removal) ==
    IF Matched(state.received, a) >= Required(a, removal)
    THEN [received |-> PassedOn(state.received, a), valid |-> TRUE]
    ELSE [state EXCEPT !.valid = FALSE]

\* The states after each of the accounts of a level; order is the order the repository lists
\* the multisig accounts in.  The others are passed over.
AccountsChecked(state, order, level, removal) ==
    LET after[n \in 0..Len(order)] ==
            IF n = 0 THEN state
            ELSE IF order[n] \in level THEN CheckAccount(after[n - 1], order[n], removal)
            ELSE after[n - 1]
    IN  after

\* A level is skipped once a lower one has been found valid.
CheckLevel(state, order, level, removal) ==
    IF state.valid THEN state ELSE AccountsChecked(state, order, level, removal)[Len(order)]

\* The states after each of the levels, from the deepest upwards.
LevelsChecked(tx, order) ==
    LET after[n \in 0..(2 * Depth + 1)] ==
            IF n = 0 THEN [received |-> signers, valid |-> FALSE]
            ELSE CheckLevel(after[n - 1], order, MultisigEntries(tx.signer)[Depth + 1 - n], tx.removal)
    IN  after

ValidateCosignatories(tx, order) == LevelsChecked(tx, order)[2 * Depth + 1].valid

-----------------------------------------------------------------------------
Leaves(net) == {a \in Accounts : ~IsMultisig(net, a)}

CompletionInit ==
    /\ network \in Networks
    /\ \E initiator \in Leaves(network) :
         \E cosigners \in SUBSET (Leaves(network) \ {initiator}) :
           signers = Append(SetToSeq(cosigners), initiator)
    /\ innerTransactions \in [Inner -> [signer : Accounts, removal : BOOLEAN]]
    /\ stage = [i \in Inner |-> "info"]
    /\ verdict = [i \in Inner |-> FALSE]
    /\ emitted = "none"

SlipShortCircuit(i, valid) ==
    /\ stage' = [stage EXCEPT ![i] = "validated"]
    /\ verdict' = [verdict EXCEPT ![i] = valid]
    /\ emitted' = IF ~valid THEN "incomplete"
                 ELSE IF \A j \in Inner : verdict'[j] THEN "complete" ELSE "none"

\* The observable emits when the last inner transaction has been validated.
Validated(i, valid) ==
    /\ stage' = [stage EXCEPT ![i] = "validated"]
    /\ verdict' = [verdict EXCEPT ![i] = valid]
    /\ emitted' = IF \E j \in Inner : stage'[j] # "validated" THEN "none"
                 ELSE IF \A j \in Inner : verdict'[j] THEN "complete" ELSE "incomplete"

(* getMultisigAccountInfo answers.                                          *)
InfoArrives(i) ==
    /\ emitted = "none"
    /\ stage[i] = "info"
    /\ IF IsMultisig(network, innerTransactions[i].signer)
       THEN /\ stage' = [stage EXCEPT ![i] = "graph"]
            /\ UNCHANGED <<verdict, emitted>>
       ELSE Validated(i, innerTransactions[i].signer \in ToSet(signers))
    /\ UNCHANGED inputs

(* getMultisigAccountGraphInfo answers.                                     *)
GraphArrives(i) ==
    /\ emitted = "none"
    /\ stage[i] = "graph"
    /\ \E order \in SetToSeqs({a \in Accounts : IsMultisig(network, a)}) :
          Validated(i, ValidateCosignatories(innerTransactions[i], order))
    /\ UNCHANGED inputs

(* A lookup fails, and with it the observable.                              *)
Fails(i) ==
    /\ emitted = "none"
    /\ stage[i] # "validated"
    /\ emitted' = "error"
    /\ UNCHANGED <<inputs, stage, verdict>>

CompletionNext == \E i \in Inner : InfoArrives(i) \/ GraphArrives(i) \/ Fails(i)

CompletionSpec == CompletionInit /\ [][CompletionNext]_completionVars

-----------------------------------------------------------------------------
\* The reference: those whose requirement for a transaction is met, from the signers
\* upwards until nothing changes any more.
AuthorisedBy(removal) ==
    LET by[n \in 0..Depth] ==
            IF n = 0 THEN ToSet(signers)
            ELSE LET below == by[n - 1] IN below \union
                 {a \in Accounts : /\ IsMultisig(network, a)
                                   /\ Cardinality(network.cosignatories[a] \intersect below)
                                        >= IF removal THEN network.minRemoval[a]
                                                      ELSE network.minApproval[a]}
    IN  by
Authorised(removal) == AuthorisedBy(removal)[Depth]

Complete == \A i \in Inner : innerTransactions[i].signer \in Authorised(innerTransactions[i].removal)

\* Neither a cosignatory of a nor an account a is a cosignatory of is involved in
\* another multisig account.
Flat(a) == /\ \A m \in Accounts : a \notin network.cosignatories[m]
           /\ \A c \in network.cosignatories[a] : ~IsMultisig(network, c)

\* Every variable has its type, and isComplete has emitted when all is validated.
CompletionTypeOK ==
    /\ network \in Networks
    /\ signers \in Seq(Accounts)
    /\ innerTransactions \in [Inner -> [signer : Accounts, removal : BOOLEAN]]
    /\ stage \in [Inner -> {"info", "graph", "validated"}]
    /\ verdict \in [Inner -> BOOLEAN]
    /\ emitted \in {"none", "complete", "incomplete", "error"}
    /\ \A i \in Inner : verdict[i] => stage[i] = "validated"
    /\ emitted \in {"complete", "incomplete"} => \A i \in Inner : stage[i] = "validated"

\* A complete transaction is never called incomplete, whatever the levels of the graph,
\* the order the accounts are listed in and the order of the answers (validateCosignatories).
CompleteIsAccepted == emitted = "incomplete" => ~Complete

\* A transaction called complete is complete, if no multisig account of its inner
\* signers is a cosignatory of another.
FlatAcceptedIsComplete ==
    (\A i \in Inner : Flat(innerTransactions[i].signer)) => (emitted = "complete" => Complete)

-----------------------------------------------------------------------------
(* What the documentation says, and the code does not do.                  *)

\* "Check if an aggregate complete transaction has all cosignatories attached"
\* (AggregateTransactionService.ts:48): a multisig cosignatory that is complete makes
\* the account it cosigns for complete, as its level is skipped.
AcceptedIsComplete == emitted = "complete" => Complete

\* "Get total multisig account cosigner count" (AggregateTransactionService.ts:87): the
\* cosignatories of the accounts of a graph, one that two of them share taken once.
CosignersCountedOnce ==
    \A root \in Accounts :
        GetMaxCosignatures(root) =
            Cardinality(UNION {network.cosignatories[a] : a \in UNION {MultisigEntries(root)[n] : n \in -Depth..Depth}})
=============================================================================
