---------------------------- MODULE AggregateSigning ----------------------------
(***************************************************************************)
(* An aggregate transaction and its signatures                             *)
(* (src/src/model/transaction/AggregateTransaction.ts, Transaction.ts,     *)
(* CosignatureTransaction.ts).  An initiator builds an aggregate, sets its *)
(* fee, signs it, sends the payload to cosigners or announces it, and puts *)
(* the cosignatures it gets into the payload it sends at last.  Aggregates *)
(* are values: each operation makes a new one of the one it has.           *)
(*                                                                         *)
(* A signature is a function of what it signs (ed25519), so a hash is what *)
(* the hash covers.  A cosignature carries, for the properties, what its   *)
(* signer saw, and what the hash it signed was of: the two differ when an  *)
(* aggregate that REST gave with its hash was changed before it was        *)
(* cosigned.                                                               *)
(***************************************************************************)
EXTENDS MerkleHash, FiniteSets

CONSTANTS Transactions,   \* inner transactions, of one size
          Cosigners,      \* accounts that cosign
          Deadlines,      \* deadlines
          MaxInner,       \* bound: inner transactions
          MaxCosignatures,\* bound: cosignatures collected
          MaxAttached,    \* bound: cosignatures of an aggregate or a payload
          NoPayload       \* nothing was signed yet

ASSUME SigningBoundsAssumption ==
    MaxInner \in Nat \ {0} /\ MaxCosignatures \in Nat /\ MaxAttached \in Nat
ASSUME CosignersAssumption == IsFiniteSet(Cosigners)

VARIABLES aggregate,   \* the initiator's AggregateTransaction
          payload,     \* the SignedTransaction made last, or NoPayload
          collected    \* the cosignatures the initiator was sent

signingVars == <<aggregate, payload, collected>>

-----------------------------------------------------------------------------
(* Sizes in bytes and hashes.  The slips (Slip...) are plausible bugs of    *)
(* these pieces; no specification uses them.                                *)
HeaderSize == 168
TransactionSize == 96
SizePerCosignature == 8 + 32 + 64

SizeOf(inner, cosignatures) ==
    HeaderSize + TransactionSize * Len(inner) + SizePerCosignature * Len(cosignatures)

\* Transaction.size: the size REST gave, or that of the transaction built now.
Size(a) == IF a.payloadSize # 0 THEN a.payloadSize ELSE SizeOf(a.innerTransactions, a.cosignatures)

\* calculateInnerTransactionHash(): the root of the hashes of the embedded transactions.
InnerTransactionHash(inner) == CalculateRootHash([i \in DOMAIN inner |-> <<inner[i]>>])

\* createTransactionHash(): of an aggregate, the header and the transactions' hash.
SlipHashOfAll(a) ==
    [deadline |-> a.deadline, maxFee |-> a.maxFee, body |-> <<a.innerTransactions, Len(a.cosignatures)>>]
SlipHashOfHeader(a) == [deadline |-> a.deadline, maxFee |-> a.maxFee, body |-> <<>>]
TransactionHash(a) ==
    [deadline |-> a.deadline, maxFee |-> a.maxFee, body |-> <<InnerTransactionHash(a.innerTransactions)>>]

\* setMaxFeeForAggregate() with a multiplier of 1.
SlipAttachedOnly(a, required) == Size(a)
CalculatedSize(a, required) ==
    LET attached == Len(a.cosignatures)
    IN  Size(a) - attached * SizePerCosignature
          + SizePerCosignature * (IF required > attached THEN required ELSE attached)

\* What a cosigner reads in a payload.
Contents(a) == [deadline |-> a.deadline, maxFee |-> a.maxFee, innerTransactions |-> a.innerTransactions]

\* signWith(): the payload holds the cosignatures the aggregate has.
SignWith(a) == [deadline |-> a.deadline, maxFee |-> a.maxFee, innerTransactions |-> a.innerTransactions,
                cosignatures |-> a.cosignatures, hash |-> TransactionHash(a),
                size |-> SizeOf(a.innerTransactions, a.cosignatures), fee |-> a.fee]

\* The cosignatures are appended, and the size written again.
SlipSizeKept(signed, cosignatures) == [signed EXCEPT !.cosignatures = @ \o cosignatures]
Appended(signed, cosignatures) ==
    [signed EXCEPT !.cosignatures = @ \o cosignatures,
                   !.size = @ + SizePerCosignature * Len(cosignatures)]

\* KeyPair.sign of a hash of contents; saw is what the cosigner had before it.
Cosignature(cosigner, hash, of, saw) == [signer |-> cosigner, hash |-> hash, of |-> of, saw |-> saw]

\* Of the contents of an aggregate or a payload, with the hash of them.
CosignatureOf(cosigner, a) == Cosignature(cosigner, TransactionHash(a), Contents(a), Contents(a))

-----------------------------------------------------------------------------
\* No fee was set: it covers nothing.
NoFee == [inner |-> 0, required |-> 0, stale |-> FALSE]

\* transactionInfo: none before the transaction was announced, and then the hash it was
\* announced with (and, for the properties, what of).
Unannounced == {}
AnnouncedAs(signed) == {[hash |-> signed.hash, of |-> Contents(signed)]}

SigningInit == /\ \E t \in Transactions, d \in Deadlines :
                    aggregate = [innerTransactions |-> <<t>>, cosignatures |-> <<>>, deadline |-> d,
                                 maxFee |-> 0, payloadSize |-> 0, transactionInfo |-> Unannounced,
                                 fee |-> NoFee]
               /\ payload = NoPayload
               /\ collected = {}

\* DtoMapping.assign keeps the rest of the aggregate, the transactionInfo included.
AddTransactions(t) ==
    /\ Len(aggregate.innerTransactions) < MaxInner
    /\ aggregate' = [aggregate EXCEPT !.innerTransactions = Append(@, t)]
    /\ UNCHANGED <<payload, collected>>

AddCosignatures(c) ==
    /\ Len(aggregate.cosignatures) < MaxAttached
    /\ aggregate' = [aggregate EXCEPT !.cosignatures = Append(@, c)]
    /\ UNCHANGED <<payload, collected>>

SetMaxFeeForAggregate(required) ==
    /\ aggregate' = [aggregate EXCEPT
         !.maxFee = CalculatedSize(aggregate, required),
         !.fee = [inner |-> Len(aggregate.innerTransactions), required |-> required,
                  stale |-> aggregate.payloadSize \notin
                              {0, SizeOf(aggregate.innerTransactions, aggregate.cosignatures)}]]
    /\ UNCHANGED <<payload, collected>>

\* reapplyGiven() refuses a transaction that was announced.
ReapplyGiven(d) ==
    /\ aggregate.transactionInfo = Unannounced /\ aggregate.deadline # d
    /\ aggregate' = [aggregate EXCEPT !.deadline = d]
    /\ UNCHANGED <<payload, collected>>

SignForCosigners ==
    /\ payload' = SignWith(aggregate)
    /\ UNCHANGED <<aggregate, collected>>

\* CosignatureTransaction.signTransactionPayload(), offline, of the payload sent around.
SignTransactionPayload(cosigner) ==
    /\ payload # NoPayload /\ Cardinality(collected) < MaxCosignatures
    /\ collected' = collected \union {CosignatureOf(cosigner, payload)}
    /\ UNCHANGED <<aggregate, payload>>

\* Whatever is given is appended, of signers who have cosigned already too.
SignTransactionGivenSignatures(cosignatures) ==
    /\ Len(aggregate.cosignatures) + Len(cosignatures) <= MaxAttached
    /\ payload' = Appended(SignWith(aggregate), cosignatures)
    /\ UNCHANGED <<aggregate, collected>>

\* The initiator has the cosigners' keys: they sign the hash of the aggregate it has.
SignTransactionWithCosignatories(cosigners) ==
    /\ Len(aggregate.cosignatures) + Len(cosigners) <= MaxAttached
    /\ payload' = Appended(SignWith(aggregate),
                           [i \in DOMAIN cosigners |-> CosignatureOf(cosigners[i], aggregate)])
    /\ UNCHANGED <<aggregate, collected>>

CreateFromPayload ==
    /\ payload # NoPayload
    /\ aggregate' = [innerTransactions |-> payload.innerTransactions, cosignatures |-> payload.cosignatures,
                     deadline |-> payload.deadline, maxFee |-> payload.maxFee, payloadSize |-> 0,
                     transactionInfo |-> Unannounced, fee |-> payload.fee]
    /\ UNCHANGED <<payload, collected>>

\* The payload was announced, and the aggregate is read from REST with the payload's size
\* and hash.
CreateFromDTO ==
    /\ payload # NoPayload
    /\ aggregate' = [innerTransactions |-> payload.innerTransactions, cosignatures |-> payload.cosignatures,
                     deadline |-> payload.deadline, maxFee |-> payload.maxFee, payloadSize |-> payload.size,
                     transactionInfo |-> AnnouncedAs(payload), fee |-> payload.fee]
    /\ UNCHANGED <<payload, collected>>

\* CosignatureTransaction.signWith() without a hash of the caller's: it signs the one in the
\* aggregate's transactionInfo, whatever was done to the aggregate since, and throws when
\* there is none.
SlipHashBeforeFee(cosigner, info) ==
    Cosignature(cosigner, [info.hash EXCEPT !.maxFee = 0], info.of, Contents(aggregate))
CosignatureWith(cosigner, info) == Cosignature(cosigner, info.hash, info.of, Contents(aggregate))
CosignAnnounced(cosigner) ==
    /\ Cardinality(collected) < MaxCosignatures
    /\ \E info \in aggregate.transactionInfo :
          collected' = collected \union {CosignatureWith(cosigner, info)}
    /\ UNCHANGED <<aggregate, payload>>

SigningNext == \/ \E t \in Transactions : AddTransactions(t)
               \/ \E c \in collected : AddCosignatures(c)
               \/ \E required \in 1..Cardinality(Cosigners) : SetMaxFeeForAggregate(required)
               \/ \E d \in Deadlines : ReapplyGiven(d)
               \/ SignForCosigners
               \/ \E cosigner \in Cosigners : SignTransactionPayload(cosigner) \/ CosignAnnounced(cosigner)
               \/ \E S \in SeqOf(collected, MaxAttached) : SignTransactionGivenSignatures(S)
               \/ \E S \in SeqOf(Cosigners, MaxAttached) : SignTransactionWithCosignatories(S)
               \/ CreateFromPayload
               \/ CreateFromDTO

SigningSpec == SigningInit /\ [][SigningNext]_signingVars

-----------------------------------------------------------------------------
Cosigned == IF payload = NoPayload THEN {} ELSE ToSet(payload.cosignatures)

\* A payload says its own size and hash, and every variable has its type.
SigningTypeOK ==
    /\ aggregate.deadline \in Deadlines /\ aggregate.maxFee \in Nat
    /\ Len(aggregate.innerTransactions) \in 1..MaxInner
    /\ \A c \in collected \union Cosigned : c.signer \in Cosigners
    /\ payload # NoPayload =>
         /\ payload.size = SizeOf(payload.innerTransactions, payload.cosignatures)
         /\ payload.hash = TransactionHash(payload)

\* The aggregate that was cosigned was not changed after REST gave it with its hash.
AsAnnounced(c) == c.saw = c.of

\* A cosignature of the contents that are sent is valid, whatever was added to the
\* initiator's aggregate, taken away again, signed or attached in between: it is of the
\* payload's hash (createTransactionHash, signTransactionGivenSignatures,
\* signTransactionPayload, CosignatureTransaction.signWith).
CosignedContentsAreValid ==
    \A c \in Cosigned : AsAnnounced(c) /\ c.saw = Contents(payload) => c.hash = payload.hash

\* Conversely a valid cosignature is of the contents that are sent, when neither they nor
\* what the cosigner saw have more than two transactions.
ValidIsCosignedContents ==
    \A c \in Cosigned :
        (/\ AsAnnounced(c) /\ c.hash = payload.hash
         /\ Len(payload.innerTransactions) <= 2 /\ Len(c.saw.innerTransactions) <= 2)
            => c.saw = Contents(payload)

\* A cosignature that is sent is valid exactly if it is of what is sent, unless the
\* aggregate was changed between its reading from REST and its cosigning.
CosignaturesMatchContents == CosignedContentsAreValid /\ ValidIsCosignedContents

\* The fee that was set for the transactions of a payload pays for its size, when it has
\* no more cosignatures than foreseen and the size was not a remembered one that no longer
\* held (setMaxFeeForAggregate, Transaction.size).
FeeCovers ==
    (/\ payload # NoPayload
     /\ payload.fee.inner = Len(payload.innerTransactions) /\ ~payload.fee.stale
     /\ Len(payload.cosignatures) <= payload.fee.required) => payload.maxFee >= payload.size

-----------------------------------------------------------------------------
(* What comments and messages say, and the code does not do.               *)

\* "an Announced transaction can't be modified" (Transaction.ts:353): what is cosigned with
\* the hash REST gave is what the cosigner has before it.
CosignedIsWhatIsSeen == \A c \in collected : c.hash = TransactionHash(c.saw)

\* "if there is an odd number of hashes, duplicate the last one"
\* (MerkleHashBuilder.ts:79): the transactions' hash is their Merkle root.
IsMerkleRoot ==
    InnerTransactionHash(aggregate.innerTransactions) =
        MerkleRoot([i \in DOMAIN aggregate.innerTransactions |-> <<aggregate.innerTransactions[i]>>])

\* The fee is the multiplier times the size of the aggregate it is set for, also when that
\* was read from REST and changed.
FeeAlwaysCovers ==
    (/\ payload # NoPayload
     /\ payload.fee.inner = Len(payload.innerTransactions)
     /\ Len(payload.cosignatures) <= payload.fee.required) => payload.maxFee >= payload.size
=============================================================================
