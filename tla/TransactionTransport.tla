-------------------------- MODULE TransactionTransport --------------------------
(***************************************************************************)
(* What happens to a transaction on its way: it is created, wrapped for an *)
(* aggregate, serialised or signed into a payload, read back from it,      *)
(* turned into JSON by the SDK or by a REST gateway, read from JSON, and   *)
(* its aliases are resolved (src/src/infrastructure/transaction,           *)
(* src/src/model/transaction, src/src/model/message, src/src/core/utils).  *)
(*                                                                         *)
(* A field's value is a string that tells its case: an account is named by *)
(* "address" or "alias", a mosaic by "mosaic" or "alias", or it is an      *)
(* alias that a MosaicId holds ("misread"); a metadata value is "ascii" or *)
(* has "accents", which may have been encoded again and again ("twice",    *)
(* "more"); two numbers, ids or keys stand for all.                        *)
(***************************************************************************)
EXTENDS TransactionClasses, FiniteSets

VARIABLES sent,   \* the transaction as its creator means it
          form,   \* "object", "payload" or "json", "resolved", or "failed": an error was raised
          held,   \* the object, or what the payload or the JSON holds
          info    \* transactionInfo is there: it came from a node

vars == <<sent, form, held, info>>

-----------------------------------------------------------------------------
(* The classes by type.  A namespace registration of a root and of a sub    *)
(* namespace are two types here.                                            *)
Class(fields, builder, fromPayload, roles) ==
    [fields      |-> [f \in {fields[i][1] : i \in DOMAIN fields} |->
                        fields[CHOOSE i \in DOMAIN fields : fields[i][1] = f][2]],
     params      |-> [i \in DOMAIN fields |-> fields[i][1]],
     builder     |-> builder,
     fromPayload |-> fromPayload,
     roles       |-> roles]

Classes ==
  [TRANSFER |-> Class(TransferTransaction, TransferBuilder, TransferFromPayload, TransferRoles),
   ADDRESS_ALIAS |-> Class(AddressAliasTransaction, AddressAliasBuilder, AddressAliasFromPayload, AddressAliasRoles),
   MOSAIC_ALIAS |-> Class(MosaicAliasTransaction, MosaicAliasBuilder, MosaicAliasFromPayload, MosaicAliasRoles),
   ROOT_NAMESPACE |-> Class(RootNamespace, RootNamespaceBuilder, RootNamespaceFromPayload, NamespaceRegistrationRoles),
   SUB_NAMESPACE |-> Class(SubNamespace, SubNamespaceBuilder, SubNamespaceFromPayload, NamespaceRegistrationRoles),
   SECRET_LOCK |-> Class(SecretLockTransaction, SecretLockBuilder, SecretLockFromPayload, SecretLockRoles),
   SECRET_PROOF |-> Class(SecretProofTransaction, SecretProofBuilder, SecretProofFromPayload, SecretProofRoles),
   HASH_LOCK |-> Class(LockFundsTransaction, LockFundsBuilder, LockFundsFromPayload, LockFundsRoles),
   MOSAIC_DEFINITION |-> Class(MosaicDefinitionTransaction, MosaicDefinitionBuilder,
                               MosaicDefinitionFromPayload, MosaicDefinitionRoles),
   MOSAIC_SUPPLY_CHANGE |-> Class(MosaicSupplyChangeTransaction, MosaicSupplyChangeBuilder,
                                  MosaicSupplyChangeFromPayload, MosaicSupplyChangeRoles),
   MOSAIC_GLOBAL_RESTRICTION |-> Class(MosaicGlobalRestrictionTransaction, MosaicGlobalRestrictionBuilder,
                                       MosaicGlobalRestrictionFromPayload, MosaicGlobalRestrictionRoles),
   MOSAIC_ADDRESS_RESTRICTION |-> Class(MosaicAddressRestrictionTransaction, MosaicAddressRestrictionBuilder,
                                        MosaicAddressRestrictionFromPayload, MosaicAddressRestrictionRoles),
   ACCOUNT_METADATA |-> Class(AccountMetadataTransaction, AccountMetadataBuilder,
                              AccountMetadataFromPayload, AccountMetadataRoles),
   MOSAIC_METADATA |-> Class(MosaicMetadataTransaction, MosaicMetadataBuilder,
                             MosaicMetadataFromPayload, MosaicMetadataRoles),
   NAMESPACE_METADATA |-> Class(NamespaceMetadataTransaction, NamespaceMetadataBuilder,
                                NamespaceMetadataFromPayload, NamespaceMetadataRoles),
   ACCOUNT_ADDRESS_RESTRICTION |-> Class(AccountAddressRestrictionTransaction, AccountAddressRestrictionBuilder,
                                         AccountAddressRestrictionFromPayload, AccountAddressRestrictionRoles),
   ACCOUNT_MOSAIC_RESTRICTION |-> Class(AccountMosaicRestrictionTransaction, AccountMosaicRestrictionBuilder,
                                        AccountMosaicRestrictionFromPayload, AccountMosaicRestrictionRoles),
   ACCOUNT_OPERATION_RESTRICTION |-> Class(AccountOperationRestrictionTransaction, AccountOperationRestrictionBuilder,
                                           AccountOperationRestrictionFromPayload, AccountOperationRestrictionRoles),
   MULTISIG_ACCOUNT_MODIFICATION |-> Class(MultisigAccountModificationTransaction, MultisigAccountModificationBuilder,
                                           MultisigAccountModificationFromPayload, MultisigAccountModificationRoles),
   ACCOUNT_KEY_LINK |-> Class(AccountKeyLinkTransaction, AccountKeyLinkBuilder, AccountKeyLinkFromPayload, AccountKeyLinkRoles),
   NODE_KEY_LINK |-> Class(NodeKeyLinkTransaction, NodeKeyLinkBuilder, NodeKeyLinkFromPayload, NodeKeyLinkRoles),
   VRF_KEY_LINK |-> Class(VrfKeyLinkTransaction, VrfKeyLinkBuilder, VrfKeyLinkFromPayload, VrfKeyLinkRoles),
   VOTING_KEY_LINK |-> Class(VotingKeyLinkTransaction, VotingKeyLinkBuilder, VotingKeyLinkFromPayload, VotingKeyLinkRoles)]

Types == DOMAIN Classes
Fields(type) == DOMAIN Classes[type].fields
Kind(type, f) == Classes[type].fields[f]

\* The parts of a payload's body in the order of the schema, under their REST names.
Layout ==
  [TRANSFER |-> <<"recipientAddress", "mosaics", "message">>,
   ADDRESS_ALIAS |-> <<"namespaceId", "address", "aliasAction">>,
   MOSAIC_ALIAS |-> <<"namespaceId", "mosaicId", "aliasAction">>,
   ROOT_NAMESPACE |-> <<"duration", "name">>,
   SUB_NAMESPACE |-> <<"parentId", "name">>,
   SECRET_LOCK |-> <<"recipientAddress", "secret", "mosaic", "duration", "hashAlgorithm">>,
   SECRET_PROOF |-> <<"recipientAddress", "secret", "hashAlgorithm", "proof">>,
   HASH_LOCK |-> <<"mosaic", "duration", "hash">>,
   MOSAIC_DEFINITION |-> <<"id", "duration", "nonce", "flags", "divisibility">>,
   MOSAIC_SUPPLY_CHANGE |-> <<"mosaicId", "delta", "action">>,
   MOSAIC_GLOBAL_RESTRICTION |-> <<"mosaicId", "referenceMosaicId", "restrictionKey", "previousRestrictionValue",
                                   "newRestrictionValue", "previousRestrictionType", "newRestrictionType">>,
   MOSAIC_ADDRESS_RESTRICTION |-> <<"mosaicId", "restrictionKey", "previousRestrictionValue", "newRestrictionValue", "targetAddress">>,
   ACCOUNT_METADATA |-> <<"targetAddress", "scopedMetadataKey", "valueSizeDelta", "value">>,
   MOSAIC_METADATA |-> <<"targetAddress", "scopedMetadataKey", "targetMosaicId", "valueSizeDelta", "value">>,
   NAMESPACE_METADATA |-> <<"targetAddress", "scopedMetadataKey", "targetNamespaceId", "valueSizeDelta", "value">>,
   ACCOUNT_ADDRESS_RESTRICTION |-> <<"restrictionFlags", "restrictionAdditions", "restrictionDeletions">>,
   ACCOUNT_MOSAIC_RESTRICTION |-> <<"restrictionFlags", "restrictionAdditions", "restrictionDeletions">>,
   ACCOUNT_OPERATION_RESTRICTION |-> <<"restrictionFlags", "restrictionAdditions", "restrictionDeletions">>,
   MULTISIG_ACCOUNT_MODIFICATION |-> <<"minRemovalDelta", "minApprovalDelta", "addressAdditions", "addressDeletions">>,
   ACCOUNT_KEY_LINK |-> <<"linkedPublicKey", "linkAction">>,
   NODE_KEY_LINK |-> <<"linkedPublicKey", "linkAction">>,
   VRF_KEY_LINK |-> <<"linkedPublicKey", "linkAction">>,
   VOTING_KEY_LINK |-> <<"linkedPublicKey", "startEpoch", "endEpoch", "linkAction">>]
-----------------------------------------------------------------------------
(* JSON.  SerializeTransactionToJSON writes each field under its own name,  *)
(* but for a few; a lock's mosaicId and amount are one key here, "mosaic".  *)
FieldOf(type, key) == CASE key = "name" -> "namespaceName"
                       [] type = "MOSAIC_DEFINITION" /\ key = "id" -> "mosaicId"
                       [] OTHER -> key

WrittenAtoM ==
  [ACCOUNT_KEY_LINK |-> {"linkedPublicKey", "linkAction"},
   ADDRESS_ALIAS |-> {"aliasAction", "namespaceId", "address"},
   HASH_LOCK |-> {"mosaic", "duration", "hash"},
   ACCOUNT_ADDRESS_RESTRICTION |-> {"restrictionFlags", "restrictionAdditions", "restrictionDeletions"},
   ACCOUNT_OPERATION_RESTRICTION |-> {"restrictionFlags", "restrictionAdditions", "restrictionDeletions"},
   ACCOUNT_MOSAIC_RESTRICTION |-> {"restrictionFlags", "restrictionAdditions", "restrictionDeletions"},
   MULTISIG_ACCOUNT_MODIFICATION |-> {"minApprovalDelta", "minRemovalDelta", "addressAdditions", "addressDeletions"},
   MOSAIC_ALIAS |-> {"aliasAction", "namespaceId", "mosaicId"},
   MOSAIC_DEFINITION |-> {"nonce", "id", "flags", "divisibility", "duration"},
   MOSAIC_SUPPLY_CHANGE |-> {"mosaicId", "action", "delta"}]

WrittenNtoZ ==
  [ROOT_NAMESPACE |-> {"name", "duration"},
   SUB_NAMESPACE |-> {"name", "parentId"},
   SECRET_LOCK |-> {"mosaic", "duration", "hashAlgorithm", "secret", "recipientAddress"},
   SECRET_PROOF |-> {"hashAlgorithm", "secret", "recipientAddress", "proof"},
   TRANSFER |-> {"recipientAddress", "mosaics", "message"},
   MOSAIC_GLOBAL_RESTRICTION |-> {"mosaicId", "referenceMosaicId", "restrictionKey", "previousRestrictionValue",
                                  "previousRestrictionType", "newRestrictionValue", "newRestrictionType"},
   MOSAIC_ADDRESS_RESTRICTION |-> {"mosaicId", "restrictionKey", "targetAddress", "previousRestrictionValue", "newRestrictionValue"},
   ACCOUNT_METADATA |-> {"targetAddress", "scopedMetadataKey", "valueSizeDelta", "value"},
   MOSAIC_METADATA |-> {"targetAddress", "scopedMetadataKey", "valueSizeDelta", "targetMosaicId", "value"},
   NAMESPACE_METADATA |-> {"targetAddress", "scopedMetadataKey", "valueSizeDelta", "targetNamespaceId", "value"},
   VRF_KEY_LINK |-> {"linkedPublicKey", "linkAction"},
   NODE_KEY_LINK |-> {"linkedPublicKey", "linkAction"},
   VOTING_KEY_LINK |-> {"linkedPublicKey", "startEpoch", "endEpoch", "linkAction"}]

\* What CreateStandaloneTransactionFromDTO hands to the constructors, in the order of
\* their parameters, which is that of create() but for two classes.
ConstructorParams(type) ==
    CASE type = "MOSAIC_GLOBAL_RESTRICTION" ->
           <<"mosaicId", "referenceMosaicId", "restrictionKey", "previousRestrictionValue",
             "previousRestrictionType", "newRestrictionValue", "newRestrictionType">>
      [] type = "MOSAIC_ADDRESS_RESTRICTION" ->
           <<"mosaicId", "restrictionKey", "targetAddress", "previousRestrictionValue", "newRestrictionValue">>
      [] OTHER -> Classes[type].params

ReadTransferToMosaicAlias ==
  [TRANSFER |-> <<"recipientAddress", "mosaics", "message">>,
   ROOT_NAMESPACE |-> <<"name", "duration">>,
   SUB_NAMESPACE |-> <<"name", "parentId">>,
   MOSAIC_DEFINITION |-> <<"nonce", "id", "flags", "divisibility", "duration">>,
   MOSAIC_SUPPLY_CHANGE |-> <<"mosaicId", "action", "delta">>,
   MULTISIG_ACCOUNT_MODIFICATION |-> <<"minApprovalDelta", "minRemovalDelta", "addressAdditions", "addressDeletions">>,
   HASH_LOCK |-> <<"mosaic", "duration", "hash">>,
   SECRET_LOCK |-> <<"mosaic", "duration", "hashAlgorithm", "secret", "recipientAddress">>,
   SECRET_PROOF |-> <<"hashAlgorithm", "secret", "recipientAddress", "proof">>,
   MOSAIC_ALIAS |-> <<"aliasAction", "namespaceId", "mosaicId">>]

ReadAddressAliasToAccountMetadata ==
  [ADDRESS_ALIAS |-> <<"aliasAction", "namespaceId", "address">>,
   ACCOUNT_ADDRESS_RESTRICTION |-> <<"restrictionFlags", "restrictionAdditions", "restrictionDeletions">>,
   ACCOUNT_OPERATION_RESTRICTION |-> <<"restrictionFlags", "restrictionAdditions", "restrictionDeletions">>,
   ACCOUNT_MOSAIC_RESTRICTION |-> <<"restrictionFlags", "restrictionAdditions", "restrictionDeletions">>,
   ACCOUNT_KEY_LINK |-> <<"linkedPublicKey", "linkAction">>,
   MOSAIC_GLOBAL_RESTRICTION |-> <<"mosaicId", "referenceMosaicId", "restrictionKey", "previousRestrictionValue",
                                   "previousRestrictionType", "newRestrictionValue", "newRestrictionType">>,
   MOSAIC_ADDRESS_RESTRICTION |-> <<"mosaicId", "restrictionKey", "targetAddress", "previousRestrictionValue", "newRestrictionValue">>,
   ACCOUNT_METADATA |-> <<"targetAddress", "scopedMetadataKey", "valueSizeDelta", "value">>]

ReadMosaicMetadataToVoting ==
  [MOSAIC_METADATA |-> <<"targetAddress", "scopedMetadataKey", "targetMosaicId", "valueSizeDelta", "value">>,
   NAMESPACE_METADATA |-> <<"targetAddress", "scopedMetadataKey", "targetNamespaceId", "valueSizeDelta", "value">>,
   VRF_KEY_LINK |-> <<"linkedPublicKey", "linkAction">>,
   NODE_KEY_LINK |-> <<"linkedPublicKey", "linkAction">>,
   VOTING_KEY_LINK |-> <<"linkedPublicKey", "startEpoch", "endEpoch", "linkAction">>]

WrittenKeys(type) == IF type \in DOMAIN WrittenAtoM THEN WrittenAtoM[type] ELSE WrittenNtoZ[type]
ReadKeys(type) == CASE type \in DOMAIN ReadTransferToMosaicAlias -> ReadTransferToMosaicAlias[type]
                    [] type \in DOMAIN ReadAddressAliasToAccountMetadata -> ReadAddressAliasToAccountMetadata[type]
                    [] OTHER -> ReadMosaicMetadataToVoting[type]

-----------------------------------------------------------------------------
(* What conversions do to a field.  The slips (Slip...) are plausible bugs  *)
(* of these pieces; no specification uses them.                             *)

\* The values a creator may give a field of a kind.
Values ==
  [account |-> {"address", "alias"}, accounts |-> {"none", "address", "alias"}, address |-> {"address"},
   mosaic |-> {"mosaic", "alias"}, lockedMosaic |-> {"mosaic", "alias"}, mosaicIds |-> {"none", "mosaic", "alias"},
   mosaics |-> {"none", "mosaic", "alias", "unsorted"}, number |-> {"0", "1"}, id |-> {"0", "1"}, name |-> {"0", "1"},
   key |-> {"0", "1"}, secret |-> {"full", "short"}, value |-> {"ascii", "accents"},
   message |-> {"none", "plain", "encrypted", "delegation", "raw"}]

\* sortMosaics() puts the mosaics of a transfer in order, in the transaction itself.
Sorted(v) == IF v = "unsorted" THEN "sorted" ELSE v

\* A value encoded as UTF-8 twice, and read once.
Accented(v) == CASE v = "accents" -> "twice" [] v \in {"twice", "more"} -> "more" [] OTHER -> v
Utf8ToUint8(v) == Accented(v)

\* getSecretByte() fills a short secret up with zeros.
SecretByte(v) == IF v = "short" THEN "padded" ELSE v

\* getMessageBuffer() writes the type of a message and its text, and of a raw message the
\* byte 255 and the text of its hexadecimal digits.
MessageBuffer(v) == CASE v = "raw" -> "wrapped" [] v \in {"wrapped", "more"} -> "more" [] OTHER -> v

\* A MosaicId or a NamespaceId is written as the number it holds.
IdBytes(v) == IF v = "misread" THEN "alias" ELSE v

Written(kind, v) == CASE kind = "mosaics" -> Sorted(v)
                      [] kind = "value" -> Utf8ToUint8(v)
                      [] kind = "secret" -> SecretByte(v)
                      [] kind = "message" -> MessageBuffer(v)
                      [] OTHER -> IdBytes(v)

\* toUnresolvedAddress and toUnresolvedMosaic tell an alias by a bit; the MosaicId a
\* LockFundsTransaction is read with takes any id.
SlipAnyMosaicId(kind, v) == IF kind \in {"mosaic", "lockedMosaic"} /\ v = "alias" THEN "misread" ELSE v
Parsed(kind, v) == IF kind = "lockedMosaic" /\ v = "alias" THEN "misread" ELSE v

\* The JSON of a metadata transaction holds the target itself, and extractRecipient does
\* not know what is in a NamespaceId.
MetadataTypes == {"ACCOUNT_METADATA", "MOSAIC_METADATA", "NAMESPACE_METADATA"}
Unreadable(t) == t.type \in MetadataTypes /\ t.body.targetAddress = "alias"
-----------------------------------------------------------------------------
(* Objects, payloads and JSON: what all transactions have, and the body.    *)

\* createBuilder, toEmbeddedTransaction: an embedded transaction has only a signer.
Payload(t) ==
    [type      |-> t.type,
     inner     |-> t.inner,
     deadline  |-> IF t.inner THEN "empty" ELSE t.deadline,
     maxFee    |-> IF t.inner THEN "0" ELSE t.maxFee,
     signature |-> IF t.inner THEN "none" ELSE t.signature,
     signer    |-> t.signer,
     body      |-> [slot \in {Layout[t.type][i] : i \in DOMAIN Layout[t.type]} |->
                     LET f == Classes[t.type].builder[CHOOSE i \in DOMAIN Layout[t.type] : Layout[t.type][i] = slot]
                     IN  Written(Kind(t.type, f), t.body[f])]]

\* A body whose fields, in the given order, are read from the parts with the given keys.
BodyFrom(type, fields, keys, parts) ==
    [f \in Fields(type) |->
       Parsed(Kind(type, f), parts[keys[CHOOSE i \in DOMAIN fields : fields[i] = f]])]

\* CreateTransactionFromPayload: the class of the type, standing alone or embedded.
CreateTransactionFromPayload(p) ==
    [p EXCEPT !.body = BodyFrom(p.type, Classes[p.type].params, Classes[p.type].fromPayload, p.body)]

\* toJSON, SerializeTransactionToJSON.
Json(t) == [t EXCEPT !.body = [key \in WrittenKeys(t.type) |-> IdBytes(t.body[FieldOf(t.type, key)])]]

\* CreateTransactionFromDTO: an inner transaction is given its aggregate's deadline, fee
\* and signature.
CreateTransactionFromDTO(dto) ==
    [type      |-> dto.type,
     inner     |-> dto.inner,
     deadline  |-> IF dto.inner THEN "aggregate's" ELSE dto.deadline,
     maxFee    |-> IF dto.inner THEN "aggregate's" ELSE dto.maxFee,
     signature |-> IF dto.inner THEN "aggregate's" ELSE dto.signature,
     signer    |-> dto.signer,
     body      |-> BodyFrom(dto.type, ConstructorParams(dto.type), ReadKeys(dto.type), dto.body)]

\* resolveAliases with a statement that knows every alias.
Resolved(t) ==
    [t EXCEPT !.body = [f \in Fields(t.type) |->
       IF f \in Classes[t.type].roles.resolved /\ t.body[f] = "alias"
       THEN IF Kind(t.type, f) \in {"account", "accounts"} THEN "address" ELSE "mosaic"
       ELSE t.body[f]]]

\* checkShouldResolve: the fields it looks at, and the types it does not know.
NeverResolved ==
    {"ACCOUNT_KEY_LINK", "ACCOUNT_METADATA", "ACCOUNT_OPERATION_RESTRICTION", "ADDRESS_ALIAS", "MOSAIC_ALIAS",
     "MOSAIC_DEFINITION", "MULTISIG_ACCOUNT_MODIFICATION", "NAMESPACE_METADATA", "ROOT_NAMESPACE", "SUB_NAMESPACE"}
LookedAt ==
  [TRANSFER |-> {"recipientAddress", "mosaics"}, HASH_LOCK |-> {"mosaic"}, SECRET_LOCK |-> {"recipientAddress", "mosaic"},
   SECRET_PROOF |-> {"recipientAddress"}, MOSAIC_SUPPLY_CHANGE |-> {"mosaicId"}, MOSAIC_METADATA |-> {"targetMosaicId"},
   MOSAIC_GLOBAL_RESTRICTION |-> {"mosaicId", "referenceMosaicId"},
   MOSAIC_ADDRESS_RESTRICTION |-> {"mosaicId", "targetAddress"},
   ACCOUNT_ADDRESS_RESTRICTION |-> {"restrictionAdditions", "restrictionDeletions"},
   ACCOUNT_MOSAIC_RESTRICTION |-> {"restrictionAdditions", "restrictionDeletions"}]
Unchecked == Types \ (NeverResolved \union DOMAIN LookedAt)
CheckShouldResolve(t) == /\ t.type \notin NeverResolved
                         /\ \E f \in LookedAt[t.type] : t.body[f] = "alias"

\* shouldNotifyAccount, for an address or one of its aliases, or a linked key's account.
ShouldNotifyAccount(t, account) ==
    t.signer = account \/ \E f \in Classes[t.type].roles.notified : t.body[f] = account

-----------------------------------------------------------------------------
Created(type) ==
    [type : {type}, inner : {FALSE}, deadline : {"set"}, maxFee : {"0", "1"}, signature : {"none"}, signer : {"none"},
     body : {b \in [Fields(type) -> UNION {Values[Kind(type, f)] : f \in Fields(type)}] :
               \A f \in Fields(type) : b[f] \in Values[Kind(type, f)]}]

\* validate(): a persistent harvesting delegation goes without mosaics.
Valid(t) == t.type = "TRANSFER" /\ t.body["message"] = "delegation" => t.body["mosaics"] = "none"

Init == /\ \E type \in Types : sent \in {t \in Created(type) : Valid(t)}
        /\ form = "object"
        /\ held = sent
        /\ info = FALSE

Becomes(f, h) == form' = f /\ held' = h

ToAggregate ==
    /\ form = "object" /\ ~held.inner /\ held.signature = "none"
    /\ held' = [held EXCEPT !.inner = TRUE, !.signer = "signer"]
    /\ sent' = [sent EXCEPT !.inner = TRUE, !.signer = "signer"]
    /\ UNCHANGED <<form, info>>

\* setMaxFee() reads the size: it builds the transaction, and sorts its mosaics.
SetMaxFee ==
    /\ form = "object" /\ ~held.inner /\ held.signature = "none" /\ held.maxFee = "0"
    /\ held' = [held EXCEPT !.maxFee = "1",
                            !.body = [f \in DOMAIN held.body |-> Sorted(held.body[f])]]
    /\ sent' = [sent EXCEPT !.maxFee = "1"]
    /\ UNCHANGED <<form, info>>

Serialize ==
    /\ form = "object"
    /\ Becomes("payload", Payload(held))
    /\ UNCHANGED <<sent, info>>

SignWith ==
    /\ form = "object" /\ ~held.inner /\ held.signature = "none"
    /\ Becomes("payload", Payload([held EXCEPT !.signature = "signed", !.signer = "signer"]))
    /\ UNCHANGED <<sent, info>>

FromPayload ==
    /\ form = "payload"
    /\ Becomes("object", CreateTransactionFromPayload(held))
    /\ info' = FALSE
    /\ UNCHANGED sent

ToJSON ==
    /\ form = "object"
    /\ IF Unreadable(held) THEN Becomes("failed", held) ELSE Becomes("json", Json(held))
    /\ info' = FALSE
    /\ UNCHANGED sent

\* The node confirms a signed transaction, or an aggregate with it, and REST shows it.
Confirmed ==
    /\ form = "payload" /\ (held.inner \/ held.signature = "signed")
    /\ form' = "json"
    /\ info' = TRUE
    /\ UNCHANGED <<sent, held>>

FromDTO ==
    /\ form = "json"
    /\ Becomes("object", CreateTransactionFromDTO(held))
    /\ UNCHANGED <<sent, info>>

ResolveAliases ==
    /\ form = "object" /\ info
    /\ Becomes("resolved", Resolved(held))
    /\ UNCHANGED <<sent, info>>

Next == \/ ToAggregate \/ SetMaxFee \/ Serialize \/ SignWith \/ FromPayload
        \/ ToJSON \/ Confirmed \/ FromDTO \/ ResolveAliases

Spec == Init /\ [][Next]_vars

-----------------------------------------------------------------------------
IsObject == form \in {"object", "resolved"}

\* Conversions produce fields of the values known here, a lock's mosaic is misread and
\* no other field, and reading fails only for the alias of a metadata target.
TypeOK ==
    /\ sent \in Created(sent.type) \/ sent.inner
    /\ form \in {"object", "payload", "json", "resolved", "failed"}
    /\ info \in BOOLEAN
    /\ held.type = sent.type /\ held.inner = sent.inner
    /\ IsObject =>
         /\ DOMAIN held.body = Fields(held.type)
         /\ \A f \in Fields(held.type) :
              held.body[f] \in Values[Kind(held.type, f)] \union
                CASE Kind(held.type, f) = "lockedMosaic" -> {"misread"}
                  [] Kind(held.type, f) = "mosaics" -> {"sorted"}
                  [] Kind(held.type, f) = "value" -> {"twice", "more"}
                  [] Kind(held.type, f) = "secret" -> {"padded"}
                  [] Kind(held.type, f) = "message" -> {"wrapped", "more"}
                  [] OTHER -> {}
    /\ form = "failed" => held.type \in MetadataTypes

\* What a signature covers: the body, and the deadline and the fee of a transaction that
\* stands alone, or the signer of one in an aggregate.
Covered(t) == IF t.inner THEN <<t.signer, Payload(t).body>> ELSE <<t.deadline, t.maxFee, Payload(t).body>>

\* A transaction that was sent through payloads and JSON in any order still serialises to
\* the bytes its creator signs, unless it holds a text with accents or a raw message
\* (createFromPayload, createBuilder, CreateTransactionFromDTO, SerializeTransactionToJSON).
BytesSurvive ==
    (form = "object" /\ ~\E f \in Fields(sent.type) : sent.body[f] \in {"accents", "raw"})
        => Covered(held) = Covered(sent)

\* checkShouldResolve() says yes of exactly those transactions resolveAliases() changes,
\* of the types it knows (TransactionService.checkShouldResolve, resolveAliases).
ShouldResolveAgrees ==
    form = "object" /\ held.type \notin Unchecked => (CheckShouldResolve(held) <=> Resolved(held) # held)

\* An account a transaction names, by address, alias or linked key, is told of it in the
\* account's channels, however it was read and also when aliases were resolved
\* (shouldNotifyAccount).
NamedIsNotified ==
    IsObject => \A f \in Fields(held.type) :
        (\/ Kind(held.type, f) \in {"account", "accounts", "address"} /\ held.body[f] # "none"
         \/ held.type = "ACCOUNT_KEY_LINK" /\ f = "linkedPublicKey")
            => ShouldNotifyAccount(held, held.body[f])

-----------------------------------------------------------------------------
(* What the changelog says, and the code does not do.                       *)

\* "resolveAlias() ... to resolve UnresolvedAddress and UnresolvedMosaic inside a
\* transaction": no alias is left.
NoAliasLeft ==
    form = "resolved" => \A f \in Fields(held.type) : held.body[f] \notin {"alias", "misread"}

\* A transaction survives its payloads whatever it holds.
AllBytesSurvive == form = "object" => Covered(held) = Covered(sent)
=============================================================================
