--------------------------- MODULE TransactionClasses ---------------------------
(***************************************************************************)
(* The transaction classes (src/src/model/transaction): for each of them   *)
(*   - the parameters of create() with their kinds, in order;              *)
(*   - Builder: the fields createBuilder() and toEmbeddedTransaction()     *)
(*     hand to the schema's builder, in the order they hand them over;     *)
(*   - FromPayload: the parts of a payload createFromPayload() hands to    *)
(*     create(), in the order of its parameters;                           *)
(*   - Roles: the fields resolveAliases() resolves and the fields          *)
(*     shouldNotifyAccount() compares with an account.                     *)
(* Parts of a payload have the names REST gives them.  The kinds tell what *)
(* conversions do to a field (TransactionTransport).                       *)
(***************************************************************************)
EXTENDS Sequences

-----------------------------------------------------------------------------
TransferTransaction == << <<"recipientAddress", "account">>, <<"mosaics", "mosaics">>, <<"message", "message">> >>
TransferBuilder == <<"recipientAddress", "mosaics", "message">>
TransferFromPayload == <<"recipientAddress", "mosaics", "message">>
TransferRoles == [resolved |-> {"recipientAddress", "mosaics"}, notified |-> {"recipientAddress"}]

AddressAliasTransaction == << <<"aliasAction", "number">>, <<"namespaceId", "id">>, <<"address", "address">> >>
AddressAliasBuilder == <<"namespaceId", "address", "aliasAction">>
AddressAliasFromPayload == <<"aliasAction", "namespaceId", "address">>
AddressAliasRoles == [resolved |-> {}, notified |-> {"address"}]

MosaicAliasTransaction == << <<"aliasAction", "number">>, <<"namespaceId", "id">>, <<"mosaicId", "id">> >>
MosaicAliasBuilder == <<"namespaceId", "mosaicId", "aliasAction">>
MosaicAliasFromPayload == <<"aliasAction", "namespaceId", "mosaicId">>
MosaicAliasRoles == [resolved |-> {}, notified |-> {}]

\* The namespace id is computed from the name (and the parent) whenever a registration
\* is created; a root namespace has a duration, a sub namespace a parent.
RootNamespace == << <<"namespaceName", "name">>, <<"duration", "number">> >>
SubNamespace == << <<"namespaceName", "name">>, <<"parentId", "id">> >>
RootNamespaceBuilder == <<"duration", "namespaceName">>
SubNamespaceBuilder == <<"parentId", "namespaceName">>
RootNamespaceFromPayload == <<"name", "duration">>
SubNamespaceFromPayload == <<"name", "parentId">>
NamespaceRegistrationRoles == [resolved |-> {}, notified |-> {}]

SecretLockTransaction == << <<"mosaic", "mosaic">>, <<"duration", "number">>, <<"hashAlgorithm", "number">>,
                            <<"secret", "secret">>, <<"recipientAddress", "account">> >>
SecretLockBuilder == <<"recipientAddress", "secret", "mosaic", "duration", "hashAlgorithm">>
SecretLockFromPayload == <<"mosaic", "duration", "hashAlgorithm", "secret", "recipientAddress">>
SecretLockRoles == [resolved |-> {"recipientAddress", "mosaic"}, notified |-> {"recipientAddress"}]

SecretProofTransaction == << <<"hashAlgorithm", "number">>, <<"secret", "secret">>,
                             <<"recipientAddress", "account">>, <<"proof", "key">> >>
SecretProofBuilder == <<"recipientAddress", "secret", "hashAlgorithm", "proof">>
SecretProofFromPayload == <<"hashAlgorithm", "secret", "recipientAddress", "proof">>
SecretProofRoles == [resolved |-> {"recipientAddress"}, notified |-> {"recipientAddress"}]

\* createFromPayload() makes a MosaicId of whatever the mosaic's id is.
LockFundsTransaction == << <<"mosaic", "lockedMosaic">>, <<"duration", "number">>, <<"hash", "key">> >>
LockFundsBuilder == <<"mosaic", "duration", "hash">>
LockFundsFromPayload == <<"mosaic", "duration", "hash">>
LockFundsRoles == [resolved |-> {"mosaic"}, notified |-> {}]

MosaicDefinitionTransaction == << <<"nonce", "number">>, <<"mosaicId", "id">>, <<"flags", "number">>,
                                  <<"divisibility", "number">>, <<"duration", "number">> >>
MosaicDefinitionBuilder == <<"mosaicId", "duration", "nonce", "flags", "divisibility">>
MosaicDefinitionFromPayload == <<"nonce", "id", "flags", "divisibility", "duration">>
MosaicDefinitionRoles == [resolved |-> {}, notified |-> {}]

MosaicSupplyChangeTransaction == << <<"mosaicId", "mosaic">>, <<"action", "number">>, <<"delta", "number">> >>
MosaicSupplyChangeBuilder == <<"mosaicId", "delta", "action">>
MosaicSupplyChangeFromPayload == <<"mosaicId", "action", "delta">>
MosaicSupplyChangeRoles == [resolved |-> {"mosaicId"}, notified |-> {}]

MosaicGlobalRestrictionTransaction ==
    << <<"mosaicId", "mosaic">>, <<"restrictionKey", "number">>,
       <<"previousRestrictionValue", "number">>, <<"previousRestrictionType", "number">>,
       <<"newRestrictionValue", "number">>, <<"newRestrictionType", "number">>,
       <<"referenceMosaicId", "mosaic">> >>
SlipTypesBeside == <<"mosaicId", "referenceMosaicId", "restrictionKey", "previousRestrictionValue",
                     "previousRestrictionType", "newRestrictionValue", "newRestrictionType">>
MosaicGlobalRestrictionBuilder ==
    <<"mosaicId", "referenceMosaicId", "restrictionKey", "previousRestrictionValue",
      "newRestrictionValue", "previousRestrictionType", "newRestrictionType">>
MosaicGlobalRestrictionFromPayload ==
    <<"mosaicId", "restrictionKey", "previousRestrictionValue", "previousRestrictionType",
      "newRestrictionValue", "newRestrictionType", "referenceMosaicId">>
MosaicGlobalRestrictionRoles == [resolved |-> {"mosaicId", "referenceMosaicId"}, notified |-> {}]

MosaicAddressRestrictionTransaction ==
    << <<"mosaicId", "mosaic">>, <<"restrictionKey", "number">>, <<"targetAddress", "account">>,
       <<"newRestrictionValue", "number">>, <<"previousRestrictionValue", "number">> >>
MosaicAddressRestrictionBuilder ==
    <<"mosaicId", "restrictionKey", "previousRestrictionValue", "newRestrictionValue", "targetAddress">>
MosaicAddressRestrictionFromPayload ==
    <<"mosaicId", "restrictionKey", "targetAddress", "newRestrictionValue", "previousRestrictionValue">>
SlipMosaicOnly == [resolved |-> {"mosaicId"}, notified |-> {"targetAddress"}]
MosaicAddressRestrictionRoles == [resolved |-> {"mosaicId", "targetAddress"}, notified |-> {"targetAddress"}]
-----------------------------------------------------------------------------
AccountMetadataTransaction == << <<"targetAddress", "account">>, <<"scopedMetadataKey", "number">>,
                                 <<"valueSizeDelta", "number">>, <<"value", "value">> >>
AccountMetadataBuilder == <<"targetAddress", "scopedMetadataKey", "valueSizeDelta", "value">>
AccountMetadataFromPayload == <<"targetAddress", "scopedMetadataKey", "valueSizeDelta", "value">>
AccountMetadataRoles == [resolved |-> {}, notified |-> {"targetAddress"}]

MosaicMetadataTransaction ==
    << <<"targetAddress", "account">>, <<"scopedMetadataKey", "number">>, <<"targetMosaicId", "mosaic">>,
       <<"valueSizeDelta", "number">>, <<"value", "value">> >>
MosaicMetadataBuilder == <<"targetAddress", "scopedMetadataKey", "targetMosaicId", "valueSizeDelta", "value">>
MosaicMetadataFromPayload == <<"targetAddress", "scopedMetadataKey", "targetMosaicId", "valueSizeDelta", "value">>
MosaicMetadataRoles == [resolved |-> {"targetMosaicId"}, notified |-> {"targetAddress"}]

NamespaceMetadataTransaction ==
    << <<"targetAddress", "account">>, <<"scopedMetadataKey", "number">>, <<"targetNamespaceId", "id">>,
       <<"valueSizeDelta", "number">>, <<"value", "value">> >>
NamespaceMetadataBuilder == <<"targetAddress", "scopedMetadataKey", "targetNamespaceId", "valueSizeDelta", "value">>
NamespaceMetadataFromPayload == <<"targetAddress", "scopedMetadataKey", "targetNamespaceId", "valueSizeDelta", "value">>
NamespaceMetadataRoles == [resolved |-> {}, notified |-> {"targetAddress"}]

AccountAddressRestrictionTransaction ==
    << <<"restrictionFlags", "number">>, <<"restrictionAdditions", "accounts">>, <<"restrictionDeletions", "accounts">> >>
AccountAddressRestrictionBuilder == <<"restrictionFlags", "restrictionAdditions", "restrictionDeletions">>
AccountAddressRestrictionFromPayload == <<"restrictionFlags", "restrictionAdditions", "restrictionDeletions">>
AccountAddressRestrictionRoles == [resolved |-> {"restrictionAdditions", "restrictionDeletions"},
                                   notified |-> {"restrictionAdditions", "restrictionDeletions"}]

AccountMosaicRestrictionTransaction ==
    << <<"restrictionFlags", "number">>, <<"restrictionAdditions", "mosaicIds">>, <<"restrictionDeletions", "mosaicIds">> >>
AccountMosaicRestrictionBuilder == <<"restrictionFlags", "restrictionAdditions", "restrictionDeletions">>
AccountMosaicRestrictionFromPayload == <<"restrictionFlags", "restrictionAdditions", "restrictionDeletions">>
AccountMosaicRestrictionRoles == [resolved |-> {"restrictionAdditions", "restrictionDeletions"}, notified |-> {}]

AccountOperationRestrictionTransaction ==
    << <<"restrictionFlags", "number">>, <<"restrictionAdditions", "number">>, <<"restrictionDeletions", "number">> >>
AccountOperationRestrictionBuilder == <<"restrictionFlags", "restrictionAdditions", "restrictionDeletions">>
AccountOperationRestrictionFromPayload == <<"restrictionFlags", "restrictionAdditions", "restrictionDeletions">>
AccountOperationRestrictionRoles == [resolved |-> {}, notified |-> {}]

MultisigAccountModificationTransaction ==
    << <<"minApprovalDelta", "number">>, <<"minRemovalDelta", "number">>,
       <<"addressAdditions", "accounts">>, <<"addressDeletions", "accounts">> >>
MultisigAccountModificationBuilder == <<"minRemovalDelta", "minApprovalDelta", "addressAdditions", "addressDeletions">>
MultisigAccountModificationFromPayload == <<"minApprovalDelta", "minRemovalDelta", "addressAdditions", "addressDeletions">>
SlipAdditionsOnly == [resolved |-> {}, notified |-> {"addressAdditions"}]
MultisigAccountModificationRoles == [resolved |-> {}, notified |-> {"addressAdditions", "addressDeletions"}]

\* The account of the linked key is notified.
AccountKeyLinkTransaction == << <<"linkedPublicKey", "key">>, <<"linkAction", "number">> >>
AccountKeyLinkBuilder == <<"linkedPublicKey", "linkAction">>
AccountKeyLinkFromPayload == <<"linkedPublicKey", "linkAction">>
AccountKeyLinkRoles == [resolved |-> {}, notified |-> {"linkedPublicKey"}]

NodeKeyLinkTransaction == << <<"linkedPublicKey", "key">>, <<"linkAction", "number">> >>
NodeKeyLinkBuilder == <<"linkedPublicKey", "linkAction">>
NodeKeyLinkFromPayload == <<"linkedPublicKey", "linkAction">>
NodeKeyLinkRoles == [resolved |-> {}, notified |-> {}]

VrfKeyLinkTransaction == << <<"linkedPublicKey", "key">>, <<"linkAction", "number">> >>
VrfKeyLinkBuilder == <<"linkedPublicKey", "linkAction">>
VrfKeyLinkFromPayload == <<"linkedPublicKey", "linkAction">>
VrfKeyLinkRoles == [resolved |-> {}, notified |-> {}]

VotingKeyLinkTransaction == << <<"linkedPublicKey", "key">>, <<"startEpoch", "number">>,
                               <<"endEpoch", "number">>, <<"linkAction", "number">> >>
VotingKeyLinkBuilder == <<"linkedPublicKey", "startEpoch", "endEpoch", "linkAction">>
VotingKeyLinkFromPayload == <<"linkedPublicKey", "startEpoch", "endEpoch", "linkAction">>
VotingKeyLinkRoles == [resolved |-> {}, notified |-> {}]
=============================================================================
