------------------------------- MODULE ChainState -------------------------------
(***************************************************************************)
(* What REST shows of the chain's state and receipts, the objects the SDK  *)
(* makes of it (src/src/infrastructure), and what they serialise to for    *)
(* the hashes of proofs (src/src/model).                                   *)
(*                                                                         *)
(* For each class: Dto, the parts of the JSON that are handed to its       *)
(* constructor; Info, the parameters they are given to; Serialized, the    *)
(* fields serialize() hands to the schema's builder.  The order is that of *)
(* the source.  A part's value is <<its name, its version>>.               *)
(***************************************************************************)
EXTENDS Integers, Sequences, SequencesExt, InOrder

-----------------------------------------------------------------------------
AccountDto == <<"version", "id", "address", "addressHeight", "publicKey", "publicKeyHeight", "accountType",
                "supplementalPublicKeys", "activityBuckets", "mosaics", "importance", "importanceHeight">>
AccountInfo == <<"version", "recordId", "address", "addressHeight", "publicKey", "publicKeyHeight", "accountType",
                 "supplementalPublicKeys", "activityBucket", "mosaics", "importance", "importanceHeight">>
\* The format is told by the importance and the number of buckets, of which five count.
AccountSerialized == <<"version", "address", "addressHeight", "publicKey", "publicKeyHeight", "accountType",
                       "supplementalPublicKeys", "importance", "importanceHeight", "activityBucket", "mosaics">>

MultisigDto == <<"version", "accountAddress", "minApproval", "minRemoval", "cosignatoryAddresses", "multisigAddresses">>
MultisigAccountInfo == <<"version", "accountAddress", "minApproval", "minRemoval", "cosignatoryAddresses", "multisigAddresses">>
SlipRemovalFirst == <<"version", "minRemoval", "minApproval", "accountAddress", "cosignatoryAddresses", "multisigAddresses">>
MultisigSerialized == <<"version", "minApproval", "minRemoval", "accountAddress", "cosignatoryAddresses", "multisigAddresses">>

MosaicDto == <<"version", "recordId", "id", "supply", "startHeight", "ownerAddress", "revision", "flags", "divisibility", "duration">>
MosaicInfo == <<"version", "recordId", "id", "supply", "startHeight", "ownerAddress", "revision", "flags", "divisibility", "duration">>
MosaicSerialized == <<"version", "id", "supply", "startHeight", "ownerAddress", "revision", "flags", "divisibility", "duration">>

SecretLockDto == <<"version", "id", "ownerAddress", "mosaicId", "amount", "endHeight", "status", "hashAlgorithm",
                   "secret", "recipientAddress", "compositeHash">>
SecretLockInfo == <<"version", "recordId", "ownerAddress", "mosaicId", "amount", "endHeight", "status", "hashAlgorithm",
                    "secret", "recipientAddress", "compositeHash">>
SecretLockSerialized == <<"version", "ownerAddress", "mosaicId", "amount", "endHeight", "status", "hashAlgorithm",
                          "secret", "recipientAddress">>

HashLockDto == <<"version", "id", "ownerAddress", "mosaicId", "amount", "endHeight", "status", "hash">>
HashLockInfo == <<"version", "recordId", "ownerAddress", "mosaicId", "amount", "endHeight", "status", "hash">>
HashLockSerialized == <<"version", "ownerAddress", "mosaicId", "amount", "endHeight", "status", "hash">>

\* The values of each restriction are sorted out by what they are made of, which is told
\* by the restriction's flags.
AccountRestrictionDto == <<"version", "id", "address", "restrictions">>
AccountRestrictions == <<"version", "recordId", "address", "restrictions">>
AccountRestrictionSerialized == <<"version", "address", "restrictions">>

\* A mosaic restriction with a target address is one of an address.
AddressRestrictionDto == <<"version", "compositeHash", "entryType", "mosaicId", "targetAddress", "restrictions">>
MosaicAddressRestriction == <<"version", "compositeHash", "entryType", "mosaicId", "targetAddress", "restrictions">>
AddressRestrictionSerialized == <<"version", "mosaicId", "targetAddress", "restrictions">>
GlobalRestrictionDto == <<"version", "compositeHash", "entryType", "mosaicId", "restrictions">>
MosaicGlobalRestriction == <<"version", "compositeHash", "entryType", "mosaicId", "restrictions">>
GlobalRestrictionSerialized == <<"version", "mosaicId", "restrictions">>

\* The value is one of ASCII characters.
MetadataDto == <<"version", "compositeHash", "sourceAddress", "targetAddress", "scopedMetadataKey", "metadataType",
                 "value", "targetId">>
MetadataEntry == <<"version", "compositeHash", "sourceAddress", "targetAddress", "scopedMetadataKey", "metadataType",
                   "value", "targetId">>
MetadataSerialized == <<"version", "sourceAddress", "targetAddress", "scopedMetadataKey", "targetId", "metadataType", "value">>

NamespaceDto == <<"version", "active", "index", "recordId", "registrationType", "depth", "levels", "parentId",
                  "ownerAddress", "startHeight", "endHeight", "alias">>
NamespaceInfo == <<"version", "active", "index", "recordId", "registrationType", "depth", "levels", "parentId",
                   "ownerAddress", "startHeight", "endHeight", "alias">>
\* Of the root among the namespaces that are given, all but the version.
NamespaceSerialized == <<"version", "levels", "ownerAddress", "startHeight", "endHeight", "alias">>

\* The paths below the root: those of one name in order, each before those of two names
\* that it begins, in order.  A path is the sequence of its ids; each is given once.
NamespacePath(namespaces) ==
    LET level1    == Ascending({n[1] : n \in {m \in ToSet(namespaces) : Len(m) = 1}})
        level2(n) == Ascending({l[2] : l \in {m \in ToSet(namespaces) : Len(m) = 2 /\ m[1] = n}})
        paths(n)  == <<<<n>>>> \o [j \in DOMAIN level2(n) |-> <<n, level2(n)[j]>>]
    IN  FlattenSeq([i \in DOMAIN level1 |-> paths(level1[i])])

Class(dto, info, serialized) == [dto |-> dto, info |-> info, serialized |-> serialized]
Entities ==
    [account |-> Class(AccountDto, AccountInfo, AccountSerialized),
     multisig |-> Class(MultisigDto, MultisigAccountInfo, MultisigSerialized),
     mosaic |-> Class(MosaicDto, MosaicInfo, MosaicSerialized),
     secretLock |-> Class(SecretLockDto, SecretLockInfo, SecretLockSerialized),
     hashLock |-> Class(HashLockDto, HashLockInfo, HashLockSerialized),
     accountRestriction |-> Class(AccountRestrictionDto, AccountRestrictions, AccountRestrictionSerialized),
     addressRestriction |-> Class(AddressRestrictionDto, MosaicAddressRestriction, AddressRestrictionSerialized),
     globalRestriction |-> Class(GlobalRestrictionDto, MosaicGlobalRestriction, GlobalRestrictionSerialized),
     metadata |-> Class(MetadataDto, MetadataEntry, MetadataSerialized),
     namespace |-> Class(NamespaceDto, NamespaceInfo, NamespaceSerialized)]

-----------------------------------------------------------------------------
(* Receipts.                                                                *)
BalanceTransferDto == <<"senderAddress", "recipientAddress", "mosaicId", "amount", "version", "type">>
BalanceTransferReceipt == <<"senderAddress", "recipientAddress", "mosaicId", "amount", "version", "type">>
BalanceTransferSerialized == <<"type", "mosaicId", "amount", "senderAddress", "recipientAddress">>

BalanceChangeDto == <<"targetAddress", "mosaicId", "amount", "version", "type">>
BalanceChangeReceipt == <<"targetAddress", "mosaicId", "amount", "version", "type">>
BalanceChangeSerialized == <<"type", "mosaicId", "amount", "targetAddress">>

\* extractArtifactId makes a MosaicId or a NamespaceId by the receipt's type.
ArtifactExpiryDto == <<"artifactId", "version", "type">>
ArtifactExpiryReceipt == <<"artifactId", "version", "type">>
ArtifactExpirySerialized == <<"type", "artifactId">>

InflationDto == <<"mosaicId", "amount", "version", "type">>
InflationReceipt == <<"mosaicId", "amount", "version", "type">>
InflationSerialized == <<"type", "mosaicId", "amount">>

\* generateHash(): of a resolution the unresolved and the entries; the height is in none.
AddressResolutionDto == <<"height", "unresolved", "resolutionEntries">>
MosaicResolutionDto == <<"height", "unresolved", "resolutionEntries">>
ResolutionStatement == <<"height", "unresolved", "resolutionEntries">>
ResolutionSerialized == <<"unresolved", "resolutionEntries">>

Receipts ==
    [balanceTransfer |-> Class(BalanceTransferDto, BalanceTransferReceipt, BalanceTransferSerialized),
     balanceChange |-> Class(BalanceChangeDto, BalanceChangeReceipt, BalanceChangeSerialized),
     artifactExpiry |-> Class(ArtifactExpiryDto, ArtifactExpiryReceipt, ArtifactExpirySerialized),
     inflation |-> Class(InflationDto, InflationReceipt, InflationSerialized),
     addressResolution |-> Class(AddressResolutionDto, ResolutionStatement, ResolutionSerialized),
     mosaicResolution |-> Class(MosaicResolutionDto, ResolutionStatement, ResolutionSerialized)]

\* CreateReceiptFromDTO: which class a receipt of a type is made; it raises for any other
\* type.  Mosaic_Levy and Mosaic_Rental_Fee are one number.
ClassOfType ==
    [Harvest_Fee |-> "balanceChange", LockHash_Created |-> "balanceChange", LockHash_Completed |-> "balanceChange",
     LockHash_Expired |-> "balanceChange", LockSecret_Created |-> "balanceChange",
     LockSecret_Completed |-> "balanceChange", LockSecret_Expired |-> "balanceChange",
     Mosaic_Levy |-> "balanceTransfer", Mosaic_Rental_Fee |-> "balanceTransfer", Namespace_Rental_Fee |-> "balanceTransfer",
     Mosaic_Expired |-> "artifactExpiry", Namespace_Expired |-> "artifactExpiry", Namespace_Deleted |-> "artifactExpiry",
     Inflation |-> "inflation",
     Address_Alias_Resolution |-> "addressResolution", Mosaic_Alias_Resolution |-> "mosaicResolution"]

-----------------------------------------------------------------------------
\* The object made of the JSON of a class, and what it serialises to.
FromDto(class, dto) ==
    [f \in ToSet(class.info) |-> dto[class.dto[CHOOSE i \in DOMAIN class.info : class.info[i] = f]]]
Serialize(class, info) == [i \in DOMAIN class.serialized |-> info[class.serialized[i]]]

\* The JSON of a state or a receipt of a class in its given version.
Dto(class, version) == [part \in ToSet(class.dto) |-> <<part, version>>]

(* The schema's order of the parts, by their names in the JSON.             *)
Schema ==
    [account |-> <<"version", "address", "addressHeight", "publicKey", "publicKeyHeight", "accountType",
                   "supplementalPublicKeys", "importance", "importanceHeight", "activityBuckets", "mosaics">>,
     multisig |-> <<"version", "minApproval", "minRemoval", "accountAddress", "cosignatoryAddresses", "multisigAddresses">>,
     mosaic |-> <<"version", "id", "supply", "startHeight", "ownerAddress", "revision", "flags", "divisibility", "duration">>,
     secretLock |-> <<"version", "ownerAddress", "mosaicId", "amount", "endHeight", "status", "hashAlgorithm", "secret", "recipientAddress">>,
     hashLock |-> <<"version", "ownerAddress", "mosaicId", "amount", "endHeight", "status", "hash">>,
     accountRestriction |-> <<"version", "address", "restrictions">>,
     addressRestriction |-> <<"version", "mosaicId", "targetAddress", "restrictions">>,
     globalRestriction |-> <<"version", "mosaicId", "restrictions">>,
     metadata |-> <<"version", "sourceAddress", "targetAddress", "scopedMetadataKey", "targetId", "metadataType", "value">>,
     namespace |-> <<"version", "levels", "ownerAddress", "startHeight", "endHeight", "alias">>,
     balanceTransfer |-> <<"type", "mosaicId", "amount", "senderAddress", "recipientAddress">>,
     balanceChange |-> <<"type", "mosaicId", "amount", "targetAddress">>,
     artifactExpiry |-> <<"type", "artifactId">>,
     inflation |-> <<"type", "mosaicId", "amount">>,
     addressResolution |-> <<"unresolved", "resolutionEntries">>,
     mosaicResolution |-> <<"unresolved", "resolutionEntries">>]
Stored(name, version) == [i \in DOMAIN Schema[name] |-> <<Schema[name][i], version>>]
=============================================================================
