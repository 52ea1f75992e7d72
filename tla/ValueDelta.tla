------------------------------- MODULE ValueDelta -------------------------------
(***************************************************************************)
(* Transactions that say how a value changes.  To set a metadata value     *)
(* (src/src/service/MetadataTransactionService.ts) or a mosaic restriction *)
(* (src/src/service/MosaicRestrictionTransactionService.ts) the client     *)
(* reads the value the node has, and makes a transaction of the difference *)
(* to it; until that one is confirmed, the value and what names stand for  *)
(* may change.                                                             *)
(*                                                                         *)
(* One metadata key and one restriction key.  A text is a sequence of      *)
(* characters of one byte; a byte is the set of its bits.  A mosaic and an  *)
(* account are named by themselves or by an alias, one of each.            *)
(***************************************************************************)
EXTENDS Integers, Sequences

CONSTANTS Callers,    \* calls of the services
          Accounts,   \* accounts that metadata or a restriction is of
          Texts,      \* values a caller asks for, the empty one among them
          Mosaics,    \* mosaics
          Highest,    \* the largest restriction value, 2^64 - 1 in the code
          MaxChanges  \* bound: changes of the owner, and of what each alias is linked to

Bytes == SUBSET (1..8)
Alias == "alias"
Nothing == "nothing"

ASSUME TextsAssumption == Texts \subseteq Seq(Bytes)
ASSUME NamesAssumption == {Alias, Nothing} \cap (Mosaics \union Accounts) = {}
ASSUME BoundsAssumption == Highest \in Nat \ {0} /\ MaxChanges \in Nat

VARIABLES kind,     \* what the metadata is of, "account", "mosaic" or "namespace", or "restriction":
                    \*   the two services share no state, and a behaviour has calls of one
          entry,    \* the text each owner has there, <<>> if none
          owner,    \* the owner of the mosaic or namespace
          rule,     \* the global restriction of each mosaic
          limit,    \* the restriction of each account for each mosaic
          linked,   \* the mosaic and the account the aliases stand for
          changes,  \* how often the owner and each link changed
          job       \* the calls

chain == <<kind, entry, owner, rule, limit, linked>>
vars == <<chain, changes, job>>

-----------------------------------------------------------------------------
Types == {"NONE", "EQ"}
NoRule == [value |-> 0, type |-> "NONE"]   \* defaultMosaicGlobalRestrictionValue
NoLimit == Highest                         \* defaultMosaicAddressRestrictionValue
Values == 0..Highest

\* What a restriction is of; its names, and what they stand for, are such records.
Places == [mosaic : Mosaics, account : Accounts]
Linked == [mosaic : Mosaics \union {Nothing}, account : Accounts \union {Nothing}]

Longer(a, b) == IF Len(a) > Len(b) THEN Len(a) ELSE Len(b)
Byte(text, i) == IF i \in DOMAIN text THEN text[i] ELSE {}

(* The difference of two texts.  The slips (Slip...) are plausible bugs; no *)
(* specification uses them.                                                 *)
SlipUpToShorter(a, b) == [i \in 1..Len(b) |-> (Byte(a, i) \ Byte(b, i)) \union (Byte(b, i) \ Byte(a, i))]
Xor(a, b) == [i \in 1..Longer(a, b) |-> (Byte(a, i) \ Byte(b, i)) \union (Byte(b, i) \ Byte(a, i))]

\* The transactions the services make of what they read.
AccountMetadata(target, current, text) ==
    [target |-> target, sizeDelta |-> Len(text) - Len(current), value |-> Xor(current, text)]
MosaicMetadata(target, current, text) == AccountMetadata(target, current, text)
NamespaceMetadata(target, current, text) == AccountMetadata(target, current, text)
GlobalRestriction(at, current, new) == [at |-> at, previous |-> current, new |-> new]
SlipDefaultPrevious(names, current, new) == [at |-> names, previous |-> NoLimit, new |-> new]
AddressRestriction(names, current, new) == [at |-> names, previous |-> current, new |-> new]

-----------------------------------------------------------------------------
Idle == [stage |-> "idle"]

MetadataKinds == {"account", "mosaic", "namespace"}
Init == /\ kind \in MetadataKinds \union {"restriction"}
        /\ owner \in Accounts
        /\ entry \in {[o \in Accounts |-> IF o = owner THEN text ELSE <<>>] :
                        text \in IF kind \in MetadataKinds THEN Texts ELSE {<<>>}}
        /\ rule \in [Mosaics -> IF kind \in MetadataKinds THEN {NoRule}
                                 ELSE {NoRule, [value |-> 1, type |-> "EQ"]}]
        /\ limit = [place \in Places |-> NoLimit]
        /\ linked \in Places
        /\ changes = [what \in {"owner", "mosaic", "account"} |-> 0]
        /\ job = [c \in Callers |-> Idle]

Becomes(c, record) == job' = [job EXCEPT ![c] = record]
At(c, name, stage) == job[c].stage = stage /\ job[c].name = name
UnchangedChain == UNCHANGED <<chain, changes>>
Fails(c) == Becomes(c, [stage |-> "error"]) /\ UnchangedChain

\* createAccountMetadataTransaction() and its two like: the search is sent.
CreateMetadataTransaction(c, target, text) ==
    /\ kind \in MetadataKinds /\ job[c] = Idle
    /\ Becomes(c, [stage |-> "search", name |-> "metadata", target |-> target, text |-> text])
    /\ UnchangedChain

\* The searches, by kind: only that of an account names the target address.
Found(target) == IF kind = "account" THEN {entry[target]} \ {<<>>} ELSE {entry[o] : o \in Accounts} \ {<<>>}
MakeMetadata(target, current, text) ==
    CASE kind = "account" -> AccountMetadata(target, current, text)
      [] kind = "mosaic" -> MosaicMetadata(target, current, text)
      [] kind = "namespace" -> NamespaceMetadata(target, current, text)
SearchAnswered(c) ==
    /\ At(c, "metadata", "search")
    /\ \E current \in (IF Found(job[c].target) = {} THEN {<<>>} ELSE Found(job[c].target)) :
         Becomes(c, [stage |-> "made", name |-> "metadata", text |-> job[c].text, read |-> current,
                     tx |-> MakeMetadata(job[c].target, current, job[c].text)])
    /\ UnchangedChain

\* combineLatest goes on when every name is resolved; one that is no alias is at once.
Unaliased(names) == [part \in DOMAIN names |-> IF names[part] = Alias THEN Nothing ELSE names[part]]
SlipAnyResolved(at) == IF \A part \in DOMAIN at : at[part] = Nothing THEN "resolve" ELSE "rule"
StageOf(at) == IF \E part \in DOMAIN at : at[part] = Nothing THEN "resolve" ELSE "rule"

\* validateInput() raises for a text that is no number.
Asks(c, name, names, new, valid) ==
    /\ kind = "restriction" /\ job[c] = Idle
    /\ IF ~valid THEN Fails(c)
       ELSE /\ Becomes(c, [stage |-> StageOf(Unaliased(names)), name |-> name, names |-> names,
                           new |-> new, at |-> Unaliased(names), seen |-> [part \in DOMAIN names |-> 0]])
            /\ UnchangedChain
CreateMosaicGlobalRestrictionTransaction(c, mosaic, new, valid) ==
    Asks(c, "global", [mosaic |-> mosaic], new, valid)
CreateMosaicAddressRestrictionTransaction(c, mosaic, target, new, valid) ==
    Asks(c, "address", [mosaic |-> mosaic, account |-> target], new, valid)

\* A look-up is answered; an alias that is not linked is an error, and of the whole.
Resolved(c, part) ==
    /\ job[c].stage = "resolve" /\ part \in DOMAIN job[c].at /\ job[c].at[part] = Nothing
    /\ IF linked[part] = Nothing THEN Fails(c)
       ELSE LET at == [job[c].at EXCEPT ![part] = linked[part]]
            IN  /\ Becomes(c, [job[c] EXCEPT !.stage = StageOf(at), !.at = at,
                                             !.seen = [@ EXCEPT ![part] = changes[part]]])
                /\ UnchangedChain
GetResolvedMosaicId(c) == Resolved(c, "mosaic")
GetResolvedAddress(c) == Resolved(c, "account")

\* getGlobalRestrictionEntry: a global restriction is made of the resolved id, one of an
\* address goes on if there is a rule.
RuleAnswered(c) ==
    /\ job[c].stage = "rule"
    /\ LET current == rule[job[c].at.mosaic]
       IN  IF job[c].name = "global"
           THEN /\ Becomes(c, [stage |-> "made", name |-> "global", read |-> current, at |-> job[c].at,
                               tx |-> GlobalRestriction(job[c].at, current, job[c].new)])
                /\ UnchangedChain
           ELSE IF current = NoRule THEN Fails(c)
           ELSE Becomes(c, [job[c] EXCEPT !.stage = "limit"]) /\ UnchangedChain

\* getAddressRestrictionEntry: the transaction keeps the names it was called with.
LimitAnswered(c) ==
    /\ job[c].stage = "limit"
    /\ Becomes(c, [stage |-> "made", name |-> "address", read |-> limit[job[c].at], at |-> job[c].at,
                   seen |-> job[c].seen,
                   tx |-> AddressRestriction(job[c].names, limit[job[c].at], job[c].new)])
    /\ UnchangedChain

RequestFails(c) == job[c].stage \in {"search", "resolve", "rule", "limit"} /\ Fails(c)

-----------------------------------------------------------------------------
(* The node.                                                                *)
SizeAfter(tx) == Len(entry[tx.target]) + tx.sizeDelta
After(tx) == SubSeq(Xor(entry[tx.target], tx.value), 1, SizeAfter(tx))
Acceptable(tx) ==
    LET old == entry[tx.target]
    IN  /\ kind = "account" \/ tx.target = owner
        /\ tx.value # <<>> /\ SizeAfter(tx) >= 0
        /\ Len(tx.value) = (IF tx.sizeDelta < 0 THEN Len(old) ELSE SizeAfter(tx))
        /\ \A i \in SizeAfter(tx) + 1..Len(old) : old[i] = tx.value[i]
Ends(c, stage, was, is, at) ==
    Becomes(c, [stage |-> stage, call |-> job[c], was |-> was, is |-> is, held |-> at])

MetadataDecided(c) ==
    /\ At(c, "metadata", "made")
    /\ LET tx == job[c].tx
           is == IF Acceptable(tx) THEN After(tx) ELSE entry[tx.target]
       IN  /\ entry' = [entry EXCEPT ![tx.target] = is]
           /\ Ends(c, IF Acceptable(tx) THEN "confirmed" ELSE "refused", entry[tx.target], is, owner)
    /\ UNCHANGED <<kind, owner, rule, limit, linked, changes>>

GlobalDecided(c) ==
    /\ At(c, "global", "made")
    /\ LET tx == job[c].tx
           was == rule[tx.at.mosaic]
           ok == was = tx.previous
           is == IF ~ok THEN was ELSE IF tx.new.type = "NONE" THEN NoRule ELSE tx.new
       IN  /\ rule' = [rule EXCEPT ![tx.at.mosaic] = is]
           /\ Ends(c, IF ok THEN "confirmed" ELSE "refused", was, is, tx.at)
    /\ UNCHANGED <<kind, entry, owner, limit, linked, changes>>

\* The node resolves the names itself.
Meaning(names) == [part \in DOMAIN names |-> IF names[part] = Alias THEN linked[part] ELSE names[part]]
AddressDecided(c) ==
    /\ At(c, "address", "made")
    /\ LET tx == job[c].tx
           at == Meaning(tx.at)
           was == IF at \in Places THEN limit[at] ELSE NoLimit
           ok == at \in Places /\ rule[at.mosaic] # NoRule /\ was = tx.previous
       IN  /\ limit' = IF ok THEN [limit EXCEPT ![at] = tx.new] ELSE limit
           /\ Ends(c, IF ok THEN "confirmed" ELSE "refused", was, tx.new, at)
    /\ UNCHANGED <<kind, entry, owner, rule, linked, changes>>

Change(what) == changes[what] < MaxChanges /\ changes' = [changes EXCEPT ![what] = @ + 1]

\* A namespace expires and another account registers it; the entries stay.
OwnerChanges(o) ==
    /\ kind = "namespace" /\ o # owner /\ Change("owner")
    /\ owner' = o
    /\ UNCHANGED <<kind, entry, rule, limit, linked, job>>

\* An alias is linked to another one, or to nothing.
LinkChanges(part, to) ==
    /\ kind = "restriction" /\ to # linked[part] /\ Change(part)
    /\ linked' = [linked EXCEPT ![part] = to]
    /\ UNCHANGED <<kind, entry, owner, rule, limit, job>>

Next == \/ \E c \in Callers :
             \/ \E text \in Texts : CreateMetadataTransaction(c, owner, text)
             \/ SearchAnswered(c)
             \/ \E mosaic \in Mosaics \union {Alias}, valid \in BOOLEAN :
                  \/ \E v \in Values, t \in Types :
                       CreateMosaicGlobalRestrictionTransaction(c, mosaic, [value |-> v, type |-> t], valid)
                  \/ \E target \in Accounts \union {Alias}, v \in Values :
                       CreateMosaicAddressRestrictionTransaction(c, mosaic, target, v, valid)
             \/ GetResolvedMosaicId(c) \/ GetResolvedAddress(c)
             \/ RuleAnswered(c) \/ LimitAnswered(c) \/ RequestFails(c)
             \/ MetadataDecided(c) \/ GlobalDecided(c) \/ AddressDecided(c)
        \/ \E o \in Accounts : OwnerChanges(o)
        \/ \E m \in Mosaics \union {Nothing} : LinkChanges("mosaic", m)
        \/ \E a \in Accounts \union {Nothing} : LinkChanges("account", a)

Spec == Init /\ [][Next]_vars

-----------------------------------------------------------------------------
\* No caller's step leaves a rule without a type, and the node is asked for the
\* restrictions of a mosaic, and of an account, only when their aliases are resolved.
TypeOK ==
    /\ entry \in [Accounts -> Seq(Bytes)] /\ owner \in Accounts
    /\ rule \in [Mosaics -> {NoRule} \union [value : Values, type : Types \ {"NONE"}]]
    /\ limit \in [Places -> Values]
    /\ linked \in Linked /\ changes \in [{"owner", "mosaic", "account"} -> 0..MaxChanges]
    /\ \A c \in Callers :
         job[c].stage \in {"rule", "limit"} =>
           job[c].at \in IF job[c].name = "global" THEN [mosaic : Mosaics] ELSE Places

Decided(c) == job[c].stage \in {"confirmed", "refused"}

\* A confirmed metadata transaction leaves the text the caller asked for, and is not
\* refused, when the text of its target was still the one that was read; only an owner
\* that lost the target, or an empty text where there is none, is refused then
\* (createAccountMetadataTransaction and its like).
MetadataAsAsked ==
    \A c \in Callers :
        Decided(c) /\ job[c].call.name = "metadata" /\ job[c].was = job[c].call.read =>
          \/ job[c].stage = "confirmed" /\ job[c].is = job[c].call.text
          \/ job[c].stage = "refused" /\ kind # "account" /\ job[c].held # job[c].call.tx.target
          \/ job[c].stage = "refused" /\ job[c].call.text = <<>> /\ job[c].was = <<>>

\* A name stands for what it was read of, or is an alias that was linked anew since it
\* was resolved.
Meant(call, held, now) ==
    \A part \in DOMAIN held :
        \/ held[part] = call.at[part]
        \/ call.tx.at[part] = Alias /\ call.seen[part] < now[part]
RestrictionDecided(c) == Decided(c) /\ job[c].call.name # "metadata"

\* A confirmed restriction replaces the value that was read; it is that of the mosaic and
\* of the account it was read of, each of them if its name is no alias that was linked anew
\* in between (createMosaicGlobalRestrictionTransaction,
\* createMosaicAddressRestrictionTransaction).
RestrictionReplacesWhatWasRead ==
    \A c \in Callers :
        RestrictionDecided(c) =>
          /\ Meant(job[c].call, job[c].held, changes)
          /\ job[c].stage = "confirmed" => job[c].was = job[c].call.read

\* A restriction is refused only when what was read, what a name stands for, or the
\* rule that the mosaic must have changed meanwhile.
RuleRemoved(mosaic) ==
    \E d \in Callers : /\ job[d].stage = "confirmed" /\ job[d].call.name = "global"
                       /\ job[d].is = NoRule /\ job[d].held.mosaic = mosaic
RestrictionRefusedWhenStale ==
    \A c \in Callers :
        RestrictionDecided(c) /\ job[c].stage = "refused" =>
          \/ job[c].was # job[c].call.read
          \/ job[c].held # job[c].call.at
          \/ job[c].call.name = "address" /\ RuleRemoved(job[c].held.mosaic)

\* A restriction is confirmed or refused by what was read for it.
RestrictionStandsOnWhatWasRead == RestrictionReplacesWhatWasRead /\ RestrictionRefusedWhenStale

\* "without knowing previous metadata value" (MetadataTransactionService.ts:45): a text at
\* the node is one a caller asked for.  The code does not do it.
TextWasAskedFor == \A o \in Accounts : entry[o] \in Texts
=============================================================================
