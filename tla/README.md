# A verification of the Symbol SDK for TypeScript and JavaScript

TLA+ modules that model the stateful and asynchronous core of this SDK, TLC
configurations that check them on small instances, and TLAPS proofs of what
matters most. Paths such as `src/src/service/TransactionService.ts` are those
of the repository with `src/` in front; line numbers are of this commit.
`PROJECT.json` maps every definition that models code to its lines.

The SDK is a client library. It keeps little state, and what can go wrong in it
is seldom a wrong assignment: it is the order of answers, notifications,
subscriptions and calls, state that is read before an `await` or an observable
and used after it, and look-ups whose indices mean different things at their two
ends. The modules are about those.

## Inventory

| Component | State | Operations | Talks to | What is hard, and what makes it correct |
|---|---|---|---|---|
| Listener: connection (`infrastructure/Listener.ts`) | `webSocket`, `uid`, `SIGINT`, the closures of each `open()` | `open`, `close`, `isOpen`, `handleMessage` (uid), `subscribeTo` | gateway over web socket; callback of the caller | uid, error and close events in any order, several connections of one Listener. An awaited `open()` leaves a usable uid; own closes are silent, foreign ones reported; promises settle. |
| Listener: streams | one message subject, a `distinctUntilChanged` per stream | `confirmed`, `unconfirmedAdded`, `unconfirmedRemoved`, `aggregateBondedAdded`, `aggregateBondedRemoved`, `status`, `cosignatureAdded`, `newBlock`, `finalizedBlock` | gateway; multisig and namespace repositories | all streams see all messages; a transaction comes once per address. A stream emits what it asked for, once per report, and no report that shows to be its own is lost but a repetition. |
| TransactionService: announcing | observables in flight | `announce`, `announceAggregateBonded`, `announceHashLockAggregateBonded` | REST, Listener | REST answer, status error and notification race. What the caller is given is what the node decided, and it is given something. |
| TransactionService: aliases (`model/receipt`) | resolution statements of a block | `resolveAliases`, `checkShouldResolve`, `getResolutionEntryById` | receipt repository, transaction classes | indices from 0 and from 1, of blocks and of aggregates. A transaction resolves to what its alias meant when it was executed. |
| Pagination streamers | `criteria.pageNumber` of the caller's object | `search` | repositories | recursion over pages that move; the caller's object is written to. Every element once, in order; an end; no page too many. |
| AggregateTransactionService | none (answers in flight) | `isComplete`, `getMaxCosignatures` | multisig and network repositories | multisig graphs of several levels. "Complete" is said exactly of complete aggregates. |
| Transaction classes (`model/transaction`, `infrastructure/transaction`) | immutable values, but for the mosaics of a transfer | `createBuilder`, `createFromPayload`, `toJSON`, `createFromDTO`, `toAggregate`, `resolveAliases`, `shouldNotifyAccount` | builders, REST | each class names its fields five times, in five orders, and conversions are done and undone along the way. The bytes a node sees are those the creator meant. |
| Aggregate signing (`AggregateTransaction`, `CosignatureTransaction`) | the aggregate, the payload made last, the cosignatures collected | `addTransactions`, `addCosignatures`, `setMaxFeeForAggregate`, `reapplyGiven`, `signWith`, `signTransactionWithCosignatories`, `signTransactionGivenSignatures`, `signTransactionPayload` | Account, REST | the order of changing, signing and cosigning. A cosignature is valid exactly for what its signer saw, unless that was changed after REST had given it; the fee pays for what is sent. |
| Merkle hashes, block and state proofs (`MerkleHashBuilder`, `BlockService`, `StateProofService`, `MerkleTreeParser`) | the answers read so far | `validateTransactionInBlock`, `validateStatementInBlock`, `calculateTransactionsMerkleRootHash`, ten proofs `...ById` | block, state and transaction repositories | two or three reads of a chain that moves; odd levels, odd nibbles, paths with and without branches. What is proven was so, and what is so is proven. |
| Metadata and mosaic restriction services | the value that was read | create the transaction of a difference | metadata, restriction and namespace repositories | the value, its owner or the meaning of an alias changes between the read and the node's decision. |
| Repository factory, CurrencyService | cached observables (`shareReplay(1)`) | `getNetworkType`, `getEpochAdjustment`, `getGenerationHash`, `getNodePublicKey`, `getCurrencies` | REST | several callers subscribe while a read is under way, after it, or after it failed. One answer for all; a failure is not kept. |
| Deadlines (`DeadlineService`) | `localTimeOffset` | `create`, `createDeadlineUsingOffset`, `...UsingServerTime`, `...UsingLocalTime` | factory, node, local clock | clocks that differ and answers that take time. A deadline counts from the node's time. |
| Namespace, account and mosaic services | none | joins of several reads for display | repositories | partial answers. |
| Numbers, ids, addresses, DTO mapping | none | arithmetic, conversions | | 64-bit edges. |
| Cryptography, wallets, value objects | | | | black boxes, or plain records. |

The streams of a Listener are what announcing waits for; the factory is what every
service takes its network settings from; the transaction classes are the values
that aggregates hold, that statements resolve and that the Listener filters by.

`PROJECT.json` lists the hazards of this code at their lines, with the
properties that are there for each, or why none is yet.

## The modules

Each module is the specification of one component. Names beginning with `Slip`
are plausible bugs of the operator that follows them; no specification uses
them: putting one in place of the operator it precedes shows that a property
notices.

**`ListenerConnection`**: `open()` with no socket or a closed one (`OpenNew`)
and otherwise (`OpenAgain`), `Close`, `subscribeTo` (`Subscribe`), the uid
(`ReceiveUid`), and the events of the socket (`Established`, `ConnectFails`,
`Drop`, `Closed`). `readyState` is the web socket's. Since a socket is only made
when the former is CLOSED, the sockets have numbers and only the last has a
state; the uid of connection *n* is *n*. `opener` says whose closures the
handlers of the socket are. Of the `ws` library the model takes what the code
relies on: `send()` throws on a CONNECTING socket and drops the message on a
CLOSING or CLOSED one, `close()` on a CONNECTING socket is an error event and a
close event, and a socket the client closes still receives until it is CLOSED.
The gateway is taken to ignore a subscription that names another connection.
`resolved` notes on which connection, and in which state of its socket, each `open()`
resolved: the one that made the connection when the uid comes, every other one at once.

**`ListenerStreams`** implements **`NotificationFeed`**: `transactionSubscription`
and `transactionHashSubscription` after `subscribeWithMultig`, on one open
connection. A stream is a record of channel kind, account, multisig flag and
hash. Status errors, cosignatures and blocks go the same way with fewer operators:
they drop no repetitions, and a block has the empty address. `Recognised` is what `isSigned` and `shouldNotifyAccount` say of a
transaction, which is a subset of `Involved`, whom the node notifies. The
operators are in the order of the code's pipe: `Distinct` (with
`distinctUntilChanged`), then `Wanted` for transactions, and the other way round
for hashes. `Scenes` are the sets of streams a behaviour may ask for, so that
each run is over streams that disturb each other. `due` counts the reports that are sent
to a stream, and `repeated` those of them that are of the same transaction as the report
before (`latest`), which `distinctUntilChanged` drops: a second confirmation after a
roll-back must come through unless it is one of these. `NotificationFeed` only knows what was
reported and what was emitted.

**`TransactionAnnouncement`** implements **`AnnouncementContract`**: two legs, the
plain transaction (or hash lock) and the aggregate bonded one. The REST call, the
node, the subscriptions to the gateway and the notifications are separate steps.
`announce` subscribes `/confirmed` in the call and `/status` when its result is
subscribed; `announceAggregateBonded` subscribes `/partialAdded` when the REST
answer comes (`BondedAnswered`); a confirmed hash lock starts the second leg in
the same turn (`Receive`). The contract says: the outcome is the node's
decision, and the aggregate has no fate before its lock yielded.

**`PaginationStreamer`** implements **`Listing`**: `pageNumber` is the field of the
caller's criteria object, `own` the argument of `searchInternal`. `NextPage` is
one turn: write the next number, hand over the elements, ask. A consumer may
start another search while it is handed the elements (`NextPageReentrant`).
`setup` says what the callers do with their criteria objects.

**`AliasResolution`**: a node executes a block (`Use`, `Link`) and writes a
resolution entry when the alias has another meaning than in the last entry; then
`ResolveAliases` applies `Statement.getResolvedFromReceipt` to each transaction.
`ResolutionEntryById` follows `getResolutionEntryById`; `Math.max` of no entry is
0 here and -Infinity there, and both find nothing. `PrimaryIdFor` and
`SecondaryIdFor` are what `TransactionService` and `Statement` make of the
indices between them.

**`MultisigCompletion`**: `isComplete` asks for the settings of all inner signers
at once (`InfoArrives`), for the graph of a multisig one (`GraphArrives`), and
emits when the last has answered. `LevelsChecked` goes through the levels of the
graph from the bottom, `AccountsChecked` through the accounts of one. `Authorised` is the reference: a fixed point from
the signers upwards. The signers are different accounts, as a node requires of
an aggregate; `compareArrays` would count one that signed twice as two.
`GetMaxCosignatures` is `getMaxCosignatures` over the same graphs.

**`TransactionTransport`** with the tables of **`TransactionClasses`**: one
transaction of any of the 23 forms (a root and a sub namespace are two), every
combination of the cases of its fields, on its way through `toAggregate`,
`setMaxFee`, `serialize`, `signWith`, `createFromPayload`, `toJSON`,
`createFromDTO` and `resolveAliases` in any order. The tables are the code: what
`create()` takes, what is handed to the builders, what is read from a payload
and from a DTO, each in the order of the source, so that two fields in a wrong
order, one left out or one converted once too often is a different transaction
at the other end. A field's value is a string that names its case ("alias",
"unsorted", "accents", ...); `Written` and `Parsed` say what conversions make of
it. `Covered` is what a signature is of.

**`AggregateSigning`** over **`MerkleHash`**: the initiator's aggregate, the
payload it signed last and the cosignatures it was sent. Hashes are terms, the
hash of two is their pair, so equality of hashes is equality of what is hashed;
`CalculateRootHash` does what `MerkleHashBuilder` does, splice by splice, its two loops
as functions of how often they ran; `MerkleRoot` is what its comments describe, level by level
(`Levels`). Cosignatures are lists, to which the code appends what it is given, of one
account twice too. A cosignature carries what its signer saw, and what the hash it signed
was of: an aggregate that REST gave has a `transactionInfo` with the hash it was announced
with, which it keeps when it is changed, and `CosignAnnounced` signs that one. Signing a hash
that the caller hands over (the optional argument of `CosignatureTransaction.signWith`) is
not modelled: the code signs whatever it is. Sizes are counted in bytes, with 96 for an inner transaction, so that fees
are sums of the code's terms.

**`BlockProof`** over **`MerkleHash`**, **`ChainState`** and **`PatriciaTree`**: a
call is its requests, each answered by the chain of that moment or failing (`BlockAnswer`,
`PageAnswer`, `EntityAnswer`), and `ChainChanges` may put another chain between
any two. A failure is "not in the block" for the first two validations, and an error
of the others. The pages of a block come in either order, and `ByIndex` sorts them. `ChainState` holds for every class of state and receipt what REST shows,
what the constructor is given and what is serialised for its hash, in the order
of the source. `PatriciaTree` is the parser of raw trees over bytes, in which a
hash counts as one, beside a node that writes them; `InOrder` sorts the bits of a branch
and the ids of a path. All loops are functions of how often they ran, so that
they can be proved about.

**`ValueDelta`**: calls of the metadata or of the restriction services, request by
request, then the node's decision on the transaction each made. Texts are
sequences of sets of bits, so `Xor` is the code's. A restriction is of a mosaic and, when
of an address, of an account, each named by itself or by an alias; the aliases are looked
up side by side (`GetResolvedMosaicId`, `GetResolvedAddress`), and the values read of what
they stood for. A global restriction is made of the resolved mosaic, one of an address
of the names it was called with, which the node resolves for itself (`Meaning`). The node is
external: it applies a difference to the value it has then and refuses what does not fit.

**`NetworkReads`** and, over it, **`DeadlineService`**: the cached observables of
`RepositoryFactoryHttp`. A getter is served from a configured setting, from a kept
answer, or waits for the read that is under way (`GetConfigured`, `GetKept`,
`GetAsked`; `GetUnmapped` is the epoch adjustment of kept properties that lack
it). Values are the reads they were put together from and how often the node had
been set up when each was answered. `DeadlineService` is one of the callers: it
asks the node for its time, and its three ways to make a deadline are measured
against the node's clock, with a local clock that is ahead or behind and requests
that take time.

## The runs

| Run | Result | What it shows |
|---|---|---|
| `ListenerConnection` | holds | three `open()` calls, so that one connection is lost, one closed and one replaces them, or a second call comes while the first is connecting; a stream asked for at any time. |
| `ListenerStreams` | holds | two scenes of four streams: transactions and hashes of two accounts with a common multisig account, one transaction reported twice; and one stream each of transactions, errors, cosignatures and blocks. |
| `TransactionAnnouncement` | holds | all three methods, both legs with one signer, refusals and a dropped socket. |
| `AnnounceRefused` | violated | `RefusedAnnounceSettles`: `TransactionService.ts:76` drops the REST observable and its error. |
| `PaginationStreamer` | holds | two streams, pages of two, up to six elements: empty, short, full and growing last pages; one consumer takes four. |
| `AliasResolution` | holds | blocks of three transactions with up to three inner ones; two meanings, so that the alias may change and change back. |
| `MultisigCompletion` | holds | flat, nested and split networks of three multisig accounts and three others, thresholds of 1 and 2, all sets of signers, two inner transactions. |
| `TransactionTransport` | holds | every form, every case of its fields, every order of conversions: the same bytes (`BytesSurvive`), `checkShouldResolve` and `resolveAliases` in agreement (`ShouldResolveAgrees`), every account named is notified (`NamedIsNotified`). |
| `AggregateSigning` | holds | two inner transactions, a cosigner who may cosign more than once, two deadlines, changed, signed, cosigned, announced and read again in any order, and cosigned as it was announced after it was changed (`CosignaturesMatchContents`, `FeeCovers`). |
| `BlockProof` | holds | four chains, two changes between the requests of a call, every kind of entity and receipt, a block read in either order (`ProvenWasSo`, `UndisturbedIsProven`, `RootIsTheChains`). |
| `ValueDelta` | holds | two calls of either service, of two accounts and two mosaics, with one change of an owner or of each of the two links beside what the calls change themselves (`MetadataAsAsked`, `RestrictionStandsOnWhatWasRead`). |
| `DeadlineService` | holds | a factory in three configurations shared by two callers, one of them the service; the node is set up anew once and one request fails (`CallersAgree`, `AnsweredInTheEnd`, `DeadlineFollowsServer`). |

Properties that a comment, a test or the documentation promises and the code does
not keep are stated in their module, next to the property that says exactly how
far the code keeps it. Each was seen to fail under its module's run; all are
listed as findings in `PROJECT.json`, and one, `AnnounceRefused`, is kept as a run.

| Fails | Because | What holds instead |
|---|---|---|
| `EveryUnsolicitedCloseIsReported` | `close()` sets `SIGINT` (`Listener.ts:254`) and no `open()` resets it | `UnsolicitedCloseIsReported`: up to the first own close |
| `EveryAwaitedOpenIsUsable` | `open()` of a CONNECTING socket resolves at once (`Listener.ts:147`), and `send()` then throws | `AwaitedSubscribeNeverThrows`: any other awaited `open()` of the connection, the one that made it or a later one |
| `NothingDueIsMissed` | `distinctUntilChanged` (`Listener.ts:362`) remembers what the address filter then drops | `NothingShownIsMissed`: when the transaction shows the account, or no other address is on the channel |
| `EveryReportIsEmitted` | `distinctUntilChanged` (`Listener.ts:362`) also drops a transaction that is confirmed again with no other in between | `NothingShownIsMissed`: every report but one that repeats the one before |
| `AddedBondedSettles` | `TransactionService.ts:96` subscribes after the REST answer | `SettlesWhenServed`: when the channels are served before the node decides |
| `PlainResolvesToItsUse` | 0 as aggregate index (`TransactionService.ts:162`) is taken for an aggregate's | `PlainResolvesWhenUnchanged`: one meaning in the block |
| `AcceptedIsComplete` | levels above a valid one are skipped (`AggregateTransactionService.ts:150`) | `FlatAcceptedIsComplete`: no nested multisig accounts |
| `CosignersCountedOnce` | a `Set` of `Address` objects (`AggregateTransactionService.ts:97`) | nothing: it is a count |
| `NoAliasLeft` | several classes leave fields unresolved (`MosaicMetadataTransaction.ts:213` and others) | `ShouldResolveAgrees`: what is asked for is what is resolved |
| `AllBytesSurvive` | texts are encoded twice (`Convert.ts:193`), raw messages wrapped (`TransferTransaction.ts:206`) | `BytesSurvive`: without either |
| `IsMerkleRoot` | parents are inserted beside their children (`MerkleHashBuilder.ts:75`) | `CosignaturesMatchContents`: up to two inner transactions |
| `CosignedIsWhatIsSeen` | a changed aggregate keeps the hash it was announced with (`AggregateTransaction.ts:208`), which is what is cosigned (`CosignatureTransaction.ts:76`) | `CosignaturesMatchContents`: when it was not changed since REST gave it |
| `FeeAlwaysCovers` | `size` prefers the remembered `payloadSize` (`Transaction.ts:363`) | `FeeCovers`: unless that is stale |
| `TextWasAskedFor` | a difference is applied to another value than was read | `MetadataAsAsked`: when it is the same |
| `ConfiguredIsNotLoaded` | both settings of the node must be given (`RepositoryFactoryHttp.ts:97`) | nothing: the setting is ignored |

Some cases are left out of the runs because the properties fail in them and no
documentation promises otherwise: streams on one criteria object that are
subscribed later than `search()` was called (or started from another stream's
elements) and a stream that is subscribed again after a failed page, which ask
for the page that was left in the object, so that elements are skipped; and a
stream of cosignatures with multisig accounts, which emits a cosignature once per
address.

**Bounds.** Counters are bounded by the sets of calls (`Opens`, `Streams`,
`Callers`) or by constants in guards: `MaxReports` and `MaxInFlight`
(ListenerStreams), `MaxSize` (PaginationStreamer), `MaxPrimary` and
`MaxSecondary` (AliasResolution), `MaxInner`, `MaxCosignatures` and `MaxAttached`
(AggregateSigning), `MaxChanges` (BlockProof; ValueDelta, of the owner and of each link), `MaxSetup`,
`MaxFailures` and `MaxTime` (DeadlineService). They are chosen so that each
hazard has room: three connections for "lost, then closed, then replaced"; two
reports for a roll-back; three pages for a full last page that grows; three
transactions for an entry before, in and after an aggregate; one level of nesting
below another account for the multisig graph; two inner transactions, which is
as far as the hash tells contents apart, and two attached cosignatures, so that the one
that is collected comes beside one the initiator makes itself, or is attached twice: nothing
asks who signed, so that one cosigner is enough; two changes of the chain, so that each of
the up to three requests of a proof may meet another one, and a change may be
undone; texts of up to two characters for a value that grows, shrinks and vanishes; restrictions of
two values, the highest of which is that of no restriction, and two mosaics and accounts,
which are interchangeable (`SYMMETRY`); one change of each link, which is enough for it to
happen before, between and after the look-ups of a call; one
set-up and one failure between any two of the reads of the currencies; a second of
two units and two units of time, so that an answer may take longer than the
clocks differ. A local clock behind the node's (`MCSkews`) makes the offset negative; the
proof is for any skew. The nibbles of the four chains are odd and even above and at the leaf.

**Deadlock** is not checked: a client may stop calling at any time, and a
finished announcement, block, proof or conversion has no next step. What must
happen is stated as liveness.

**Fairness.** Weak fairness only, of the network and the event loop: a connection
attempt ends, a greeting or queued message of a live connection is delivered, a
close completes, requests are answered or fail, answers are handled, and a node
decides on a transaction in the end (it has a deadline). No fairness makes a
peer drop a connection, and only in NetworkReads is a client made to call: there a
caller that was refused calls again, since the property is that this is enough. That
each request is answered or fails is the promise of `fetch`; that it does not fail for
ever is the bound `MaxFailures`.

## The proofs

`ListenerConnection_proofs` proves, for any sets of calls and streams and so any
number of reconnections, the type invariant and all four safety properties of
the run:

- `TypeCorrect` and `AlwaysTyped`. `TypeOK` is not inductive: that a CONNECTING
  socket's promise is pending, that there is a socket exactly when the state is
  not NONE, and that a CLOSING socket has someone who closes it
  (`ConnectingPends`) must be carried along.
- `FreshUid`: together with `OpenerCalled` (the opener's promise is not "none", so
  that a later `open()` cannot resolve it before the uid has come).
- `OwnCloseSilent` and `LossIsReported`: from an invariant that ties `SIGINT` to
  how the sockets so far were closed: an own close under way has raised it, and
  when it is raised an own close is under way or in the log (`SigintIsAClose`);
  the log only holds sockets that are gone (`LogIsPast`).
- `SubscribeNeverThrows`. Subscribing throws without a socket, where no promise resolved,
  or on a CONNECTING one, on which only those resolved that were called while it was
  CONNECTING (`ResolvedInv`): a socket that no longer connects never connects again, and
  its opener resolves with the uid, which comes later.

`TransactionAnnouncement_proofs` proves, for any signers and faults, the type
invariant and `Implements`: each step of the service is a step or a stutter of
`AnnouncementContract`. The inductive invariant (`Inductive`) adds to the types
that a transaction reaches the node only with its REST call, which is made when
its leg leaves idle, and that only a waiting leg observes streams (`Announced`);
that the bonded leg of the combined flow is idle until the confirmed hash lock
was given (`LockFirst`); and that every notification in flight says what the node
decided (`InboxIsTrue`). Without the last, a step of `Receive` could yield what
the node never decided; without the second, a step of `NodeDecides` on the
aggregate would not be one of the contract's.

Of DeadlineService, `Transactions_proofs` proves, for any callers, configurations, clocks, durations and
numbers of failures and set-ups, all three invariants of the run:

- `DeadlinesFollow`. `DeadlineFollowsServer` is not inductive: the offset is the
  difference of the clocks and what its answer took (`OffsetIsSkew`), because the
  stamp of a request lies between its sending and now (`StampedInBetween`); and no
  deadline exists before the service (`ReadyFirst`).
- `CallersAgreed`. What a caller was given is compared with what the cache keeps now
  (`GivenIsKept`), which never changes again; what is asked for is not kept
  (`KeptIsRead`), and who waits was not configured (`WaitsToRead`).
- `ServiceTypeCorrect`. A source asks exactly while one of its reads is in flight. The
  epoch adjustment is asked for whenever the properties are (`AskedTogether`), or an
  answer to the properties would leave its callers waiting for nothing.

`ListenerStreams_proofs` proves, for any finite set of accounts, any transactions and
streams and any numbers of reports and messages in flight, the three properties of the run:

- `TypeCorrect`. Carried along with the types: a stream that does not listen yet has
  seen nothing (`Fresh`); it subscribes its account and the multisig accounts of it at
  most (`Asked`); a message is for an involved account that is served on its channel
  (`Sent`); what is due to a stream has its hash (`DueMatches`).
- `NothingIsMissed`. What a stream remembers as its last element it has emitted, when
  the filter could not have dropped it after (`LastWasEmitted`); what is due and neither
  emitted nor a repetition is still on the wire, as often as it is due (`DueComes`); and
  the transaction that was reported last will be the last element when the wire is empty
  (`LatestIsLast`), so that a report that repeats it is one that the stream drops. How
  often the messages on the wire will make a stream emit is counted from each position on
  by a function that may count less (`Left`); a report that is no repetition makes it larger
  by one (`LeftGrows`), and a message that is received smaller by one only if the stream
  emits it (`LeftShifts`).
- `StreamsImplementFeed`, under `CosignaturesPlain` (no stream of cosignatures with multisig
  accounts, which does repeat itself). That a stream emits what it asked for follows from
  `Sent`; that it emits it once per report needs the reports to be told apart. The
  invariant (`CountInv`) numbers the messages in flight by their report: the numbers of
  one notification never fall, and equal ones are a run of messages to different
  addresses (`Numbered`); a stream has either emitted less than a message's number or
  is in the middle of that report, and then remembers its transaction, or the messages left
  are for others (`Counted`, `MidReport`).

`PaginationStreamer_proofs` proves, for any page size, limits, growth, failures and callers,
all three safety properties of the run:

- `AsksNoPageTooMany`, for any use of criteria objects: a stream that asks has emitted
  exactly the pages before, all full, and less than its consumer takes (`FullBefore`). It
  counts pages and not their numbers, so that it does not matter who shares them.
- `TypeCorrect` and `StreamsImplementListing` (every step is a step or a stutter of
  `Listing`) under `SafeSetup`: in each setup either every consumer is prompt or no two
  streams have one criteria object. Without it both are false, as described above; the
  setups of the run satisfy it. The invariant (`ListingInv`) adds that the number a
  stream asks for is that of its requests, that it emitted the elements before that
  page, and that the page it was answered is the repository's of some time since
  it was subscribed (`InTurn`). A prompt stream asks in the turn in which it
  wrote the number, so what others write after is nothing to it.

`AliasResolution_proofs` proves, for blocks of any length and any meanings:

- `InnerResolved` and `PlainResolved`. The invariant (`ResolutionInv`) says of the node
  that each source that was executed is governed by the last entry up to it, which tells
  what the alias meant there (`EachGoverned`), that nothing comes after the source executed
  last (`InOrder`) and that every entry but the first follows one of another meaning
  (`FollowsDifferent`). The look-up lemmas then show that
  `getResolutionEntryById`, with its three maxima of primary and secondary ids, finds
  the governing entry of an inner transaction. For a plain one, whose ids are wrong, the
  proof needs that a single meaning in the block leaves a single entry.
- `TypeCorrect`.

`ValueDelta_proofs` proves, for texts of any length, any mosaics, calls and changes, all
three invariants of the run:

- `MetadataSet`. The lemmas on `Xor` say that the difference of two texts, padded to
  the longer, turns one into the other, and that size and difference agree as the node
  demands, so that it refuses only what the property says. Bytes are sets of eight bits
  there; nothing is said of how a text is encoded.
- `RestrictionStands`. The invariant (`ValueInv`) follows a call from stage to stage: it
  asks about the mosaic and the account that were named or about what their aliases stood for
  when they were resolved, each as it still is or linked anew since (`AtIsMeant`, by the
  count of changes that was `seen`); a restriction of an address is only asked for where there is
  a rule, unless another call removed it since (`RuleThere`); and the transaction carries
  what was read as its previous value (`MadeOfRead`).
- `TypeCorrect`, which needs the shape of a call at each stage (`Jobs`).

Of AggregateSigning, the same module proves, for any transactions, deadlines and bounds
and any finite set of cosigners all three invariants of the run. The inductive invariant (`SigningInv`)
is about the three places at once, since cosignatures and fees travel between
the aggregate, its payloads and the initiator's collection:

- every cosignature anywhere is of the hash of something that could be read, which need not
  be what its signer saw (`Genuine`), and a `transactionInfo` has the hash of what was announced
  (`Announced`). Sizes are sums over lists of cosignatures of any signers, hence
  `SigningTypeCorrect`.
- `OnlyWhatWasReadIsCosigned`. That the same contents have the same hash holds for any number of
  transactions. The converse is for two at most, as the property says: `OneRound` unrolls
  the loops of `calculateRootHash` for them, and `InnerHashTellsApart` follows.
- `FeePays`: a fee set for as many transactions as there are pays for them and for the
  cosignatures foreseen, and was never set for more than there are (`FeeStands`), so that
  adding a transaction makes a fee void and never good again.

Of MultisigCompletion, `Verdicts_proofs` proves both invariants of the run, for any finite
set of accounts, any networks of multisig accounts and any number of inner transactions:

- `CompleteIsNeverRefused`, for networks of any depth and even cyclic ones. The levels
  are followed from the deepest upwards (`NextLeft`): unless a level was found valid before,
  what is authorised in n steps and on the level n above the deepest has been received
  when that level is left (`Left`), since its cosignatories are one level below and were
  authorised a step before (`SignedOrEnough`). The order of the accounts of a level does not
  matter (`AccountsPass`). The root is alone on its level, so it makes it valid.
- `FlatAcceptanceIsExact`. Around a flat account every level holds no multisig account
  but the root (`FlatLevels`), so if the root has not enough, nothing ever changes
  (`StuckLevel`). It counts what was received, so it needs that nobody signed twice.

The invariant (`CompletionInv`) only adds to them that a graph is asked for a multisig
account and that the result is made of the verdicts. The work is in the four recursive
functions the model is made of. The induction theorems of the library have an operator as
parameter and cannot be cited; `Induct` says the same over a set, and follows from
`WFMin`, which has none. `Stepped` then gives the function a recursive definition
chooses, and `StaysIn` what its values have in common.

Of BlockProof, the same module proves, for any chains, blocks of any length, trees of any
height, any paths below a namespace, page sizes and numbers of changes, all four
invariants of the run:

- `BlockTypeCorrect`.
- `ProvenWasSoOfAChain`: what is found valid was so of a chain the node had. The invariant
  (`BlockInv`) follows the answers: each that is there was so of some chain, and of
  the one the node has now if it did not change since the call (`From`); and the result is what
  the answers make of it (`BlockKnown`, `EntityKnown`). `ProvenWasSo` alone is
  not inductive, because it says nothing of a call that still waits.
- `UndisturbedProves`: the same invariant the other way round. While the chain stands
  still all answers are of one chain, the pages that were read are what the block
  begins with (`PagesKnown`), and then a proof can only succeed.
- `ProvenRootIsAChains`: the root a proof shows is that of a chain.

Four facts about the operators carry them, and are as much of the result:

- `PathProves`: the path of a leaf leads to the root, for a list of any length. The place of
  the leaf is one of its level up to the height (`PlaceOnLevel`), and one item leads from a
  level to the one above (`OneUp`); that levels shrink to one hash is `LevelsShrink`.
- `RawReadsAsGiven`: the parser reads from the bytes of a tree what the JSON gives. The two
  bytes of a mask tell its bits (`SumTells`), a padded path its nibbles, odd or even
  (`NibbleRead`, `PathEncoded`), a branch or a leaf that is written is parsed with nothing
  left of it (`BranchParsed`, `LeafParsed`), and the loop reads one more node with each round
  (`NodesRead`).
- `NamespacePathOrders`: however the children of a namespace come, `getNamespacePath` puts
  them in the node's order. There is one row in order of a finite set (`OneOrder`), and the
  rows of the roots' children, one after another, are one (`Flattened`).
- `LeafMet` and `LeafTells`: what is serialised of an entity that was read is its leaf,
  for each kind; and if it is the leaf of a chain, it was read part by part of that state. For
  this the tables of `ChainState` are compared field by field (`EntitiesAgree`,
  `ReceiptsAgree`).

Assumptions on constants are few and named in the modules: bounds are natural numbers and
not 0 where the code has at least one; there are finitely many cosigners and accounts; an
account is a multisig account exactly if it has cosignatories; texts are sequences of
bytes; the names for an alias and for nothing are no mosaics and no accounts. Of the chains BlockProof takes
that their blocks are sequences of transactions and of statements of known receipt types, that nibbles
are below 16 and bits of branches too, and that a namespace has finitely many children, of which one of
two names is below one that is there (`ChainsAssumption`, `StatementsAssumption`): the node sees to that.

Only model-checked:

- all liveness properties (`OpenSettles`, `AwaitedStreamIsServed`, `SettlesWhenServed`,
  `RefusedBondedSettles`, `StreamEnds`, `AnsweredInTheEnd`), which need `ENABLED`;
- `TransactionTransport`, with its `TypeOK`, `BytesSurvive`, `ShouldResolveAgrees` and
  `NamedIsNotified`. It has no constants and a finite state space, so its run is
  exhaustive over the cases the module distinguishes and a proof would only be the same
  enumeration once more;
- `CalculateRootHash` of more than two hashes, which is no Merkle root and which no property is
  about (see `IsMerkleRoot` above).

## Outside the project's code

The gateway, the node, the `ws` library and `rxjs` are modelled from how the code
uses them and marked external: a gateway serves a channel from the time it
handles the subscription and sends nothing that happened before; a node sends one
message per involved address; `first()` unsubscribes both branches of a `merge`;
`concat` subscribes the second observable when the first has completed;
`shareReplay(1)` keeps an answer, shares a read under way and forgets an error;
`forkJoin` and `combineLatest` wait for all and fail with the first. A node verifies
signatures over the hash of what it is sent, applies a metadata difference to the
value it has, and writes its trees as its parser's tests show them.

## What is left

Every safety property of a run that has constants is proved. Beyond that,
`ListenerConnection` composed with
`ListenerStreams`, so that subscriptions are lost with their connection, would say
what a client must do after a loss; the code does nothing about it.

## Not modelled, and why

- Cryptography and wallets: signatures, hashes and ciphers are pure functions of bytes,
  which test vectors reach better than a model; the models take them to be injective.
- The arithmetic of `UInt64` and the encodings of addresses, ids and the catbuffer
  schema: pure functions of bytes, and the builders are generated. What the SDK hands
  to them, and in which order, is in TransactionClasses and ChainState.
- The queries of the Http repositories beyond those that ChainState and NetworkReads
  follow: they hand parameters to the generated client and map each answer.
- AccountService, NamespaceService and MosaicService join reads into views for display
  and keep nothing.
- The predicates of a transaction's status (`isConfirmed` and its like), which compare
  two heights and a hash; `getNetworkMaxCosignaturesPerAggregate`, which reads one
  property.
- A stream that is subscribed again after it failed: see above.
- Value objects without behaviour of their own.
