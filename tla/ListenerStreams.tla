----------------------------- MODULE ListenerStreams -----------------------------
(***************************************************************************)
(* The notification streams of the SDK's Listener                          *)
(* (src/src/infrastructure/Listener.ts) on one open connection: how        *)
(* confirmed(), unconfirmedAdded(), aggregateBondedAdded() ("added"        *)
(* streams, of transactions), unconfirmedRemoved(),                        *)
(* aggregateBondedRemoved() ("removed" streams, of transaction hashes),    *)
(* status(), cosignatureAdded(), newBlock() and finalizedBlock() are       *)
(* subscribed, with or without the account's multisig accounts, and what   *)
(* each incoming message makes them emit.  A status error or a cosignature *)
(* is told by its transaction; a block is told to NoAddress, the empty     *)
(* channelParam of its topic.                                              *)
(*                                                                         *)
(* All streams of a Listener read one message subject, and the gateway     *)
(* sends a transaction once per subscribed address it involves, so a       *)
(* stream also sees the messages other streams subscribed to.              *)
(***************************************************************************)
EXTENDS Naturals, Sequences, FiniteSets, SequencesExt

CONSTANTS Addresses,
          Transactions,
          Involved,       \* [Transactions -> SUBSET Addresses]: who the node notifies
          Recognised,     \* [Transactions -> SUBSET Addresses]: for whom isSigned() or
                          \* shouldNotifyAccount() holds, which look at the transaction
                          \* alone and do not resolve aliases
          MultisigOf,     \* [Addresses -> SUBSET Addresses]: multisigAddresses of an account
          Streams,        \* set of Stream records
          Scenes,         \* which of them are ever asked for, in one behaviour
          NoAddress,      \* of a block
          AnyHash,        \* no transactionHash argument
          None,           \* before the first element of a stream
          MaxReports,     \* bound: how often the node reports each notification
          MaxInFlight     \* bound: messages on the wire when the node reports another

Channels == {"added", "removed", "status", "cosignature", "block"}
Stream == [channel : Channels, owner : Addresses, multisig : BOOLEAN,
           hash : Transactions \union {AnyHash}]
Notification == Channels \X Transactions

ASSUME StreamsAssumption ==
    /\ Streams \subseteq Stream
    /\ \A s \in Streams : /\ s.channel \in {"cosignature", "block"} => s.hash = AnyHash
                          /\ s.multisig => s.channel \in {"added", "removed", "cosignature"}
                          /\ s.channel = "block" <=> s.owner = NoAddress
    /\ Scenes \subseteq SUBSET Streams
    /\ AnyHash \notin Transactions /\ None \notin Transactions
ASSUME AddressesAssumption ==
    /\ IsFiniteSet(Addresses)
    /\ Involved \in [Transactions -> SUBSET Addresses]
    /\ Recognised \in [Transactions -> SUBSET Addresses]
    /\ \A t \in Transactions : Recognised[t] \subseteq Involved[t]
    /\ MultisigOf \in [Addresses -> SUBSET Addresses]
ASSUME BoundsAssumption == MaxReports \in [Notification -> Nat] /\ MaxInFlight \in Nat

VARIABLES phase,        \* each stream: "idle", "lookup", "listening", "failed", "done"
          subscribers,  \* the addresses a stream subscribed for
          served,       \* addresses the gateway sends on each channel of this connection
          wire,         \* messages on their way to the client
          last,         \* what distinctUntilChanged of a stream compares with
          reported,     \* history: how often the node reported each notification
          emitted,      \* history: how often each stream emitted it
          due,          \* history: how often each transaction was sent to a stream
          latest,       \* history: the transaction of a stream that was reported last
          repeated      \* history: how often that one was reported once more

histories == <<reported, emitted, due, latest, repeated>>
vars == <<phase, subscribers, served, wire, last, histories>>

-----------------------------------------------------------------------------
(* The operators of a stream.  The slips (Slip...) are plausible bugs of    *)
(* them; no specification uses them.                                        *)

MatchesHash(s, t) == s.hash \in {AnyHash, t}

\* distinctUntilChanged: the same hash as the last element that went through.
SlipNeverRepeats(s, t) == FALSE
Repeats(s, t) == t = last[s]

\* The address filter of an added stream: a message on another address's channel
\* counts when the transaction itself shows the account.
SlipAnyAddress(s, t, address) == TRUE
SlipOwnChannelOnly(s, t, address) == address \in subscribers[s]
ForAccount(s, t, address) == address \in subscribers[s] \/ s.owner \in Recognised[t]

\* The other streams look at the channel alone.
Wanted(s, m) ==
    /\ MatchesHash(s, m.transaction)
    /\ IF s.channel = "added" THEN ForAccount(s, m.transaction, m.address)
                              ELSE m.address \in subscribers[s]

\* An added stream drops repetitions first and filters by hash and address then;
\* a removed stream filters first; the others drop none.
SlipFiltersLast(s) == FALSE
FiltersFirst(s) == s.channel # "added"
DropsRepetitions(s) == s.channel \in {"added", "removed"}

\* All a stream of blocks asks of a message.
OnChannel(s, m) == s.channel = m.channel

Distinct(s, m) ==
    /\ OnChannel(s, m)
    /\ FiltersFirst(s) => Wanted(s, m)
    /\ DropsRepetitions(s) => ~Repeats(s, m.transaction)

Emits(s, m) == phase[s] = "listening" /\ Distinct(s, m) /\ Wanted(s, m)

-----------------------------------------------------------------------------
Init == /\ \E scene \in Scenes :
             phase = [s \in Streams |-> IF s \in scene THEN "idle" ELSE "done"]
        /\ subscribers = [s \in Streams |-> {}]
        /\ served = [c \in Channels |-> {}]
        /\ wire = <<>>
        /\ last = [s \in Streams |-> None]
        /\ reported = [n \in Notification |-> 0]
        /\ emitted = [s \in Streams |-> [n \in Notification |-> 0]]
        /\ due = [s \in Streams |-> [t \in Transactions |-> 0]]
        /\ latest = [s \in Streams |-> None]
        /\ repeated = [s \in Streams |-> [t \in Transactions |-> 0]]

\* subscribeWithMultig's continuation: one subscribeTo per address, then listen.
SlipOwnerServed(s, addresses) == {s.owner}
ServedFor(s, addresses) == addresses
ListenFor(s, addresses) ==
    /\ phase' = [phase EXCEPT ![s] = "listening"]
    /\ subscribers' = [subscribers EXCEPT ![s] = addresses]
    /\ served' = [served EXCEPT ![s.channel] = @ \union ServedFor(s, addresses)]

(* Without multisig the subscription is sent by the call itself; with it,   *)
(* the multisig accounts are asked for first.                               *)
Ask(s) ==
    /\ phase[s] = "idle"
    /\ IF s.multisig
       THEN phase' = [phase EXCEPT ![s] = "lookup"] /\ UNCHANGED <<subscribers, served>>
       ELSE ListenFor(s, {s.owner})
    /\ UNCHANGED <<wire, last, histories>>

(* The repository answers; a failed lookup falls back to the account alone. *)
Answered(s, ok) ==
    /\ phase[s] = "lookup"
    /\ ListenFor(s, IF ok THEN {s.owner} \union MultisigOf[s.owner] ELSE {s.owner})
    /\ UNCHANGED <<wire, last, histories>>

(* The account is an alias that resolves to no address.                     *)
Unresolved(s) ==
    /\ phase[s] = "lookup"
    /\ phase' = [phase EXCEPT ![s] = "failed"]
    /\ UNCHANGED <<subscribers, served, wire, last, histories>>

(* The client unsubscribes; the gateway is not told.                        *)
Unsubscribe(s) ==
    /\ phase[s] = "listening"
    /\ phase' = [phase EXCEPT ![s] = "done"]
    /\ UNCHANGED <<subscribers, served, wire, last, histories>>

(* What a report of t on channel c is to a stream, whatever the stream does *)
(* with it.  It is sent to a stream that asked for t and subscribed an      *)
(* address t involves.  It is the element before the next one for a stream  *)
(* of hashes it is sent to, and for every stream of transactions on c.      *)
SentTo(s, c, t) ==
    /\ phase[s] = "listening" /\ s.channel = c
    /\ MatchesHash(s, t)
    /\ Involved[t] \intersect subscribers[s] # {}
IsLatestOf(s, c, t) ==
    \/ c = "removed" /\ SentTo(s, c, t)
    \/ /\ c = "added" /\ s.channel = c /\ phase[s] = "listening"
       /\ Involved[t] \intersect served[c] # {}
OneMore(count, s, t) == [count[s] EXCEPT ![t] = @ + 1]

(* The node reports t on channel c, once per involved address in one run of *)
(* messages; the gateway passes on those that were subscribed.  What is     *)
(* reported before anyone has subscribed its channel reaches no one.        *)
Report(c, t) ==
    /\ served[c] # {}
    /\ reported[<<c, t>>] < MaxReports[<<c, t>>]
    /\ Len(wire) <= MaxInFlight
    /\ reported' = [reported EXCEPT ![<<c, t>>] = @ + 1]
    /\ \E order \in SetToSeqs(Involved[t] \intersect served[c]) :
         wire' = wire \o [i \in DOMAIN order |->
                            [channel |-> c, address |-> order[i], transaction |-> t]]
    /\ due' = [s \in Streams |-> IF SentTo(s, c, t) THEN OneMore(due, s, t) ELSE due[s]]
    /\ repeated' = [s \in Streams |->
         IF SentTo(s, c, t) /\ latest[s] = t THEN OneMore(repeated, s, t) ELSE repeated[s]]
    /\ latest' = [s \in Streams |-> IF IsLatestOf(s, c, t) THEN t ELSE latest[s]]
    /\ UNCHANGED <<phase, subscribers, served, last, emitted>>

(* handleMessage: the message subject passes a message to every stream.     *)
Receive ==
    /\ wire # <<>>
    /\ wire' = Tail(wire)
    /\ LET m == Head(wire) IN
         /\ last' = [s \in Streams |->
              IF phase[s] = "listening" /\ DropsRepetitions(s) /\ Distinct(s, m)
              THEN m.transaction ELSE last[s]]
         /\ emitted' = [s \in Streams |->
              IF Emits(s, m)
              THEN [emitted[s] EXCEPT ![<<m.channel, m.transaction>>] = @ + 1]
              ELSE emitted[s]]
    /\ UNCHANGED <<phase, subscribers, served, reported, due, latest, repeated>>

Next == \/ \E s \in Streams : Ask(s) \/ Unresolved(s) \/ Unsubscribe(s)
        \/ \E s \in Streams, ok \in BOOLEAN : Answered(s, ok)
        \/ \E c \in Channels, t \in Transactions : Report(c, t)
        \/ Receive

Spec == Init /\ [][Next]_vars

-----------------------------------------------------------------------------
Message == [channel : Channels, address : Addresses, transaction : Transactions]

\* Every variable has its type, and the gateway serves what each stream subscribed.
TypeOK ==
    /\ phase \in [Streams -> {"idle", "lookup", "listening", "failed", "done"}]
    /\ subscribers \in [Streams -> SUBSET Addresses]
    /\ served \in [Channels -> SUBSET Addresses]
    /\ \A s \in Streams : subscribers[s] \subseteq served[s.channel]
    /\ wire \in Seq(Message)
    /\ last \in [Streams -> Transactions \union {None}]
    /\ reported \in [Notification -> Nat]
    /\ emitted \in [Streams -> [Notification -> Nat]]
    /\ due \in [Streams -> [Transactions -> Nat]]
    /\ latest \in [Streams -> Transactions \union {None}]
    /\ repeated \in [Streams -> [Transactions -> Nat]]

\* Stream s asked for notification n: its channel, its hash, its account or one of
\* the account's multisig accounts.
AskedFor(s, n) ==
    /\ n[1] = s.channel
    /\ MatchesHash(s, n[2])
    /\ Involved[n[2]] \intersect
         ({s.owner} \union IF s.multisig THEN MultisigOf[s.owner] ELSE {}) # {}

Feed == INSTANCE NotificationFeed
            WITH Notifications <- Notification, Concerns <- AskedFor

\* The streams implement NotificationFeed: whatever the other streams of the Listener
\* subscribed to, a stream emits only what it asked for, and a transaction that comes
\* once per involved address only once per report (transactionSubscription,
\* transactionHashSubscription).
ImplementsFeed == Feed!Spec

\* The transaction shows a stream that it is the stream's, or nobody else's come.
ShownTo(s, t) == \/ s.owner \in Recognised[t]
                 \/ s.channel # "added"
                 \/ served[s.channel] = subscribers[s]

\* Each time the node reports a transaction to a stream, the stream emits it; but a
\* stream of transactions or hashes not when the report before was of the same one,
\* and a stream of transactions only when the transaction itself shows the account or
\* no other address is subscribed on the channel.  So a transaction that is reported
\* again after another one, as in a roll-back, is emitted again (transactionSubscription,
\* transactionHashSubscription, status, ...).
NothingShownIsMissed ==
    wire = <<>> => \A s \in Streams, t \in Transactions :
        phase[s] = "listening" /\ ShownTo(s, t) =>
            emitted[s][<<s.channel, t>>] + repeated[s][t] >= due[s][t]

-----------------------------------------------------------------------------
(* What the documentation says, and the code does not do: "Each time a      *)
(* transaction is in confirmed state an it involves the address, it emits a *)
(* new Transaction in the event stream" (Listener.ts:295-296).              *)

\* Not when the transaction of a multisig account came first on another address's
\* channel (distinctUntilChanged comes before the address filter).
NothingDueIsMissed ==
    wire = <<>> => \A s \in Streams, t \in Transactions :
        phase[s] = "listening" =>
            emitted[s][<<s.channel, t>>] + repeated[s][t] >= due[s][t]

\* Not when the same transaction is confirmed again after a roll-back, with nothing
\* else on the channel in between (distinctUntilChanged drops it).
EveryReportIsEmitted ==
    wire = <<>> => \A s \in Streams, t \in Transactions :
        phase[s] = "listening" /\ ShownTo(s, t) =>
            emitted[s][<<s.channel, t>>] >= due[s][t]
=============================================================================
