------------------------- MODULE TransactionAnnouncement -------------------------
(***************************************************************************)
(* TransactionService.announce(), announceAggregateBonded() and            *)
(* announceHashLockAggregateBonded()                                       *)
(* (src/src/service/TransactionService.ts) over one Listener: the REST call, *)
(* the node that takes the transaction, the web-socket subscriptions and   *)
(* the notifications all travel on their own.                              *)
(*                                                                         *)
(* A leg is one announced transaction: "plain" by announce(), which is the *)
(* hash lock of the combined flow, and "bonded" by                         *)
(* announceAggregateBonded().                                              *)
(***************************************************************************)
EXTENDS Naturals, Sequences

CONSTANTS FlowsTried,   \* which of the three methods the client calls
          Signer,       \* [Legs -> accounts]: who signed each transaction
          MayRefuse,    \* whether a REST call may fail
          MayDrop       \* whether the web socket may drop

Legs  == {"plain", "bonded"}
Flows == {"announce", "announceAggregateBonded", "announceHashLockAggregateBonded"}

ASSUME FlowsAssumption == FlowsTried \subseteq Flows
ASSUME FaultsAssumption == MayRefuse \in BOOLEAN /\ MayDrop \in BOOLEAN

VARIABLES flow,       \* the method called
          stage,      \* each leg: "idle", "called", "waiting" (subscribed), "settled"
          outcome,    \* what the returned observable yielded
          http,       \* the REST call
          node,       \* what the node has done with the transaction
          observing,  \* which of the leg's two streams the observable is subscribed to
          connected,  \* the Listener's web socket
          outbound,   \* subscribe messages on their way to the gateway
          served,     \* channels the gateway serves
          inbox       \* notifications on their way to the client

client  == <<flow, stage, outcome, observing>>
remote  == <<http, node>>
gateway == <<connected, outbound, served, inbox>>
vars == <<client, remote, gateway>>

Streams == {"transaction", "statusError"}

\* The channel of a stream: a transaction stream per kind of leg, and one status
\* stream per signer.
Channel(l, s) ==
    <<IF s = "statusError" THEN "status" ELSE IF l = "plain" THEN "confirmedAdded" ELSE "partialAdded",
      Signer[l]>>

\* Sending on a socket that is gone has no effect.
Send(channel) == outbound' = IF connected THEN Append(outbound, channel) ELSE outbound

-----------------------------------------------------------------------------
(* The client.  The slips (Slip...) are plausible bugs of these pieces; no  *)
(* specification uses them.                                                 *)

\* What getTransactionOrRaiseError's merge subscribes to: of a bonded leg the
\* transaction stream comes with the REST answer only.
SlipNoStatus(l) == IF l = "plain" THEN {"transaction"} ELSE {}
Merged(l) == IF l = "plain" THEN Streams ELSE {"statusError"}

\* first(): one element completes the observable, which leaves both streams.
SlipStreamsKept(l) == observing[l]
Left(l) == {}

\* A REST call that failed is the outcome of a bonded leg.
SlipRestErrorSwallowed == outcome
RestFailed == [outcome EXCEPT !["bonded"] = "httpError"]

\* announceHashLockAggregateBonded goes on when the hash lock has been confirmed.
SlipGoesOnAnyway(l, result) == l = "plain" /\ flow = "announceHashLockAggregateBonded"
GoesOn(l, result) ==
    l = "plain" /\ flow = "announceHashLockAggregateBonded" /\ result = "transaction"

Init == /\ flow \in FlowsTried
        /\ stage = [l \in Legs |-> "idle"]
        /\ outcome = [l \in Legs |-> "none"]
        /\ http = [l \in Legs |-> "idle"]
        /\ node = [l \in Legs |-> "unknown"]
        /\ observing = [l \in Legs |-> {}]
        /\ connected = TRUE
        /\ outbound = <<>>
        /\ served = {}
        /\ inbox = <<>>

(* announce(): the REST call, then listener.confirmed(), whose subscription *)
(* is sent at once.  The answer of the REST call is never looked at.        *)
Announce ==
    /\ flow # "announceAggregateBonded"
    /\ stage["plain"] = "idle"
    /\ stage' = [stage EXCEPT !["plain"] = "called"]
    /\ http' = [http EXCEPT !["plain"] = "sent"]
    /\ Send(Channel("plain", "transaction"))
    /\ UNCHANGED <<flow, outcome, observing, node, connected, served, inbox>>

(* announceAggregateBonded(): the REST call only.                           *)
AnnounceAggregateBonded ==
    /\ flow = "announceAggregateBonded"
    /\ stage["bonded"] = "idle"
    /\ stage' = [stage EXCEPT !["bonded"] = "called"]
    /\ http' = [http EXCEPT !["bonded"] = "sent"]
    /\ UNCHANGED <<flow, outcome, observing, node, gateway>>

(* The client subscribes to what the method returned: only now the status   *)
(* channel is subscribed.                                                   *)
Subscribe(l) ==
    /\ stage[l] = "called"
    /\ stage' = [stage EXCEPT ![l] = "waiting"]
    /\ observing' = [observing EXCEPT ![l] = Merged(l)]
    /\ Send(Channel(l, "statusError"))
    /\ UNCHANGED <<flow, outcome, remote, connected, served, inbox>>

(* The bonded leg sees the REST answer: listener.aggregateBondedAdded() or  *)
(* an error; nothing once the observable has completed.                     *)
BondedAnswered ==
    /\ stage["bonded"] = "waiting"
    /\ http["bonded"] \in {"accepted", "refused"}
    /\ http' = [http EXCEPT !["bonded"] = "seen"]
    /\ IF http["bonded"] = "accepted"
       THEN /\ observing' = [observing EXCEPT !["bonded"] = @ \union {"transaction"}]
            /\ Send(Channel("bonded", "transaction"))
            /\ UNCHANGED <<stage, outcome>>
       ELSE /\ stage' = [stage EXCEPT !["bonded"] = "settled"]
            /\ outcome' = RestFailed
            /\ observing' = [observing EXCEPT !["bonded"] = Left("bonded")]
            /\ UNCHANGED outbound
    /\ UNCHANGED <<flow, node, connected, served, inbox>>

(* A notification: dropped unless its leg's stream is observed, else the    *)
(* leg settles; a confirmed hash lock announces and subscribes the          *)
(* aggregate in the same turn.                                              *)
Receive ==
    /\ inbox # <<>>
    /\ inbox' = Tail(inbox)
    /\ LET l == Head(inbox).leg
           result == Head(inbox).stream
       IN  IF result \notin observing[l]
           THEN UNCHANGED <<client, http, outbound>>
           ELSE /\ outcome' = [outcome EXCEPT ![l] = result]
                /\ IF GoesOn(l, result)
                   THEN /\ stage' = [plain |-> "settled", bonded |-> "waiting"]
                        /\ observing' = [plain |-> Left(l), bonded |-> Merged("bonded")]
                        /\ http' = [http EXCEPT !["bonded"] = "sent"]
                        /\ Send(Channel("bonded", "statusError"))
                   ELSE /\ stage' = [stage EXCEPT ![l] = "settled"]
                        /\ observing' = [observing EXCEPT ![l] = Left(l)]
                        /\ UNCHANGED <<http, outbound>>
                /\ UNCHANGED flow
    /\ UNCHANGED <<node, connected, served>>

-----------------------------------------------------------------------------
(* The REST server, the node and the gateway.                               *)

\* The call fails before or after the node took the transaction, or succeeds.
RestAnswers(l, answer, taken) ==
    /\ http[l] = "sent"
    /\ answer = "accepted" => taken
    /\ answer = "refused" => MayRefuse
    /\ http' = [http EXCEPT ![l] = answer]
    /\ node' = [node EXCEPT ![l] = IF taken THEN "held" ELSE @]
    /\ UNCHANGED <<client, gateway>>

\* The node adds the transaction (confirmed, or partial) or rejects it, and the
\* gateway passes it on when the channel is served by then.
NodeDecides(l, decision) ==
    /\ node[l] = "held"
    /\ node' = [node EXCEPT ![l] = decision]
    /\ LET s == IF decision = "added" THEN "transaction" ELSE "statusError"
       IN  inbox' = IF Channel(l, s) \in served
                    THEN Append(inbox, [leg |-> l, stream |-> s]) ELSE inbox
    /\ UNCHANGED <<client, http, connected, outbound, served>>

GatewaySubscribes ==
    /\ outbound # <<>>
    /\ served' = served \union {Head(outbound)}
    /\ outbound' = Tail(outbound)
    /\ UNCHANGED <<client, remote, connected, inbox>>

Drop ==
    /\ MayDrop /\ connected
    /\ connected' = FALSE
    /\ outbound' = <<>>
    /\ served' = {}
    /\ inbox' = <<>>
    /\ UNCHANGED <<client, remote>>

Next == \/ Announce \/ AnnounceAggregateBonded
        \/ \E l \in Legs : Subscribe(l)
        \/ BondedAnswered
        \/ Receive
        \/ \E l \in Legs, a \in {"accepted", "refused"}, taken \in BOOLEAN :
             RestAnswers(l, a, taken)
        \/ \E l \in Legs, d \in {"added", "rejected"} : NodeDecides(l, d)
        \/ GatewaySubscribes
        \/ Drop

(* Each queue is served and the node decides in the end: a transaction has  *)
(* a deadline.  The client need not subscribe, and nothing must fail.       *)
Fairness == /\ WF_vars(BondedAnswered)
            /\ WF_vars(Receive)
            /\ WF_vars(GatewaySubscribes)
            /\ \A l \in Legs :
                 /\ WF_vars(\E a \in {"accepted", "refused"}, taken \in BOOLEAN :
                              RestAnswers(l, a, taken))
                 /\ WF_vars(\E d \in {"added", "rejected"} : NodeDecides(l, d))

Spec     == Init /\ [][Next]_vars
FairSpec == Spec /\ Fairness

-----------------------------------------------------------------------------
ChannelName == {"status", "confirmedAdded", "partialAdded"} \X {Signer[l] : l \in Legs}

ClientType == /\ flow \in Flows
              /\ stage \in [Legs -> {"idle", "called", "waiting", "settled"}]
              /\ outcome \in [Legs -> {"none", "transaction", "statusError", "httpError"}]
              /\ observing \in [Legs -> SUBSET Streams]
              /\ \A l \in Legs : stage[l] = "settled" <=> outcome[l] # "none"
RemoteType == /\ http \in [Legs -> {"idle", "sent", "accepted", "refused", "seen"}]
              /\ node \in [Legs -> {"unknown", "held", "added", "rejected"}]
Notification == [leg : Legs, stream : Streams]
GatewayType == /\ connected \in BOOLEAN
               /\ outbound \in Seq(ChannelName)
               /\ served \in SUBSET ChannelName
               /\ inbox \in Seq(Notification)

\* Every variable has its type, and a leg has settled when it has an outcome.
TypeOK == ClientType /\ RemoteType /\ GatewayType

Contract == INSTANCE AnnouncementContract
    WITH fate <- [l \in Legs |-> IF node[l] \in {"added", "rejected"} THEN node[l] ELSE "open"]

\* The service implements AnnouncementContract: what the client is given is what the
\* node decided, under any order of REST answers and notifications, and the
\* aggregate of the combined flow reaches the node after its lock was confirmed.
ImplementsContract == Contract!Spec

\* A bonded announcement the REST server refused raises an error, unless the node took
\* it all the same and a notification comes first: in no order of the two is the
\* refusal lost (announceAggregateBonded).
RefusedBondedSettles ==
    (stage["bonded"] = "waiting" /\ http["bonded"] = "refused") ~> (outcome["bonded"] # "none")

\* When the gateway serves both channels of a leg before the node decides, the
\* observable settles, unless the web socket drops (getTransactionOrRaiseError).
SettlesWhenServed ==
    \A l \in Legs :
        (/\ stage[l] = "waiting" /\ node[l] = "held"
         /\ {Channel(l, s) : s \in Streams} \subseteq served
         /\ l = "bonded" => http[l] = "seen")
            ~> (stage[l] = "settled" \/ ~connected)

-----------------------------------------------------------------------------
(* What the documentation says, and the code does not do.                  *)

\* "The observable will resolve the transaction from 2) or it will raise an error
\* from 3)" (ITransactionService.ts:48): neither when the REST call fails, whose
\* error announce() does not look at.
RefusedAnnounceSettles ==
    (stage["plain"] = "waiting" /\ http["plain"] = "refused") ~> (stage["plain"] = "settled")

\* "waiting for being added by listing to the /aggregateBondedAdded web socket"
\* (ITransactionService.ts:58): the wait begins after the REST answer, and misses an
\* aggregate the node has added by then.
AddedBondedSettles ==
    (stage["bonded"] = "waiting" /\ node["bonded"] = "added" /\ http["bonded"] # "seen")
        ~> (stage["bonded"] = "settled")
=============================================================================
