--------------------- MODULE TransactionAnnouncement_proofs ---------------------
(* Proofs, for any signers, of the safety properties of                     *)
(* TransactionAnnouncement and of its refinement of AnnouncementContract.   *)
EXTENDS TransactionAnnouncement, TLAPS

(* A transaction reaches the node with its REST call, which the client      *)
(* makes when it leaves idle, and observes streams only while it waits.     *)
Announced == /\ \A l \in Legs : http[l] \in {"idle", "sent"} => node[l] = "unknown"
             /\ \A l \in Legs : stage[l] = "idle" => http[l] = "idle"
             /\ \A l \in Legs : observing[l] # {} => stage[l] = "waiting"

(* Until its hash lock has been confirmed, the aggregate of the combined    *)
(* flow is not announced.                                                   *)
LockFirst == flow = "announceHashLockAggregateBonded" =>
                \/ outcome["plain"] = "transaction" /\ node["plain"] = "added"
                \/ stage["bonded"] = "idle"

(* A notification under way says what the node has decided.                 *)
Decision(m) == IF m.stream = "transaction" THEN "added" ELSE "rejected"
InboxIsTrue == \A i \in 1..Len(inbox) : node[inbox[i].leg] = Decision(inbox[i])

IInv == TypeOK /\ Announced /\ LockFirst /\ InboxIsTrue

-----------------------------------------------------------------------------
(* Facts about queues and about single actions.                             *)

LEMMA QueueTypes ==
    ASSUME NEW S, NEW q \in Seq(S)
    PROVE  /\ <<>> \in Seq(S)
           /\ \A e \in S : Append(q, e) \in Seq(S)
           /\ q # <<>> => Head(q) \in S /\ Tail(q) \in Seq(S)
OBVIOUS

LEMMA QueueElements ==
    ASSUME NEW S, NEW q \in Seq(S)
    PROVE  /\ \A i \in 1..Len(q) : q[i] \in S
           /\ q # <<>> => /\ 1 \in 1..Len(q) /\ Head(q) = q[1]
                         /\ \A i \in 1..Len(Tail(q)) : i + 1 \in 1..Len(q) /\ Tail(q)[i] = q[i + 1]
           /\ \A e \in S : \A i \in 1..Len(Append(q, e)) :
                Append(q, e)[i] = e \/ (i \in 1..Len(q) /\ Append(q, e)[i] = q[i])
OBVIOUS

LEMMA ChannelTypes == \A l \in Legs, s \in Streams : Channel(l, s) \in ChannelName
BY DEF Channel, ChannelName, Legs, Streams

LEMMA SendTypes ==
    ASSUME outbound \in Seq(ChannelName), NEW c \in ChannelName, Send(c)
    PROVE  outbound' \in Seq(ChannelName)
BY QueueTypes DEF Send

(* What a client learns from a notification it observes.                    *)
LEMMA HeadIsTrue ==
    ASSUME GatewayType, InboxIsTrue, inbox # <<>>
    PROVE  Head(inbox) \in Notification /\ node[Head(inbox).leg] = Decision(Head(inbox))
BY QueueTypes, QueueElements DEF GatewayType, InboxIsTrue

-----------------------------------------------------------------------------
LEMMA ClientTypeStep ==
    IInv /\ [Next]_vars => ClientType'
<1> SUFFICES ASSUME IInv, [Next]_vars PROVE ClientType'
  OBVIOUS
<1> USE DEF IInv, TypeOK, ClientType, Legs, Streams
<1>1. CASE Announce
  BY <1>1 DEF Announce
<1>2. CASE AnnounceAggregateBonded
  BY <1>2 DEF AnnounceAggregateBonded
<1>3. ASSUME NEW l \in Legs, Subscribe(l) PROVE ClientType'
  BY <1>3 DEF Subscribe, Merged
<1>4. CASE BondedAnswered
  BY <1>4 DEF BondedAnswered, RestFailed, Left
<1>5. CASE Receive
  <2> DEFINE l == Head(inbox).leg
             result == Head(inbox).stream
  <2>1. l \in Legs /\ result \in Streams
    <3>1. Head(inbox) \in Notification
      BY <1>5, HeadIsTrue DEF Receive
    <3> QED BY <3>1 DEF Notification
  <2>2. CASE result \notin observing[l]
    BY <1>5, <2>2 DEF Receive, client
  <2>3. CASE result \in observing[l] /\ ~GoesOn(l, result)
    BY <1>5, <2>1, <2>3 DEF Receive, Left
  <2>4. CASE result \in observing[l] /\ GoesOn(l, result)
    <3>1. l = "plain" /\ stage["plain"] = "waiting" /\ stage["bonded"] = "idle"
      BY <2>1, <2>4 DEF GoesOn, Announced, LockFirst
    <3>2. /\ outcome' = [outcome EXCEPT !["plain"] = result]
          /\ stage' = [plain |-> "settled", bonded |-> "waiting"]
          /\ observing' = [plain |-> Left(l), bonded |-> Merged("bonded")]
          /\ flow' = flow
      BY <1>5, <2>4, <3>1 DEF Receive
    <3>3. stage' = [x \in Legs |-> IF x = "plain" THEN "settled" ELSE "waiting"]
      BY <3>2
    <3>4. observing' = [x \in Legs |-> IF x = "plain" THEN {} ELSE {"statusError"}]
      BY <3>2 DEF Left, Merged
    <3> HIDE DEF l, result
    <3> QED BY <2>1, <3>1, <3>2, <3>3, <3>4
  <2> QED BY <2>2, <2>3, <2>4
<1>6. CASE UNCHANGED client
  BY <1>6 DEF client
<1> QED BY <1>1, <1>2, <1>3, <1>4, <1>5, <1>6
        DEF Next, RestAnswers, NodeDecides, GatewaySubscribes, Drop, vars, client

LEMMA RemoteTypeStep ==
    IInv /\ [Next]_vars => RemoteType'
<1> SUFFICES ASSUME IInv, [Next]_vars PROVE RemoteType'
  OBVIOUS
<1> USE DEF IInv, TypeOK, RemoteType, Legs
<1>1. CASE Announce
  BY <1>1 DEF Announce
<1>2. CASE AnnounceAggregateBonded
  BY <1>2 DEF AnnounceAggregateBonded
<1>3. CASE BondedAnswered
  BY <1>3 DEF BondedAnswered
<1>4. CASE Receive
  BY <1>4 DEF Receive
<1>5. ASSUME NEW l \in Legs, NEW a \in {"accepted", "refused"}, NEW taken \in BOOLEAN,
             RestAnswers(l, a, taken)
      PROVE  RemoteType'
  BY <1>5 DEF RestAnswers
<1>6. ASSUME NEW l \in Legs, NEW d \in {"added", "rejected"}, NodeDecides(l, d)
      PROVE  RemoteType'
  BY <1>6 DEF NodeDecides
<1>7. CASE UNCHANGED remote
  BY <1>7 DEF remote
<1> QED BY <1>1, <1>2, <1>3, <1>4, <1>5, <1>6, <1>7
        DEF Next, Subscribe, GatewaySubscribes, Drop, vars, remote

LEMMA GatewayTypeStep ==
    IInv /\ [Next]_vars => GatewayType'
<1> SUFFICES ASSUME IInv, [Next]_vars PROVE GatewayType'
  OBVIOUS
<1>t. GatewayType
  BY DEF IInv, TypeOK
<1> USE DEF GatewayType
<1>c. \A l \in Legs, s \in Streams : Send(Channel(l, s)) => outbound' \in Seq(ChannelName)
  BY <1>t, ChannelTypes, SendTypes
<1>l. "plain" \in Legs /\ "bonded" \in Legs /\ "transaction" \in Streams /\ "statusError" \in Streams
  BY DEF Legs, Streams
<1>1. CASE Announce
  BY <1>1, <1>t, <1>c, <1>l DEF Announce
<1>2. CASE AnnounceAggregateBonded
  BY <1>2, <1>t DEF AnnounceAggregateBonded, gateway
<1>3. ASSUME NEW l \in Legs, Subscribe(l) PROVE GatewayType'
  BY <1>3, <1>t, <1>c, <1>l DEF Subscribe
<1>4. CASE BondedAnswered
  BY <1>4, <1>t, <1>c, <1>l DEF BondedAnswered
<1>5. CASE Receive
  <2>1. inbox' \in Seq(Notification)
    BY <1>5, <1>t, QueueTypes DEF Receive
  <2>2. outbound' \in Seq(ChannelName)
    BY <1>5, <1>t, <1>c, <1>l DEF Receive
  <2> QED BY <1>5, <1>t, <2>1, <2>2 DEF Receive
<1>6. ASSUME NEW l \in Legs, NEW a \in {"accepted", "refused"}, NEW taken \in BOOLEAN,
             RestAnswers(l, a, taken)
      PROVE  GatewayType'
  BY <1>6, <1>t DEF RestAnswers, gateway
<1>7. ASSUME NEW l \in Legs, NEW d \in {"added", "rejected"}, NodeDecides(l, d)
      PROVE  GatewayType'
  <2>1. \A s \in Streams : [leg |-> l, stream |-> s] \in Notification
    BY DEF Notification
  <2>2. inbox' \in Seq(Notification)
    BY <1>7, <1>t, <1>l, <2>1, QueueTypes DEF NodeDecides
  <2> QED BY <1>7, <1>t, <2>2 DEF NodeDecides
<1>8. CASE GatewaySubscribes
  BY <1>8, <1>t, QueueTypes DEF GatewaySubscribes
<1>9. CASE Drop
  BY <1>9, <1>t, QueueTypes DEF Drop
<1>10. CASE UNCHANGED vars
  BY <1>10, <1>t DEF vars, gateway
<1> QED BY <1>1, <1>2, <1>3, <1>4, <1>5, <1>6, <1>7, <1>8, <1>9, <1>10 DEF Next

-----------------------------------------------------------------------------
LEMMA AnnouncedStep ==
    IInv /\ [Next]_vars => Announced'
<1> SUFFICES ASSUME IInv, [Next]_vars PROVE Announced'
  OBVIOUS
<1>t. ClientType /\ RemoteType /\ Announced /\ LockFirst /\ GatewayType /\ InboxIsTrue
  BY DEF IInv, TypeOK
<1> USE DEF ClientType, RemoteType, Announced, Legs, Streams
<1>1. CASE Announce
  BY <1>1, <1>t DEF Announce
<1>2. CASE AnnounceAggregateBonded
  BY <1>2, <1>t DEF AnnounceAggregateBonded
<1>3. ASSUME NEW l \in Legs, Subscribe(l) PROVE Announced'
  BY <1>3, <1>t DEF Subscribe, remote
<1>4. CASE BondedAnswered
  BY <1>4, <1>t DEF BondedAnswered, Left
<1>5. CASE Receive
  <2> DEFINE l == Head(inbox).leg
             result == Head(inbox).stream
  <2>1. l \in Legs
    <3>1. Head(inbox) \in Notification
      BY <1>5, <1>t, HeadIsTrue DEF Receive
    <3> QED BY <3>1 DEF Notification
  <2>2. CASE result \notin observing[l]
    BY <1>5, <1>t, <2>2 DEF Receive, client
  <2>3. CASE result \in observing[l] /\ ~GoesOn(l, result)
    BY <1>5, <1>t, <2>1, <2>3 DEF Receive, Left
  <2>4. CASE result \in observing[l] /\ GoesOn(l, result)
    <3>1. l = "plain" /\ stage["plain"] = "waiting" /\ stage["bonded"] = "idle" /\ http["bonded"] = "idle"
      BY <1>t, <2>1, <2>4 DEF GoesOn, LockFirst
    <3>2. /\ http' = [http EXCEPT !["bonded"] = "sent"]
          /\ stage'["bonded"] = "waiting" /\ stage'["plain"] = "settled"
          /\ observing'["plain"] = {}
          /\ node' = node
      BY <1>5, <2>4 DEF Receive, Left
    <3> HIDE DEF l, result
    <3> QED BY <1>t, <3>1, <3>2
  <2> QED BY <2>2, <2>3, <2>4
<1>6. ASSUME NEW l \in Legs, NEW a \in {"accepted", "refused"}, NEW taken \in BOOLEAN,
             RestAnswers(l, a, taken)
      PROVE  Announced'
  BY <1>6, <1>t DEF RestAnswers, client
<1>7. ASSUME NEW l \in Legs, NEW d \in {"added", "rejected"}, NodeDecides(l, d)
      PROVE  Announced'
  BY <1>7, <1>t DEF NodeDecides, client
<1>8. CASE UNCHANGED <<client, remote>>
  BY <1>8, <1>t DEF client, remote
<1> QED BY <1>1, <1>2, <1>3, <1>4, <1>5, <1>6, <1>7, <1>8
        DEF Next, GatewaySubscribes, Drop, vars

LEMMA LockFirstStep ==
    IInv /\ [Next]_vars => LockFirst'
<1> SUFFICES ASSUME IInv, [Next]_vars, flow' = "announceHashLockAggregateBonded" PROVE LockFirst'
  BY DEF LockFirst
<1>t. ClientType /\ RemoteType /\ Announced /\ LockFirst /\ GatewayType /\ InboxIsTrue
  BY DEF IInv, TypeOK
<1>f. flow' = flow
  BY DEF Next, Announce, AnnounceAggregateBonded, Subscribe, BondedAnswered, Receive,
         RestAnswers, NodeDecides, GatewaySubscribes, Drop, vars, client
<1> USE DEF ClientType, RemoteType, LockFirst, Legs, Streams
<1>1. CASE Announce
  BY <1>1, <1>t, <1>f DEF Announce
<1>2. CASE AnnounceAggregateBonded
  BY <1>2, <1>f DEF AnnounceAggregateBonded
<1>3. ASSUME NEW l \in Legs, Subscribe(l) PROVE LockFirst'
  BY <1>3, <1>t, <1>f DEF Subscribe, remote
<1>4. CASE BondedAnswered
  BY <1>4, <1>t, <1>f DEF BondedAnswered, RestFailed
<1>5. CASE Receive
  <2> DEFINE l == Head(inbox).leg
             result == Head(inbox).stream
  <2>1. l \in Legs /\ result \in Streams /\ (result = "transaction" => node[l] = "added")
    <3>1. Head(inbox) \in Notification /\ node[Head(inbox).leg] = Decision(Head(inbox))
      BY <1>5, <1>t, HeadIsTrue DEF Receive
    <3> QED BY <3>1 DEF Notification, Decision
  <2>2. CASE result \notin observing[l]
    BY <1>5, <1>t, <1>f, <2>2 DEF Receive, client
  <2>3. CASE result \in observing[l] /\ ~GoesOn(l, result)
    <3>1. stage[l] = "waiting" /\ outcome[l] = "none"
      BY <1>t, <2>1, <2>3 DEF Announced
    <3>2. /\ outcome' = [outcome EXCEPT ![l] = result]
          /\ stage' = [stage EXCEPT ![l] = "settled"]
          /\ http' = http /\ node' = node
      BY <1>5, <2>3 DEF Receive
    <3> HIDE DEF l, result
    <3> QED BY <1>t, <1>f, <2>1, <3>1, <3>2
  <2>4. CASE result \in observing[l] /\ GoesOn(l, result)
    <3>1. outcome' = [outcome EXCEPT !["plain"] = "transaction"] /\ node' = node
          /\ node["plain"] = "added"
      BY <1>5, <2>1, <2>4 DEF Receive, GoesOn
    <3> QED BY <1>t, <3>1
  <2> QED BY <2>2, <2>3, <2>4
<1>6. ASSUME NEW l \in Legs, NEW a \in {"accepted", "refused"}, NEW taken \in BOOLEAN,
             RestAnswers(l, a, taken)
      PROVE  LockFirst'
  BY <1>6, <1>t, <1>f DEF RestAnswers, client, Announced
<1>7. ASSUME NEW l \in Legs, NEW d \in {"added", "rejected"}, NodeDecides(l, d)
      PROVE  LockFirst'
  BY <1>7, <1>t, <1>f DEF NodeDecides, client
<1>8. CASE UNCHANGED <<client, remote>>
  BY <1>8, <1>t DEF client, remote
<1> QED BY <1>1, <1>2, <1>3, <1>4, <1>5, <1>6, <1>7, <1>8
        DEF Next, GatewaySubscribes, Drop, vars

LEMMA InboxIsTrueStep ==
    IInv /\ [Next]_vars => InboxIsTrue'
<1> SUFFICES ASSUME IInv, [Next]_vars PROVE InboxIsTrue'
  OBVIOUS
<1>t. ClientType /\ RemoteType /\ Announced /\ GatewayType /\ InboxIsTrue
  BY DEF IInv, TypeOK
<1>e. \A i \in 1..Len(inbox) : inbox[i] \in Notification
  BY <1>t, QueueElements DEF GatewayType
<1>d. \A i \in 1..Len(inbox) : node[inbox[i].leg] \in {"added", "rejected"}
  BY <1>t DEF InboxIsTrue, Decision
<1>1. CASE Receive
  BY <1>1, <1>t, QueueElements DEF Receive, GatewayType, InboxIsTrue, Decision
<1>2. ASSUME NEW l \in Legs, NEW a \in {"accepted", "refused"}, NEW taken \in BOOLEAN,
             RestAnswers(l, a, taken)
      PROVE  InboxIsTrue'
  <2>1. inbox' = inbox /\ \A k \in Legs : node[k] # "unknown" => node'[k] = node[k]
    BY <1>2, <1>t DEF RestAnswers, gateway, RemoteType, Announced
  <2>2. \A i \in 1..Len(inbox) : node'[inbox[i].leg] = node[inbox[i].leg]
    BY <1>e, <1>d, <2>1 DEF Notification
  <2> QED BY <1>t, <2>1, <2>2 DEF InboxIsTrue, Decision
<1>3. ASSUME NEW l \in Legs, NEW d \in {"added", "rejected"}, NodeDecides(l, d)
      PROVE  InboxIsTrue'
  <2> DEFINE s == IF d = "added" THEN "transaction" ELSE "statusError"
             n == [leg |-> l, stream |-> s]
  <2>1. /\ inbox' \in {inbox, Append(inbox, n)}
        /\ node' = [node EXCEPT ![l] = d]
        /\ node[l] = "held"
    BY <1>3 DEF NodeDecides
  <2>2. n \in Notification /\ node'[n.leg] = Decision(n)
    BY <1>3, <1>t, <2>1 DEF Notification, Streams, Decision, RemoteType
  <2>3. \A i \in 1..Len(inbox) : node'[inbox[i].leg] = node[inbox[i].leg]
    BY <1>t, <1>e, <1>d, <2>1 DEF Notification, RemoteType
  <2>4. \A i \in 1..Len(inbox') : inbox'[i] = n \/ (i \in 1..Len(inbox) /\ inbox'[i] = inbox[i])
    <3>1. inbox \in Seq(Notification)
      BY <1>t DEF GatewayType
    <3> HIDE DEF n
    <3>2. CASE inbox' = inbox
      BY <3>2
    <3>3. CASE inbox' = Append(inbox, n)
      BY <3>1, <3>3, <2>2, QueueElements
    <3> QED
      BY <2>1, <3>2, <3>3
  <2> HIDE DEF n
  <2> QED BY <1>t, <2>2, <2>3, <2>4 DEF InboxIsTrue, Decision
<1>4. CASE Drop
  BY <1>4 DEF Drop, InboxIsTrue
<1>5. CASE UNCHANGED <<node, inbox>>
  BY <1>5, <1>t DEF InboxIsTrue, Decision
<1> QED BY <1>1, <1>2, <1>3, <1>4, <1>5
        DEF Next, Announce, AnnounceAggregateBonded, Subscribe, BondedAnswered,
            GatewaySubscribes, vars, remote, gateway

-----------------------------------------------------------------------------
LEMMA InitIInv == Init => IInv
<1> SUFFICES ASSUME Init PROVE IInv
  OBVIOUS
<1>1. ClientType /\ RemoteType
  BY FlowsAssumption DEF Init, ClientType, RemoteType, Flows, Legs, Streams
<1>2. GatewayType
  BY DEF Init, GatewayType
<1>3. Announced /\ LockFirst /\ InboxIsTrue
  BY DEF Init, Announced, LockFirst, InboxIsTrue, Legs
<1> QED BY <1>1, <1>2, <1>3 DEF IInv, TypeOK

\* The inductive invariant: types, what has been announced, and what is on its way.
THEOREM Inductive == Spec => []IInv
<1>1. IInv /\ [Next]_vars => IInv'
  BY ClientTypeStep, RemoteTypeStep, GatewayTypeStep, AnnouncedStep, LockFirstStep,
     InboxIsTrueStep DEF IInv, TypeOK
<1> QED BY <1>1, InitIInv, PTL DEF Spec

\* Every variable keeps its type, and a leg has settled exactly when it has an outcome
\* (getTransactionOrRaiseError), for any signers and faults.
THEOREM AlwaysTyped == Spec => []TypeOK
<1>1. IInv => TypeOK
  BY DEF IInv
<1> QED BY <1>1, Inductive, PTL

-----------------------------------------------------------------------------
(* The refinement of AnnouncementContract.                                  *)
Fate == [l \in Legs |-> IF node[l] \in {"added", "rejected"} THEN node[l] ELSE "open"]

LEMMA InitImplements == Init => Contract!Init
BY FlowsAssumption DEF Init, Contract!Init, Contract!Flows, Contract!Legs, Flows, Legs

\* Only NodeDecides, BondedAnswered and Receive change what the contract speaks of.
LEMMA StepImplements ==
    IInv /\ [Next]_vars => [Contract!Next]_<<flow, Fate, outcome>>
<1> SUFFICES ASSUME IInv, [Next]_vars
             PROVE  Contract!Next \/ UNCHANGED <<flow, Fate, outcome>>
  BY DEF Contract!Next, Contract!Fail, Contract!Decide, Contract!Yield, Fate,
         Contract!Legs, Legs
<1>t. ClientType /\ RemoteType /\ Announced /\ LockFirst /\ GatewayType /\ InboxIsTrue
  BY DEF IInv, TypeOK
<1>n. node' = node => Fate' = Fate
  BY DEF Fate
<1>1. CASE UNCHANGED <<flow, node, outcome>>
  BY <1>1, <1>n
<1>2. CASE BondedAnswered
  <2>1. node' = node /\ flow' = flow
    BY <1>2 DEF BondedAnswered
  <2>2. CASE outcome' = RestFailed
    <3>1. outcome["bonded"] = "none"
      BY <1>t, <1>2 DEF BondedAnswered, ClientType, Legs
    <3>2. Contract!Fail
      BY <1>n, <2>1, <2>2, <3>1 DEF Contract!Fail, RestFailed, Fate
    <3> QED BY <3>2 DEF Contract!Next
  <2>3. CASE outcome' = outcome
    BY <2>1, <2>3, <1>n
  <2> QED BY <1>2, <2>2, <2>3 DEF BondedAnswered
<1>3. CASE Receive
  <2> DEFINE l == Head(inbox).leg
             result == Head(inbox).stream
  <2>1. /\ l \in Legs /\ result \in Streams
        /\ node[l] = IF result = "transaction" THEN "added" ELSE "rejected"
    <3>1. Head(inbox) \in Notification /\ node[Head(inbox).leg] = Decision(Head(inbox))
      BY <1>3, <1>t, HeadIsTrue DEF Receive
    <3> QED BY <3>1 DEF Notification, Decision
  <2>2. CASE result \notin observing[l]
    BY <1>3, <2>2, <1>1 DEF Receive, client
  <2>3. CASE result \in observing[l]
    <3>1. outcome' = [outcome EXCEPT ![l] = result] /\ node' = node /\ flow' = flow
      BY <1>3, <2>3 DEF Receive
    <3>2. outcome[l] = "none"
      BY <1>t, <2>1, <2>3 DEF Announced, ClientType
    <3>3. Fate[l] = node[l] /\ Fate' = Fate
      BY <1>n, <2>1, <3>1 DEF Fate
    <3>4. Contract!Yield(l)
      BY <2>1, <3>1, <3>2, <3>3 DEF Contract!Yield, Fate, Streams
    <3> QED BY <2>1, <3>4 DEF Contract!Next, Contract!Legs, Legs
  <2> QED BY <2>2, <2>3
<1>4. ASSUME NEW l \in Legs, NEW d \in {"added", "rejected"}, NodeDecides(l, d)
      PROVE  Contract!Next
  <2>1. /\ node[l] = "held" /\ node' = [node EXCEPT ![l] = d]
        /\ flow' = flow /\ outcome' = outcome
    BY <1>4 DEF NodeDecides, client
  <2>2. Fate[l] = "open" /\ Fate' = [Fate EXCEPT ![l] = d]
    BY <1>t, <1>4, <2>1 DEF Fate, RemoteType
  <2>3. l = "bonded" /\ flow = "announceHashLockAggregateBonded"
          => Fate["plain"] = "added" /\ outcome["plain"] = "transaction"
    BY <1>t, <2>1 DEF LockFirst, Announced, Fate, Legs
  <2>4. Contract!Decide(l)
    BY <2>1, <2>2, <2>3 DEF Contract!Decide, Fate
  <2> QED BY <2>4 DEF Contract!Next, Contract!Legs, Legs
<1>5. ASSUME NEW l \in Legs, NEW a \in {"accepted", "refused"}, NEW taken \in BOOLEAN,
             RestAnswers(l, a, taken)
      PROVE  UNCHANGED <<flow, Fate, outcome>>
  <2>1. node[l] = "unknown" /\ flow' = flow /\ outcome' = outcome
    BY <1>t, <1>5 DEF RestAnswers, Announced, client
  <2>2. node' = [node EXCEPT ![l] = IF taken THEN "held" ELSE "unknown"]
    BY <1>5, <2>1 DEF RestAnswers
  <2>3. Fate' = Fate
    BY <1>t, <2>1, <2>2 DEF Fate, RemoteType
  <2> QED BY <2>1, <2>3
<1> QED BY <1>1, <1>2, <1>3, <1>4, <1>5
        DEF Next, Announce, AnnounceAggregateBonded, Subscribe,
            GatewaySubscribes, Drop, vars, client, remote

\* The service implements AnnouncementContract: the client is given what the node
\* decided, and the aggregate of announceHashLockAggregateBonded has no fate before
\* its confirmed hash lock was given, under any order of answers and notifications.
THEOREM Implements == Spec => ImplementsContract
<1>1. Init => Contract!Init
  BY InitImplements
<1>2. IInv /\ [Next]_vars => [Contract!Next]_<<flow, Fate, outcome>>
  BY StepImplements
<1> QED BY <1>1, <1>2, Inductive, PTL DEF Spec, ImplementsContract, Contract!Spec, Fate
=============================================================================
