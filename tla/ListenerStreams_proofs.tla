-------------------------- MODULE ListenerStreams_proofs --------------------------
(* Proofs, for any accounts, transactions and streams and any number of      *)
(* reports, that the streams of a Listener miss nothing they can tell to be  *)
(* theirs and implement NotificationFeed.                                    *)
EXTENDS ListenerStreams, FiniteSetTheorems, WellFoundedInduction, TLAPS

(* ----------------------------------------------------------------------- *)
(* The messages of one report.                                             *)

LEMMA OrderIsASeq ==
    ASSUME NEW S, IsFiniteSet(S), NEW order \in SetToSeqs(S)
    PROVE  /\ Cardinality(S) \in Nat
           /\ order \in [1..Cardinality(S) -> S]
           /\ order \in Seq(S) /\ Len(order) = Cardinality(S)
           /\ \A i, j \in DOMAIN order : i # j => order[i] # order[j]
           /\ \A x \in S : \E i \in DOMAIN order : order[i] = x
<1>1. Cardinality(S) \in Nat /\ IsFiniteSet(1..Cardinality(S)) /\ Cardinality(1..Cardinality(S)) = Cardinality(S)
  BY FS_CardinalityType, FS_Interval
<1>2. /\ order \in [1..Cardinality(S) -> S]
      /\ \A i, j \in 1..Cardinality(S) : i # j => order[i] # order[j]
  BY DEF SetToSeqs
<1>3. order \in Injection(1..Cardinality(S), S)
  BY <1>2 DEF Injection, IsInjective
<1>4. order \in Surjection(1..Cardinality(S), S)
  BY <1>1, <1>3, FS_Injection
<1>5. \A x \in S : \E i \in 1..Cardinality(S) : order[i] = x
  BY <1>4 DEF Surjection
<1> QED
  BY <1>1, <1>2, <1>5

LEMMA ConcatAt ==
    ASSUME NEW S, NEW a \in Seq(S), NEW b \in Seq(S)
    PROVE  /\ a \o b \in Seq(S) /\ Len(a \o b) = Len(a) + Len(b)
           /\ \A i \in 1..Len(a) : i \in 1..Len(a \o b) /\ (a \o b)[i] = a[i]
           /\ \A i \in 1..Len(b) : Len(a) + i \in 1..Len(a \o b) /\ (a \o b)[Len(a) + i] = b[i]
<1>1. a \o b \in Seq(S) /\ Len(a \o b) = Len(a) + Len(b) /\ Len(a) \in Nat /\ Len(b) \in Nat
  OBVIOUS
<1>2. ASSUME NEW i \in 1..Len(a) PROVE i \in 1..Len(a \o b) /\ (a \o b)[i] = a[i]
  BY <1>1
<1>3. ASSUME NEW i \in 1..Len(b) PROVE Len(a) + i \in 1..Len(a \o b) /\ (a \o b)[Len(a) + i] = b[i]
  <2>1. Len(a) + i \in 1..(Len(a) + Len(b)) /\ Len(a) + i > Len(a) /\ (Len(a) + i) - Len(a) = i
    BY <1>1
  <2> QED
    BY <1>1, <2>1
<1> QED
  BY <1>1, <1>2, <1>3

Messages(c, t, order) ==
    [i \in DOMAIN order |-> [channel |-> c, address |-> order[i], transaction |-> t]]

LEMMA MessagesType ==
    ASSUME NEW c \in Channels, NEW t \in Transactions, NEW S \in SUBSET Addresses,
           NEW order \in SetToSeqs(S)
    PROVE  /\ Messages(c, t, order) \in Seq(Message)
           /\ Len(Messages(c, t, order)) = Len(order) /\ Len(order) \in Nat
           /\ \A i \in 1..Len(order) :
                Messages(c, t, order)[i] = [channel |-> c, address |-> order[i], transaction |-> t]
           /\ \A i, j \in 1..Len(order) : i # j => order[i] # order[j]
           /\ \A i \in 1..Len(order) : order[i] \in S
           /\ \A x \in S : \E i \in 1..Len(order) : order[i] = x
<1>1. IsFiniteSet(S)
  BY AddressesAssumption, FS_Subset
<1>2. /\ order \in Seq(S) /\ Len(order) \in Nat /\ DOMAIN order = 1..Len(order)
      /\ \A i \in 1..Len(order) : order[i] \in S
  BY <1>1, OrderIsASeq
<1>3. \A i \in 1..Len(order) :
         /\ Messages(c, t, order)[i] = [channel |-> c, address |-> order[i], transaction |-> t]
         /\ Messages(c, t, order)[i] \in Message
  BY <1>2 DEF Messages, Message
<1>4. Messages(c, t, order) \in [1..Len(order) -> Message]
  BY <1>2, <1>3 DEF Messages
<1>5. Messages(c, t, order) \in Seq(Message) /\ Len(Messages(c, t, order)) = Len(order)
  BY <1>2, <1>4
<1>6. /\ \A i, j \in 1..Len(order) : i # j => order[i] # order[j]
      /\ \A x \in S : \E i \in 1..Len(order) : order[i] = x
  BY <1>1, <1>2, OrderIsASeq
<1> QED
  BY <1>2, <1>3, <1>5, <1>6

(* ----------------------------------------------------------------------- *)
(* Types.  A stream subscribes only its account and the multisig accounts   *)
(* of it, and before it listens it has seen nothing.                        *)
Fresh == \A s \in Streams : phase[s] \in {"idle", "lookup"} =>
            /\ last[s] = None /\ latest[s] = None
            /\ \A t \in Transactions : due[s][t] = 0
            /\ \A n \in Notification : emitted[s][n] = 0

Asked == \A s \in Streams :
            /\ subscribers[s] \subseteq {s.owner} \union (IF s.multisig THEN MultisigOf[s.owner] ELSE {})
            /\ phase[s] = "lookup" => s.multisig

(* A message goes to an account its transaction involves, over a channel    *)
(* the account was subscribed on.                                           *)
Sent == \A i \in 1..Len(wire) : /\ wire[i].address \in Involved[wire[i].transaction]
                                /\ wire[i].address \in served[wire[i].channel]

(* What is due to a stream has its hash.                                    *)
DueMatches == \A s \in Streams, t \in Transactions : due[s][t] > 0 => MatchesHash(s, t)

TypeInv == TypeOK /\ Fresh /\ Asked /\ Sent /\ DueMatches

LEMMA StreamFacts ==
    ASSUME NEW s \in Streams
    PROVE  /\ s.channel \in Channels /\ s.owner \in Addresses /\ s.multisig \in BOOLEAN
           /\ MultisigOf[s.owner] \subseteq Addresses
BY StreamsAssumption, AddressesAssumption DEF Stream

LEMMA TypeInit == Init => TypeInv
<1> SUFFICES ASSUME Init PROVE TypeInv
  OBVIOUS
<1>1. TypeOK
  <2>1. phase \in [Streams -> {"idle", "lookup", "listening", "failed", "done"}]
    BY DEF Init
  <2>2. wire \in Seq(Message) /\ Len(wire) = 0
    BY DEF Init
  <2> QED
    BY <2>1, <2>2, StreamFacts DEF Init, TypeOK
<1>2. Fresh /\ Asked /\ Sent /\ DueMatches
  BY DEF Init, Fresh, Asked, Sent, DueMatches
<1> QED
  BY <1>1, <1>2 DEF TypeInv

(* A stream starts to listen.                                               *)
LEMMA ListenType ==
    ASSUME TypeInv, NEW s \in Streams, phase[s] \in {"idle", "lookup"},
           NEW addresses \in SUBSET Addresses,
           addresses \subseteq {s.owner} \union (IF s.multisig THEN MultisigOf[s.owner] ELSE {}),
           ListenFor(s, addresses), UNCHANGED <<wire, last, histories>>
    PROVE  TypeInv'
<1> USE DEF TypeInv, TypeOK, ListenFor, ServedFor, histories
<1>1. /\ phase' \in [Streams -> {"idle", "lookup", "listening", "failed", "done"}]
      /\ subscribers' \in [Streams -> SUBSET Addresses]
      /\ phase'[s] = "listening" /\ subscribers'[s] = addresses
      /\ \A r \in Streams \ {s} : phase'[r] = phase[r] /\ subscribers'[r] = subscribers[r]
  OBVIOUS
<1>2. /\ served' \in [Channels -> SUBSET Addresses]
      /\ served'[s.channel] = served[s.channel] \union addresses
      /\ \A c \in Channels : served[c] \subseteq served'[c]
  BY StreamFacts
<1>3. \A r \in Streams : subscribers'[r] \subseteq served'[r.channel]
  BY <1>1, <1>2, StreamFacts
<1>4. Fresh'
  BY <1>1 DEF Fresh
<1>5. Asked'
  BY <1>1 DEF Asked
<1>6. Sent'
  <2> SUFFICES ASSUME NEW i \in 1..Len(wire)
               PROVE  wire[i].address \in Involved[wire[i].transaction] /\ wire[i].address \in served'[wire[i].channel]
    BY DEF Sent
  <2>1. wire[i] \in Message
    OBVIOUS
  <2> QED
    BY <1>2, <2>1 DEF Sent, Message
<1>7. DueMatches'
  BY DEF DueMatches
<1> QED
  BY <1>1, <1>2, <1>3, <1>4, <1>5, <1>6, <1>7

LEMMA TypeStep == TypeInv /\ [Next]_vars => TypeInv'
<1> SUFFICES ASSUME TypeInv, [Next]_vars PROVE TypeInv'
  OBVIOUS
<1>1. ASSUME NEW s \in Streams, Ask(s) PROVE TypeInv'
  <2>1. CASE s.multisig
    <3>1. phase' = [phase EXCEPT ![s] = "lookup"] /\ UNCHANGED <<subscribers, served, wire, last, histories>>
      BY <1>1, <2>1 DEF Ask
    <3>2. /\ phase[s] = "idle"
          /\ phase' \in [Streams -> {"idle", "lookup", "listening", "failed", "done"}]
          /\ phase'[s] = "lookup" /\ \A r \in Streams \ {s} : phase'[r] = phase[r]
      BY <1>1, <3>1 DEF Ask, TypeInv, TypeOK
    <3>3. TypeOK'
      BY <3>1, <3>2 DEF TypeInv, TypeOK, histories
    <3>4. Fresh'
      BY <3>1, <3>2 DEF TypeInv, Fresh, histories
    <3>5. Asked'
      BY <2>1, <3>1, <3>2 DEF TypeInv, Asked
    <3> QED
      BY <3>1, <3>3, <3>4, <3>5 DEF TypeInv, Sent, DueMatches, histories
  <2>2. CASE ~s.multisig
    BY <1>1, <2>2, ListenType, StreamFacts DEF Ask
  <2> QED
    BY <2>1, <2>2
<1>2. ASSUME NEW s \in Streams, NEW ok \in BOOLEAN, Answered(s, ok) PROVE TypeInv'
  <2>1. s.multisig
    BY <1>2 DEF Answered, TypeInv, Asked
  <2> QED
    BY <1>2, <2>1, ListenType, StreamFacts DEF Answered
<1>3. ASSUME NEW s \in Streams, Unresolved(s) PROVE TypeInv'
  BY <1>3 DEF Unresolved, TypeInv, TypeOK, Fresh, Asked, Sent, DueMatches, histories
<1>4. ASSUME NEW s \in Streams, Unsubscribe(s) PROVE TypeInv'
  BY <1>4 DEF Unsubscribe, TypeInv, TypeOK, Fresh, Asked, Sent, DueMatches, histories
<1>5. ASSUME NEW c \in Channels, NEW t \in Transactions, Report(c, t) PROVE TypeInv'
  <2> DEFINE S == Involved[t] \intersect served[c]
  <2>1. S \in SUBSET Addresses
    BY AddressesAssumption
  <2>2. PICK order \in SetToSeqs(S) : wire' = wire \o Messages(c, t, order)
    BY <1>5 DEF Report, Messages
  <2> DEFINE msgs == Messages(c, t, order)
             n == Len(order)
  <2>3. /\ msgs \in Seq(Message) /\ Len(msgs) = n /\ n \in Nat
        /\ \A i \in 1..n : msgs[i] = [channel |-> c, address |-> order[i], transaction |-> t] /\ order[i] \in S
    BY <2>1, MessagesType
  <2> HIDE DEF msgs, S, n
  <2>4. wire \in Seq(Message) /\ wire' = wire \o msgs
    BY <2>2 DEF msgs, TypeInv, TypeOK
  <2>5. /\ wire' \in Seq(Message) /\ Len(wire') = Len(wire) + n
        /\ \A i \in 1..Len(wire') : IF i <= Len(wire) THEN wire'[i] = wire[i] ELSE
              i - Len(wire) \in 1..n /\ wire'[i] = msgs[i - Len(wire)]
    BY <2>3, <2>4
  <2>6. UNCHANGED <<phase, subscribers, served, last, emitted>>
    BY <1>5 DEF Report
  <2>7. Sent'
    <3> SUFFICES ASSUME NEW i \in 1..Len(wire')
                 PROVE  /\ wire'[i].address \in Involved[wire'[i].transaction]
                        /\ wire'[i].address \in served[wire'[i].channel]
      BY <2>6 DEF Sent
    <3>1. CASE i <= Len(wire)
      BY <3>1, <2>3, <2>4, <2>5 DEF TypeInv, Sent
    <3>2. CASE i > Len(wire)
      <4>1. i - Len(wire) \in 1..n /\ wire'[i] = msgs[i - Len(wire)]
        BY <3>2, <2>3, <2>4, <2>5
      <4>2. /\ wire'[i] = [channel |-> c, address |-> order[i - Len(wire)], transaction |-> t]
            /\ order[i - Len(wire)] \in S
        BY <4>1, <2>3
      <4> QED
        BY <4>2 DEF S
    <3> QED
      BY <3>1, <3>2, <2>4, <2>5
  <2>8. /\ reported' \in [Notification -> Nat]
        /\ due' \in [Streams -> [Transactions -> Nat]]
        /\ latest' \in [Streams -> Transactions \union {None}]
        /\ repeated' \in [Streams -> [Transactions -> Nat]]
    BY <1>5 DEF Report, OneMore, Notification, TypeInv, TypeOK
  <2>d. DueMatches'
    <3> SUFFICES ASSUME NEW s \in Streams, NEW u \in Transactions, due'[s][u] > 0
                 PROVE  MatchesHash(s, u)
      BY DEF DueMatches, MatchesHash
    <3>1. due[s] \in [Transactions -> Nat]
      BY DEF TypeInv, TypeOK
    <3>2. due'[s] = due[s] \/ (SentTo(s, c, t) /\ due'[s] = [due[s] EXCEPT ![t] = @ + 1])
      BY <1>5 DEF Report, OneMore
    <3> QED
      BY <3>1, <3>2 DEF TypeInv, DueMatches, SentTo
  <2>s. \A s \in Streams : phase[s] # "listening" => due'[s] = due[s] /\ latest'[s] = latest[s]
    BY <1>5 DEF Report, SentTo, IsLatestOf
  <2>9. TypeOK'
    BY <2>5, <2>6, <2>8 DEF TypeInv, TypeOK
  <2>10. Fresh' /\ Asked'
    BY <2>6, <2>s DEF TypeInv, Fresh, Asked
  <2> QED
    BY <2>7, <2>d, <2>9, <2>10 DEF TypeInv
<1>6. CASE Receive
  <2> DEFINE m == Head(wire)
  <2>1. /\ m \in Message /\ wire' \in Seq(Message) /\ Len(wire') = Len(wire) - 1
        /\ \A i \in 1..Len(wire') : wire'[i] = wire[i + 1]
    BY <1>6 DEF Receive, TypeInv, TypeOK
  <2>2. /\ last' = [s \in Streams |-> IF phase[s] = "listening" /\ DropsRepetitions(s) /\ Distinct(s, m)
                                     THEN m.transaction ELSE last[s]]
        /\ emitted' = [s \in Streams |-> IF Emits(s, m)
                                        THEN [emitted[s] EXCEPT ![<<m.channel, m.transaction>>] = @ + 1]
                                        ELSE emitted[s]]
        /\ UNCHANGED <<phase, subscribers, served, reported, due, latest, repeated>>
    BY <1>6 DEF Receive
  <2> HIDE DEF m
  <2>3. <<m.channel, m.transaction>> \in Notification /\ m.transaction \in Transactions
    BY <2>1 DEF Message, Notification
  <2>4. last' \in [Streams -> Transactions \union {None}]
    BY <2>2, <2>3 DEF TypeInv, TypeOK
  <2>5. emitted' \in [Streams -> [Notification -> Nat]]
    <3> SUFFICES ASSUME NEW s \in Streams PROVE emitted'[s] \in [Notification -> Nat]
      BY <2>2
    <3>1. emitted[s] \in [Notification -> Nat]
      BY DEF TypeInv, TypeOK
    <3> QED
      BY <3>1, <2>2, <2>3
  <2>6. TypeOK'
    BY <2>1, <2>2, <2>4, <2>5 DEF TypeInv, TypeOK
  <2>7. Fresh'
    BY <2>2 DEF TypeInv, Fresh, Emits
  <2>8. Sent'
    <3> SUFFICES ASSUME NEW i \in 1..Len(wire')
                 PROVE  /\ wire'[i].address \in Involved[wire'[i].transaction]
                        /\ wire'[i].address \in served[wire'[i].channel]
      BY <2>2 DEF Sent
    <3>1. i + 1 \in 1..Len(wire)
      BY <2>1 DEF TypeInv, TypeOK
    <3> QED
      BY <3>1, <2>1 DEF TypeInv, Sent
  <2> QED
    BY <2>2, <2>6, <2>7, <2>8 DEF TypeInv, Asked, DueMatches
<1>7. CASE UNCHANGED vars
  BY <1>7 DEF vars, histories, TypeInv, TypeOK, Fresh, Asked, Sent, DueMatches
<1> QED
  BY <1>1, <1>2, <1>3, <1>4, <1>5, <1>6, <1>7 DEF Next

\* TypeOK, for any streams, accounts and reports: what a stream subscribed is served on its
\* channel, and all variables keep their types.
THEOREM TypeCorrect == Spec => []TypeOK
<1>1. TypeInv => TypeOK
  BY DEF TypeInv
<1> QED
  BY <1>1, TypeInit, TypeStep, PTL DEF Spec

(* ----------------------------------------------------------------------- *)
(* Nothing a stream can tell to be its own is missed.                       *)

LEMMA LeastOf ==
    ASSUME NEW T, T \subseteq Nat, T # {}
    PROVE  \E x \in T : \A y \in T : x <= y
<1> DEFINE R == OpToRel(<, Nat)
<1>1. \A a, b \in Nat : a < b => <<a, b>> \in R
  BY DEF OpToRel
<1>2. IsWellFoundedOn(R, Nat)
  BY NatLessThanWellFounded
<1> HIDE DEF R
<1>3. PICK x \in T : \A y \in T : ~ (<<y, x>> \in R)
  BY <1>2, WFMin
<1>4. ASSUME NEW y \in T PROVE x <= y
  <2>1. x \in Nat /\ y \in Nat
    OBVIOUS
  <2>2. ~(y < x)
    BY <1>1, <1>3, <2>1
  <2> QED
    BY <2>1, <2>2
<1> QED
  BY <1>4

(* What a stream has before it: the messages to come, what it subscribed    *)
(* and what its distinctUntilChanged compares with.                         *)
View(s) == [wire |-> wire, subscribed |-> subscribers[s], last |-> last[s]]

WantedBy(s, v, m) ==
    /\ MatchesHash(s, m.transaction)
    /\ IF s.channel = "added"
       THEN m.address \in v.subscribed \/ s.owner \in Recognised[m.transaction]
       ELSE m.address \in v.subscribed

(* What goes into the stream's distinctUntilChanged, and whether x is the   *)
(* element before position i.                                               *)
Passes(s, v, m) == OnChannel(s, m) /\ (FiltersFirst(s) => WantedBy(s, v, m))
AllOf(s, v, k, i, x) == \A j \in k..i : Passes(s, v, v.wire[j]) => v.wire[j].transaction = x
Follows(s, v, i, x) ==
    \/ v.last = x /\ AllOf(s, v, 1, i - 1, x)
    \/ \E k \in 1..(i - 1) : Passes(s, v, v.wire[k]) /\ AllOf(s, v, k, i - 1, x)

(* The message at position i will make the stream emit t; left counts such  *)
(* positions from each one on, and may count less.                          *)
WillEmit(s, v, t, i) ==
    /\ OnChannel(s, v.wire[i]) /\ WantedBy(s, v, v.wire[i]) /\ v.wire[i].transaction = t
    /\ DropsRepetitions(s) => ~Follows(s, v, i, t)
Left(s, v, t, left) ==
    /\ left \in [1..(Len(v.wire) + 1) -> Nat] /\ left[Len(v.wire) + 1] = 0
    /\ \A i \in 1..Len(v.wire) :
         left[i] <= left[i + 1] \/ (WillEmit(s, v, t, i) /\ left[i] = left[i + 1] + 1)

LEMMA WantedIsBy ==
    ASSUME NEW s \in Streams, NEW m
    PROVE  Wanted(s, m) <=> WantedBy(s, View(s), m)
BY DEF Wanted, ForAccount, WantedBy, View

(* There is one element before a position.                                  *)
LEMMA OneFollows ==
    ASSUME NEW s, NEW v, NEW i \in Nat \ {0}, NEW x, NEW y, Follows(s, v, i, x), Follows(s, v, i, y)
    PROVE  x = y
<1> USE DEF Follows, AllOf
<1>1. CASE v.last = x /\ AllOf(s, v, 1, i - 1, x)
  <2>1. CASE v.last = y
    BY <1>1, <2>1
  <2>2. ASSUME NEW k \in 1..(i - 1), Passes(s, v, v.wire[k]), AllOf(s, v, k, i - 1, y) PROVE x = y
    <3>1. k \in 1..(i - 1) /\ k \in k..(i - 1)
      OBVIOUS
    <3> QED
      BY <1>1, <2>2, <3>1
  <2> QED
    BY <2>1, <2>2
<1>2. ASSUME NEW k \in 1..(i - 1), Passes(s, v, v.wire[k]), AllOf(s, v, k, i - 1, x) PROVE x = y
  <2>1. CASE v.last = y /\ AllOf(s, v, 1, i - 1, y)
    <3>1. k \in 1..(i - 1) /\ k \in k..(i - 1)
      OBVIOUS
    <3> QED
      BY <1>2, <2>1, <3>1
  <2>2. ASSUME NEW l \in 1..(i - 1), Passes(s, v, v.wire[l]), AllOf(s, v, l, i - 1, y) PROVE x = y
    <3>1. k <= l => l \in k..(i - 1) /\ l \in l..(i - 1)
      OBVIOUS
    <3>2. l <= k => k \in k..(i - 1) /\ k \in l..(i - 1)
      OBVIOUS
    <3>3. k <= l \/ l <= k
      OBVIOUS
    <3> QED
      BY <1>2, <2>2, <3>1, <3>2, <3>3
  <2> QED
    BY <2>1, <2>2
<1> QED
  BY <1>1, <1>2

(* Nothing more may be counted on than what is there ...                    *)
LEMMA NoneLeft ==
    ASSUME NEW s, NEW v, NEW t, Len(v.wire) \in Nat
    PROVE  \E left : Left(s, v, t, left) /\ left[1] = 0
<1> DEFINE n == Len(v.wire)
           left == [i \in 1..(n + 1) |-> 0]
<1>1. n + 1 \in 1..(n + 1) /\ 1 \in 1..(n + 1)
      /\ \A i \in 1..n : i \in 1..(n + 1) /\ i + 1 \in 1..(n + 1)
  OBVIOUS
<1>2. left \in [1..(n + 1) -> Nat] /\ left[1] = 0 /\ left[n + 1] = 0
      /\ \A i \in 1..n : left[i] <= left[i + 1]
  BY <1>1
<1> HIDE DEF left
<1>3. Left(s, v, t, left)
  BY <1>2 DEF Left
<1> QED
  BY <1>2, <1>3

(* ... and on one more with a message that will make the stream emit.       *)
LEMMA OneLeft ==
    ASSUME NEW s, NEW v, NEW t, Len(v.wire) \in Nat, NEW p \in 1..Len(v.wire), WillEmit(s, v, t, p)
    PROVE  \E left : Left(s, v, t, left) /\ left[1] = 1
<1> DEFINE n == Len(v.wire)
           left == [i \in 1..(n + 1) |-> IF i <= p THEN 1 ELSE 0]
<1>1. n + 1 \in 1..(n + 1) /\ 1 \in 1..(n + 1)
      /\ \A i \in 1..n : i \in 1..(n + 1) /\ i + 1 \in 1..(n + 1)
  OBVIOUS
<1>2. left \in [1..(n + 1) -> Nat] /\ left[1] = 1 /\ left[n + 1] = 0
      /\ \A i \in 1..n : left[i] <= left[i + 1] \/ (i = p /\ left[i] = left[i + 1] + 1)
  BY <1>1
<1> HIDE DEF left
<1>3. Left(s, v, t, left)
  BY <1>2 DEF Left
<1> QED
  BY <1>2, <1>3

(* ----------------------------------------------------------------------- *)
(* Messages come after those on the wire.                                   *)
Longer(v, w) ==
    /\ w.subscribed = v.subscribed /\ w.last = v.last
    /\ Len(v.wire) \in Nat /\ Len(w.wire) \in Nat /\ Len(v.wire) <= Len(w.wire)
    /\ \A i \in 1..Len(v.wire) : w.wire[i] = v.wire[i]

LEMMA PassesAlike ==
    ASSUME NEW s, NEW v, NEW w, w.subscribed = v.subscribed, NEW m
    PROVE  (WantedBy(s, w, m) <=> WantedBy(s, v, m)) /\ (Passes(s, w, m) <=> Passes(s, v, m))
BY DEF Passes, WantedBy

LEMMA FollowsBefore ==
    ASSUME NEW s, NEW v, NEW w, Longer(v, w), NEW i \in 1..(Len(v.wire) + 1), NEW x
    PROVE  Follows(s, w, i, x) <=> Follows(s, v, i, x)
<1>1. \A j \in 1..(i - 1) : w.wire[j] = v.wire[j] /\ (Passes(s, w, w.wire[j]) <=> Passes(s, v, v.wire[j]))
  BY PassesAlike DEF Longer
<1>2. i \in Nat /\ 1 <= i
  BY DEF Longer
<1>3. \A k \in 1..i : AllOf(s, w, k, i - 1, x) <=> AllOf(s, v, k, i - 1, x)
  <2> SUFFICES ASSUME NEW k \in 1..i PROVE AllOf(s, w, k, i - 1, x) <=> AllOf(s, v, k, i - 1, x)
    OBVIOUS
  <2>1. \A j \in k..(i - 1) : j \in 1..(i - 1)
    BY <1>2
  <2> QED
    BY <1>1, <2>1 DEF AllOf
<1>4. 1 \in 1..i /\ \A k \in 1..(i - 1) : k \in 1..i
  BY <1>2
<1>5. w.last = v.last
  BY DEF Longer
<1> QED
  BY <1>1, <1>3, <1>4, <1>5 DEF Follows

LEMMA EmitsBefore ==
    ASSUME NEW s, NEW v, NEW w, Longer(v, w), NEW i \in 1..Len(v.wire), NEW t, WillEmit(s, v, t, i)
    PROVE  WillEmit(s, w, t, i)
<1>1. i \in 1..(Len(v.wire) + 1) /\ w.wire[i] = v.wire[i]
  BY DEF Longer
<1>2. Follows(s, w, i, t) <=> Follows(s, v, i, t)
  BY <1>1, FollowsBefore
<1>3. WantedBy(s, w, v.wire[i]) <=> WantedBy(s, v, v.wire[i])
  BY PassesAlike DEF Longer
<1> QED
  BY <1>1, <1>2, <1>3 DEF WillEmit

(* What can be counted on stays so, ...                                     *)
LEMMA LeftStays ==
    ASSUME NEW s, NEW v, NEW w, Longer(v, w), NEW t, NEW left, Left(s, v, t, left)
    PROVE  \E new : Left(s, w, t, new) /\ new[1] = left[1]
<1> DEFINE n == Len(v.wire)
           q == Len(w.wire)
           new == [i \in 1..(q + 1) |-> IF i <= n + 1 THEN left[i] ELSE 0]
<1>1. n \in Nat /\ q \in Nat /\ n <= q
  BY DEF Longer
<1>2. left \in [1..(n + 1) -> Nat] /\ left[n + 1] = 0
  BY DEF Left
<1>3. 1 \in 1..(q + 1) /\ 1 <= n + 1 /\ q + 1 \in 1..(q + 1)
      /\ \A i \in 1..q : i \in 1..(q + 1) /\ i + 1 \in 1..(q + 1)
  BY <1>1
<1>4. \A i \in 1..(q + 1) : new[i] = (IF i <= n + 1 THEN left[i] ELSE 0) /\ new[i] \in Nat
  BY <1>1, <1>2
<1>5. new \in [1..(q + 1) -> Nat]
  BY <1>4
<1> HIDE DEF new
<1>6. new[1] = left[1] /\ new[q + 1] = 0
  BY <1>1, <1>2, <1>3, <1>4
<1>7. ASSUME NEW i \in 1..q
      PROVE  new[i] <= new[i + 1] \/ (WillEmit(s, w, t, i) /\ new[i] = new[i + 1] + 1)
  <2>1. CASE i \in 1..n
    <3>1. left[i] <= left[i + 1] \/ (WillEmit(s, v, t, i) /\ left[i] = left[i + 1] + 1)
      BY <2>1 DEF Left
    <3>2. new[i] = left[i] /\ new[i + 1] = left[i + 1]
      BY <1>1, <1>3, <1>4, <2>1
    <3> QED
      BY <2>1, <3>1, <3>2, EmitsBefore
  <2>2. CASE i \notin 1..n
    <3>1. new[i] = 0 /\ new[i + 1] = 0
      BY <1>1, <1>2, <1>3, <1>4, <2>2
    <3> QED
      BY <3>1
  <2> QED
    BY <2>1, <2>2
<1>8. Left(s, w, t, new)
  BY <1>5, <1>6, <1>7 DEF Left
<1> QED
  BY <1>6, <1>8

(* ... and there is one more with a new message that will make it emit.     *)
LEMMA LeftGrows ==
    ASSUME NEW s, NEW v, NEW w, Longer(v, w), NEW t, NEW left, Left(s, v, t, left),
           NEW p \in (Len(v.wire) + 1)..Len(w.wire), WillEmit(s, w, t, p)
    PROVE  \E new : Left(s, w, t, new) /\ new[1] = left[1] + 1
<1> DEFINE n == Len(v.wire)
           q == Len(w.wire)
           new == [i \in 1..(q + 1) |-> IF i <= n + 1 THEN left[i] + 1 ELSE IF i <= p THEN 1 ELSE 0]
<1>1. n \in Nat /\ q \in Nat /\ n <= q /\ p \in Nat /\ n + 1 <= p /\ p <= q
  BY DEF Longer
<1>2. left \in [1..(n + 1) -> Nat] /\ left[n + 1] = 0
  BY DEF Left
<1>3. 1 \in 1..(q + 1) /\ 1 <= n + 1 /\ q + 1 \in 1..(q + 1)
      /\ \A i \in 1..q : i \in 1..(q + 1) /\ i + 1 \in 1..(q + 1)
  BY <1>1
<1>4. \A i \in 1..(q + 1) : new[i] = IF i <= n + 1 THEN left[i] + 1 ELSE IF i <= p THEN 1 ELSE 0
  OBVIOUS
<1>l. \A i \in 1..(q + 1) : i <= n + 1 => left[i] \in Nat
  BY <1>1, <1>2
<1>5. new \in [1..(q + 1) -> Nat]
  BY <1>l
<1> HIDE DEF new
<1>6. new[1] = left[1] + 1 /\ new[q + 1] = 0
  BY <1>1, <1>2, <1>3, <1>4
<1>7. ASSUME NEW i \in 1..q
      PROVE  new[i] <= new[i + 1] \/ (WillEmit(s, w, t, i) /\ new[i] = new[i + 1] + 1)
  <2>1. CASE i \in 1..n
    <3>1. left[i] <= left[i + 1] \/ (WillEmit(s, v, t, i) /\ left[i] = left[i + 1] + 1)
      BY <2>1 DEF Left
    <3>2. new[i] = left[i] + 1 /\ new[i + 1] = left[i + 1] + 1 /\ left[i] \in Nat /\ left[i + 1] \in Nat
      <4>1. i <= n + 1 /\ i + 1 <= n + 1 /\ i \in 1..(q + 1) /\ i + 1 \in 1..(q + 1)
        BY <1>1, <2>1
      <4> QED
        BY <1>4, <1>l, <4>1
    <3> QED
      BY <2>1, <3>1, <3>2, EmitsBefore
  <2>2. CASE i \notin 1..n
    <3>1. i >= n + 1 /\ (i = n + 1 => left[i] = 0)
      BY <1>1, <1>2, <2>2
    <3>2. new[i] = (IF i <= p THEN 1 ELSE 0) /\ new[i + 1] = (IF i + 1 <= p THEN 1 ELSE 0)
      BY <1>1, <1>3, <1>4, <3>1
    <3>3. i = p \/ new[i] <= new[i + 1]
      BY <1>1, <3>2
    <3> QED
      BY <1>1, <3>2, <3>3
  <2> QED
    BY <2>1, <2>2
<1>8. Left(s, w, t, new)
  BY <1>5, <1>6, <1>7 DEF Left
<1> QED
  BY <1>6, <1>8

(* The element before the new messages is the one after them when none of   *)
(* them goes in, and otherwise what they are all of.                        *)
LEMMA FollowsOver ==
    ASSUME NEW s, NEW v, NEW w, Longer(v, w), NEW x, Follows(s, v, Len(v.wire) + 1, x),
           NEW p \in (Len(v.wire) + 1)..(Len(w.wire) + 1),
           \A i \in (Len(v.wire) + 1)..(p - 1) : ~Passes(s, w, w.wire[i])
    PROVE  Follows(s, w, p, x)
<1> DEFINE n == Len(v.wire)
<1>1. n \in Nat /\ p \in Nat /\ n + 1 <= p /\ (n + 1) - 1 = n /\ n + 1 \in 1..(n + 1)
  BY DEF Longer
<1>2. Follows(s, w, n + 1, x)
  BY <1>1, FollowsBefore
<1>3. ASSUME NEW k \in 1..(n + 1), AllOf(s, w, k, n, x) PROVE AllOf(s, w, k, p - 1, x)
  <2>1. \A j \in k..(p - 1) : j \in k..n \/ j \in (n + 1)..(p - 1)
    BY <1>1
  <2> QED
    BY <1>3, <2>1 DEF AllOf
<1>4. CASE w.last = x /\ AllOf(s, w, 1, n, x)
  BY <1>1, <1>3, <1>4 DEF Follows
<1>5. ASSUME NEW k \in 1..n, Passes(s, w, w.wire[k]), AllOf(s, w, k, n, x) PROVE Follows(s, w, p, x)
  <2>1. k \in 1..(n + 1) /\ k \in 1..(p - 1)
    BY <1>1
  <2> QED
    BY <1>3, <1>5, <2>1 DEF Follows
<1> QED
  BY <1>1, <1>2, <1>4, <1>5 DEF Follows

LEMMA FollowsBack ==
    ASSUME NEW s, NEW v, NEW w, Longer(v, w), NEW x,
           NEW p \in (Len(v.wire) + 1)..(Len(w.wire) + 1),
           \A i \in (Len(v.wire) + 1)..(p - 1) : ~Passes(s, w, w.wire[i]),
           Follows(s, w, p, x)
    PROVE  Follows(s, v, Len(v.wire) + 1, x)
<1> DEFINE n == Len(v.wire)
<1>1. n \in Nat /\ p \in Nat /\ n + 1 <= p /\ (n + 1) - 1 = n /\ n + 1 \in 1..(n + 1)
  BY DEF Longer
<1>2. ASSUME NEW k \in 1..(n + 1), AllOf(s, w, k, p - 1, x) PROVE AllOf(s, w, k, n, x)
  <2>1. \A j \in k..n : j \in k..(p - 1)
    BY <1>1
  <2> QED
    BY <1>2, <2>1 DEF AllOf
<1>3. Follows(s, w, n + 1, x)
  <2>1. CASE w.last = x /\ AllOf(s, w, 1, p - 1, x)
    <3>1. AllOf(s, w, 1, n, x)
      BY <1>1, <1>2, <2>1
    <3> QED
      BY <1>1, <2>1, <3>1 DEF Follows
  <2>2. ASSUME NEW k \in 1..(p - 1), Passes(s, w, w.wire[k]), AllOf(s, w, k, p - 1, x)
        PROVE  Follows(s, w, n + 1, x)
    <3>1. k \in 1..n
      BY <1>1, <2>2
    <3>2. AllOf(s, w, k, n, x)
      BY <1>1, <1>2, <2>2, <3>1
    <3> QED
      BY <1>1, <2>2, <3>1, <3>2 DEF Follows
  <2> QED
    BY <2>1, <2>2 DEF Follows
<1> QED
  BY <1>1, <1>3, FollowsBefore

LEMMA FollowsNew ==
    ASSUME NEW s, NEW v, NEW w, Longer(v, w), NEW x,
           \A i \in (Len(v.wire) + 1)..Len(w.wire) : w.wire[i].transaction = x,
           NEW p \in (Len(v.wire) + 1)..Len(w.wire), Passes(s, w, w.wire[p])
    PROVE  Follows(s, w, Len(w.wire) + 1, x)
<1> DEFINE n == Len(v.wire)
           q == Len(w.wire)
<1>1. n \in Nat /\ q \in Nat /\ (q + 1) - 1 = q /\ p \in 1..q
      /\ \A j \in p..q : j \in (n + 1)..q
  BY DEF Longer
<1>2. AllOf(s, w, p, q, x)
  BY <1>1 DEF AllOf
<1> QED
  BY <1>1, <1>2 DEF Follows

(* ----------------------------------------------------------------------- *)
(* A message is received: position i + 1 is position i now.                 *)
Shorter(s, v, w) ==
    /\ w.subscribed = v.subscribed
    /\ w.last = IF Passes(s, v, v.wire[1]) THEN v.wire[1].transaction ELSE v.last
    /\ Len(v.wire) \in Nat \ {0} /\ Len(w.wire) = Len(v.wire) - 1
    /\ \A i \in 1..Len(w.wire) : w.wire[i] = v.wire[i + 1]

LEMMA FollowsShifts ==
    ASSUME NEW s, NEW v, NEW w, Shorter(s, v, w), NEW i \in 1..Len(v.wire), NEW x
    PROVE  Follows(s, w, i, x) <=> Follows(s, v, i + 1, x)
<1>1. \A m : Passes(s, w, m) <=> Passes(s, v, m)
  BY PassesAlike DEF Shorter
<1>2. w.last = IF Passes(s, v, v.wire[1]) THEN v.wire[1].transaction ELSE v.last
  BY DEF Shorter
<1>3. i \in Nat /\ 1 \in 1..i /\ (i + 1) - 1 = i /\ 1 + 1 = 2
      /\ \A k \in 1..(i - 1) : w.wire[k] = v.wire[k + 1]
  BY DEF Shorter
<1>4. \A k \in 1..i : AllOf(s, w, k, i - 1, x) <=> AllOf(s, v, k + 1, i, x)
  <2> SUFFICES ASSUME NEW k \in 1..i PROVE AllOf(s, w, k, i - 1, x) <=> AllOf(s, v, k + 1, i, x)
    OBVIOUS
  <2>1. ASSUME AllOf(s, w, k, i - 1, x), NEW j \in (k + 1)..i, Passes(s, v, v.wire[j])
        PROVE  v.wire[j].transaction = x
    <3>1. j - 1 \in k..(i - 1) /\ j - 1 \in 1..(i - 1) /\ (j - 1) + 1 = j
      BY <1>3
    <3>2. w.wire[j - 1] = v.wire[j]
      BY <1>3, <3>1
    <3> QED
      BY <1>1, <2>1, <3>1, <3>2 DEF AllOf
  <2>2. ASSUME AllOf(s, v, k + 1, i, x), NEW j \in k..(i - 1), Passes(s, w, w.wire[j])
        PROVE  w.wire[j].transaction = x
    <3>1. j + 1 \in (k + 1)..i /\ j \in 1..(i - 1)
      BY <1>3
    <3>2. w.wire[j] = v.wire[j + 1]
      BY <1>3, <3>1
    <3> QED
      BY <1>1, <2>2, <3>1, <3>2 DEF AllOf
  <2> QED
    BY <2>1, <2>2 DEF AllOf
<1>5. AllOf(s, v, 1, i, x) <=> AllOf(s, v, 2, i, x) /\ (Passes(s, v, v.wire[1]) => v.wire[1].transaction = x)
  <2>1. \A j \in 1..i : j = 1 \/ j \in 2..i
    BY <1>3
  <2>2. 1 \in 1..i /\ \A j \in 2..i : j \in 1..i
    BY <1>3
  <2> QED
    BY <2>1, <2>2 DEF AllOf
<1>6. AllOf(s, w, 1, i - 1, x) <=> AllOf(s, v, 2, i, x)
  BY <1>3, <1>4
<1>7. ASSUME Follows(s, w, i, x) PROVE Follows(s, v, i + 1, x)
  <2>1. CASE w.last = x /\ AllOf(s, w, 1, i - 1, x)
    <3>1. CASE Passes(s, v, v.wire[1])
      <4>1. AllOf(s, v, 1, i, x)
        BY <1>2, <1>5, <1>6, <2>1, <3>1
      <4> QED
        BY <1>3, <3>1, <4>1 DEF Follows
    <3>2. CASE ~Passes(s, v, v.wire[1])
      <4>1. v.last = x /\ AllOf(s, v, 1, i, x)
        BY <1>2, <1>5, <1>6, <2>1, <3>2
      <4> QED
        BY <1>3, <4>1 DEF Follows
    <3> QED
      BY <3>1, <3>2
  <2>2. ASSUME NEW k \in 1..(i - 1), Passes(s, w, w.wire[k]), AllOf(s, w, k, i - 1, x)
        PROVE  Follows(s, v, i + 1, x)
    <3>1. k \in 1..i /\ k + 1 \in 1..i /\ w.wire[k] = v.wire[k + 1]
      BY <1>3
    <3>2. Passes(s, v, v.wire[k + 1]) /\ AllOf(s, v, k + 1, i, x)
      BY <1>1, <1>4, <2>2, <3>1
    <3> QED
      BY <1>3, <3>1, <3>2 DEF Follows
  <2> QED
    BY <1>7, <2>1, <2>2 DEF Follows
<1>8. ASSUME Follows(s, v, i + 1, x) PROVE Follows(s, w, i, x)
  <2>1. CASE v.last = x /\ AllOf(s, v, 1, i, x)
    BY <1>2, <1>5, <1>6, <2>1 DEF Follows
  <2>2. CASE Passes(s, v, v.wire[1]) /\ AllOf(s, v, 1, i, x)
    BY <1>2, <1>5, <1>6, <2>2 DEF Follows
  <2>3. ASSUME NEW k \in 2..i, Passes(s, v, v.wire[k]), AllOf(s, v, k, i, x) PROVE Follows(s, w, i, x)
    <3>1. k - 1 \in 1..(i - 1) /\ k - 1 \in 1..i /\ (k - 1) + 1 = k
      BY <1>3
    <3>2. w.wire[k - 1] = v.wire[k]
      BY <1>3, <3>1
    <3>3. Passes(s, w, w.wire[k - 1]) /\ AllOf(s, w, k - 1, i - 1, x)
      BY <1>1, <1>4, <2>3, <3>1, <3>2
    <3> QED
      BY <3>1, <3>3 DEF Follows
  <2>4. \A k \in 1..i : k = 1 \/ k \in 2..i
    BY <1>3
  <2> QED
    BY <1>3, <1>8, <2>1, <2>2, <2>3, <2>4 DEF Follows
<1> QED
  BY <1>7, <1>8

LEMMA EmitsShifts ==
    ASSUME NEW s, NEW v, NEW w, Shorter(s, v, w), NEW i \in 1..Len(w.wire), NEW t,
           WillEmit(s, v, t, i + 1)
    PROVE  WillEmit(s, w, t, i)
<1>1. i \in 1..Len(v.wire) /\ w.wire[i] = v.wire[i + 1] /\ w.subscribed = v.subscribed
  <2>1. Len(v.wire) \in Nat /\ Len(w.wire) = Len(v.wire) - 1
    BY DEF Shorter
  <2> QED
    BY <2>1 DEF Shorter
<1>2. Follows(s, w, i, t) <=> Follows(s, v, i + 1, t)
  BY <1>1, FollowsShifts
<1>3. WantedBy(s, w, v.wire[i + 1]) <=> WantedBy(s, v, v.wire[i + 1])
  BY <1>1, PassesAlike
<1> QED
  BY <1>1, <1>2, <1>3 DEF WillEmit

(* One less can be counted on when the message makes the stream emit.       *)
LEMMA LeftShifts ==
    ASSUME NEW s, NEW v, NEW w, Shorter(s, v, w), NEW t, NEW left, Left(s, v, t, left)
    PROVE  \E new : /\ Left(s, w, t, new) /\ new[1] \in Nat /\ left[1] \in Nat
                    /\ left[1] <= new[1] \/ (WillEmit(s, v, t, 1) /\ left[1] = new[1] + 1)
<1> DEFINE n == Len(v.wire)
           q == Len(w.wire)
           new == [i \in 1..(q + 1) |-> left[i + 1]]
<1>1. n \in Nat \ {0} /\ q = n - 1 /\ q \in Nat
  BY DEF Shorter
<1>2. left \in [1..(n + 1) -> Nat] /\ left[n + 1] = 0
      /\ \A i \in 1..n : left[i] <= left[i + 1] \/ (WillEmit(s, v, t, i) /\ left[i] = left[i + 1] + 1)
  BY DEF Left
<1>3. /\ 1 \in 1..(q + 1) /\ q + 1 \in 1..(q + 1) /\ (q + 1) + 1 = n + 1 /\ 1 \in 1..n /\ 1 \in 1..(n + 1)
      /\ \A i \in 1..(q + 1) : i + 1 \in 1..(n + 1)
      /\ \A i \in 1..q : i + 1 \in 1..(q + 1) /\ i \in 1..(q + 1) /\ i + 1 \in 1..n
  BY <1>1
<1>4. new \in [1..(q + 1) -> Nat] /\ \A i \in 1..(q + 1) : new[i] = left[i + 1]
  BY <1>2, <1>3
<1> HIDE DEF new
<1>5. ASSUME NEW i \in 1..q
      PROVE  new[i] <= new[i + 1] \/ (WillEmit(s, w, t, i) /\ new[i] = new[i + 1] + 1)
  <2>1. new[i] = left[i + 1] /\ new[i + 1] = left[(i + 1) + 1] /\ i + 1 \in 1..n
    BY <1>3, <1>4
  <2>2. left[i + 1] <= left[(i + 1) + 1] \/ (WillEmit(s, v, t, i + 1) /\ left[i + 1] = left[(i + 1) + 1] + 1)
    BY <1>2, <2>1
  <2> QED
    BY <2>1, <2>2, EmitsShifts
<1>6. Left(s, w, t, new)
  BY <1>3, <1>4, <1>2, <1>5 DEF Left
<1>7. /\ new[1] = left[1 + 1] /\ left[1] \in Nat /\ new[1] \in Nat
      /\ left[1] <= new[1] \/ (WillEmit(s, v, t, 1) /\ left[1] = new[1] + 1)
  BY <1>2, <1>3, <1>4
<1> QED
  BY <1>6, <1>7

(* ----------------------------------------------------------------------- *)
(* What a stream takes for a repetition it has emitted, what is due was     *)
(* emitted, was a repetition or will be emitted, and what the node reported *)
(* last is the last element of the stream.                                  *)
LastWasEmitted ==
    \A s \in Streams : \A t \in Transactions :
       (/\ phase[s] = "listening" /\ DropsRepetitions(s)
        /\ last[s] = t /\ MatchesHash(s, t) /\ ShownTo(s, t)) => emitted[s][<<s.channel, t>>] > 0

Enough(s, t, left) == emitted[s][<<s.channel, t>>] + repeated[s][t] + left[1] >= due[s][t]
DueComes ==
    \A s \in Streams : \A t \in Transactions :
       phase[s] = "listening" /\ ShownTo(s, t) /\ MatchesHash(s, t) =>
          \E left : Left(s, View(s), t, left) /\ Enough(s, t, left)
LatestIsLast ==
    \A s \in Streams : phase[s] = "listening" /\ DropsRepetitions(s) =>
       IF latest[s] = None THEN \A t \in Transactions : due[s][t] = 0
       ELSE Follows(s, View(s), Len(wire) + 1, latest[s])

MissInv == LastWasEmitted /\ DueComes /\ LatestIsLast

LEMMA MissInit == Init => MissInv
<1> SUFFICES ASSUME Init PROVE MissInv
  OBVIOUS
<1>1. \A s \in Streams : phase[s] # "listening"
  BY DEF Init
<1> QED
  BY <1>1 DEF MissInv, LastWasEmitted, DueComes, LatestIsLast

LEMMA CountTypes ==
    ASSUME TypeInv, NEW s \in Streams, NEW t \in Transactions
    PROVE  /\ emitted[s][<<s.channel, t>>] \in Nat /\ repeated[s][t] \in Nat /\ due[s][t] \in Nat
           /\ Len(wire) \in Nat
BY StreamFacts DEF TypeInv, TypeOK, Notification

(* Nothing is sent, received or reported; streams start or stop to listen.  *)
LEMMA MissQuiet ==
    ASSUME TypeInv, MissInv, UNCHANGED <<wire, last, histories>>,
           \A c \in Channels : served[c] \subseteq served'[c],
           \A s \in Streams : phase'[s] = "listening" =>
              \/ phase[s] \in {"idle", "lookup"}
              \/ phase[s] = "listening" /\ subscribers'[s] = subscribers[s]
    PROVE  MissInv'
<1>1. ASSUME NEW s \in Streams, NEW t \in Transactions, phase[s] = "listening",
             subscribers'[s] = subscribers[s], ShownTo(s, t)'
      PROVE  ShownTo(s, t)
  BY <1>1, StreamFacts DEF ShownTo, TypeInv, TypeOK
<1>2. ASSUME NEW s \in Streams, phase[s] \in {"idle", "lookup"}
      PROVE  last[s] = None /\ latest[s] = None /\ \A t \in Transactions : due[s][t] = 0
  BY <1>2 DEF TypeInv, Fresh
<1>u. UNCHANGED <<wire, last, reported, emitted, due, latest, repeated>>
  BY DEF histories
<1>3. LastWasEmitted'
  <2> SUFFICES ASSUME NEW s \in Streams, NEW t \in Transactions,
                      phase'[s] = "listening", DropsRepetitions(s),
                      last'[s] = t, MatchesHash(s, t), ShownTo(s, t)'
               PROVE  emitted'[s][<<s.channel, t>>] > 0
    BY DEF LastWasEmitted, DropsRepetitions, MatchesHash
  <2> QED
    BY <1>1, <1>2, <1>u, StreamsAssumption DEF MissInv, LastWasEmitted
<1>4. ASSUME NEW s \in Streams, subscribers'[s] = subscribers[s] PROVE View(s)' = View(s)
  BY <1>4, <1>u DEF View
<1>5. DueComes'
  <2> SUFFICES ASSUME NEW s \in Streams, NEW t \in Transactions, phase'[s] = "listening",
                      ShownTo(s, t)', MatchesHash(s, t)
               PROVE  \E left : Left(s, View(s)', t, left) /\ Enough(s, t, left)'
    BY DEF DueComes, MatchesHash
  <2>1. CASE phase[s] = "listening" /\ subscribers'[s] = subscribers[s]
    <3>1. PICK left : Left(s, View(s), t, left) /\ Enough(s, t, left)
      BY <1>1, <2>1 DEF MissInv, DueComes
    <3>2. Enough(s, t, left)'
      BY <1>u, <3>1 DEF Enough
    <3> QED
      BY <1>4, <2>1, <3>1, <3>2
  <2>2. CASE phase[s] \in {"idle", "lookup"}
    <3>1. Len(View(s)'.wire) \in Nat
      BY <1>u, CountTypes DEF View
    <3>2. PICK left : Left(s, View(s)', t, left) /\ left[1] = 0
      BY <3>1, NoneLeft
    <3>3. Enough(s, t, left)'
      BY <1>2, <1>u, <2>2, <3>2, CountTypes DEF Enough
    <3> QED
      BY <3>2, <3>3
  <2> QED
    BY <2>1, <2>2
<1>6. LatestIsLast'
  <2> SUFFICES ASSUME NEW s \in Streams, phase'[s] = "listening", DropsRepetitions(s)
               PROVE  IF latest[s] = None THEN \A t \in Transactions : due[s][t] = 0
                      ELSE Follows(s, View(s)', Len(wire) + 1, latest[s])
    BY <1>u DEF LatestIsLast, DropsRepetitions
  <2>1. CASE phase[s] = "listening" /\ subscribers'[s] = subscribers[s]
    BY <1>4, <2>1 DEF MissInv, LatestIsLast
  <2>2. CASE phase[s] \in {"idle", "lookup"}
    BY <1>2, <2>2
  <2> QED
    BY <2>1, <2>2
<1> QED
  BY <1>3, <1>5, <1>6 DEF MissInv

(* A message is received.                                                   *)
LEMMA MissReceive == TypeInv /\ TypeInv' /\ MissInv /\ Receive => MissInv'
<1> SUFFICES ASSUME TypeInv, TypeInv', MissInv, Receive PROVE MissInv'
  OBVIOUS
<1> DEFINE m == Head(wire)
<1>1. /\ m = wire[1] /\ m \in Message /\ 1 \in 1..Len(wire)
      /\ Len(wire) \in Nat \ {0} /\ Len(wire') = Len(wire) - 1
      /\ \A i \in 1..Len(wire') : wire'[i] = wire[i + 1]
  BY DEF Receive, TypeInv, TypeOK
<1>2. /\ last' = [s \in Streams |-> IF phase[s] = "listening" /\ DropsRepetitions(s) /\ Distinct(s, m)
                                   THEN m.transaction ELSE last[s]]
      /\ emitted' = [s \in Streams |-> IF Emits(s, m)
                                      THEN [emitted[s] EXCEPT ![<<m.channel, m.transaction>>] = @ + 1]
                                      ELSE emitted[s]]
      /\ UNCHANGED <<phase, subscribers, served, due, latest, repeated>>
  BY DEF Receive
<1> HIDE DEF m
<1>3. m.transaction \in Transactions /\ m.channel \in Channels /\ m.address \in served[m.channel]
  BY <1>1 DEF Message, TypeInv, Sent
<1>4. ASSUME NEW s \in Streams, NEW t \in Transactions
      PROVE  /\ emitted[s][<<s.channel, t>>] \in Nat /\ emitted'[s][<<s.channel, t>>] \in Nat
             /\ emitted'[s][<<s.channel, t>>] >= emitted[s][<<s.channel, t>>]
             /\ Emits(s, m) /\ t = m.transaction =>
                  emitted'[s][<<s.channel, t>>] = emitted[s][<<s.channel, t>>] + 1
  <2>1. emitted[s] \in [Notification -> Nat] /\ <<s.channel, t>> \in Notification
    BY StreamFacts DEF TypeInv, TypeOK, Notification
  <2>2. Emits(s, m) => m.channel = s.channel
    BY DEF Emits, Distinct, OnChannel
  <2>3. emitted'[s] = IF Emits(s, m) THEN [emitted[s] EXCEPT ![<<m.channel, m.transaction>>] = @ + 1]
                      ELSE emitted[s]
    BY <1>2
  <2> QED
    BY <2>1, <2>2, <2>3
<1>5. LastWasEmitted'
  <2> SUFFICES ASSUME NEW s \in Streams, NEW t \in Transactions,
                      phase[s] = "listening", DropsRepetitions(s),
                      last'[s] = t, MatchesHash(s, t), ShownTo(s, t)
               PROVE  emitted'[s][<<s.channel, t>>] > 0
    BY <1>2 DEF LastWasEmitted, ShownTo, DropsRepetitions, MatchesHash
  <2>1. CASE Distinct(s, m)
    <3>1. t = m.transaction /\ m.channel = s.channel
      BY <2>1, <1>2 DEF Distinct, OnChannel
    <3>2. Wanted(s, m)
      <4>1. CASE s.channel # "added"
        BY <4>1, <2>1 DEF Distinct, FiltersFirst
      <4>2. CASE s.channel = "added"
        BY <4>2, <3>1, <1>3 DEF Wanted, ForAccount, ShownTo
      <4> QED
        BY <4>1, <4>2
    <3> QED
      BY <2>1, <3>1, <3>2, <1>4 DEF Emits
  <2>2. CASE ~Distinct(s, m)
    <3>1. emitted[s][<<s.channel, t>>] > 0
      BY <2>2, <1>2 DEF MissInv, LastWasEmitted
    <3> QED
      BY <3>1, <1>4
  <2> QED
    BY <2>1, <2>2
<1>6. ASSUME NEW s \in Streams, phase[s] = "listening", NEW w, w = [View(s)' EXCEPT !.last =
                IF Passes(s, View(s), m) THEN m.transaction ELSE last[s]]
      PROVE  Shorter(s, View(s), w) /\ (DropsRepetitions(s) => w = View(s)')
  <2>1. /\ View(s) = [wire |-> wire, subscribed |-> subscribers[s], last |-> last[s]]
        /\ View(s)' = [wire |-> wire', subscribed |-> subscribers[s], last |-> last'[s]]
    BY <1>2 DEF View
  <2>2. /\ w.wire = wire' /\ w.subscribed = subscribers[s]
        /\ w.last = IF Passes(s, View(s), m) THEN m.transaction ELSE last[s]
    BY <1>6, <2>1
  <2>3. Shorter(s, View(s), w)
    <3>1. View(s).wire = wire /\ View(s).subscribed = subscribers[s] /\ View(s).last = last[s]
      BY <2>1
    <3> QED
      BY <1>1, <2>2, <3>1 DEF Shorter
  <2>4. DropsRepetitions(s) => last'[s] = IF Passes(s, View(s), m) THEN m.transaction ELSE last[s]
    <3>1. Wanted(s, m) <=> WantedBy(s, View(s), m)
      BY WantedIsBy
    <3> QED
      BY <1>2, <1>6, <3>1 DEF Distinct, Passes, Repeats
  <2> QED
    BY <1>6, <2>1, <2>3, <2>4
<1>7. ASSUME NEW s \in Streams, phase[s] = "listening", NEW t \in Transactions,
             WillEmit(s, View(s), t, 1)
      PROVE  Emits(s, m) /\ t = m.transaction
  <2>1. View(s).wire[1] = m /\ View(s).last = last[s]
    BY <1>1 DEF View
  <2>2. DropsRepetitions(s) => last[s] # t
    <3>1. AllOf(s, View(s), 1, 1 - 1, t)
      BY DEF AllOf
    <3> QED
      BY <1>7, <2>1, <3>1 DEF WillEmit, Follows
  <2>3. Wanted(s, m) <=> WantedBy(s, View(s), m)
    BY WantedIsBy
  <2> QED
    BY <1>7, <2>1, <2>2, <2>3 DEF WillEmit, Emits, Distinct, Repeats
<1>8. ASSUME NEW s \in Streams, NEW t, NEW w, NEW left, ~DropsRepetitions(s), Left(s, w, t, left),
             w.wire = View(s)'.wire, w.subscribed = View(s)'.subscribed
      PROVE  Left(s, View(s)', t, left)
  <2> DEFINE v == View(s)'
  <2>1. v.wire = w.wire /\ v.subscribed = w.subscribed
    BY <1>8
  <2> HIDE DEF v
  <2>2. \A i : WantedBy(s, v, v.wire[i]) <=> WantedBy(s, w, w.wire[i])
    BY <2>1 DEF WantedBy
  <2>3. \A i : WillEmit(s, w, t, i) => WillEmit(s, v, t, i)
    BY <1>8, <2>1, <2>2 DEF WillEmit
  <2>4. Left(s, v, t, left)
    BY <1>8, <2>1, <2>3 DEF Left
  <2> QED
    BY <2>4 DEF v
<1>9. DueComes'
  <2> SUFFICES ASSUME NEW s \in Streams, NEW t \in Transactions, phase[s] = "listening",
                      ShownTo(s, t), MatchesHash(s, t)
               PROVE  \E left : Left(s, View(s)', t, left) /\ Enough(s, t, left)'
    BY <1>2 DEF DueComes, ShownTo, MatchesHash
  <2>1. PICK left : Left(s, View(s), t, left) /\ Enough(s, t, left)
    BY DEF MissInv, DueComes
  <2> DEFINE w == [View(s)' EXCEPT !.last = IF Passes(s, View(s), m) THEN m.transaction ELSE last[s]]
  <2>2. Shorter(s, View(s), w) /\ (DropsRepetitions(s) => w = View(s)')
    BY <1>6
  <2>3. w.wire = View(s)'.wire /\ w.subscribed = View(s)'.subscribed
    BY DEF View
  <2> HIDE DEF w
  <2>4. PICK new : /\ Left(s, w, t, new) /\ new[1] \in Nat /\ left[1] \in Nat
                   /\ left[1] <= new[1] \/ (WillEmit(s, View(s), t, 1) /\ left[1] = new[1] + 1)
    BY <2>1, <2>2, LeftShifts
  <2>5. Left(s, View(s)', t, new)
    BY <1>8, <2>2, <2>3, <2>4
  <2>6. emitted'[s][<<s.channel, t>>] + new[1] >= emitted[s][<<s.channel, t>>] + left[1]
    <3>1. CASE left[1] <= new[1]
      BY <1>4, <2>4, <3>1
    <3>2. CASE WillEmit(s, View(s), t, 1) /\ left[1] = new[1] + 1
      <4>1. emitted'[s][<<s.channel, t>>] = emitted[s][<<s.channel, t>>] + 1
        BY <1>4, <1>7, <3>2
      <4> QED
        BY <1>4, <2>4, <3>2, <4>1
    <3> QED
      BY <2>4, <3>1, <3>2
  <2>7. Enough(s, t, new)'
    <3>1. /\ emitted[s][<<s.channel, t>>] + repeated[s][t] + left[1] >= due[s][t]
          /\ due'[s][t] = due[s][t] /\ repeated'[s][t] = repeated[s][t]
      BY <1>2, <2>1 DEF Enough
    <3>2. emitted'[s][<<s.channel, t>>] + repeated'[s][t] + new[1] >= due'[s][t]
      <4>1. /\ emitted[s][<<s.channel, t>>] \in Nat /\ emitted'[s][<<s.channel, t>>] \in Nat
            /\ repeated[s][t] \in Nat /\ due[s][t] \in Nat
        BY <1>4, CountTypes
      <4> QED
        BY <2>4, <2>6, <3>1, <4>1
    <3> QED
      BY <3>2 DEF Enough
  <2> QED
    BY <2>5, <2>7
<1>10. LatestIsLast'
  <2> SUFFICES ASSUME NEW s \in Streams, phase[s] = "listening", DropsRepetitions(s)
               PROVE  IF latest[s] = None THEN \A t \in Transactions : due[s][t] = 0
                      ELSE Follows(s, View(s)', Len(wire') + 1, latest[s])
    BY <1>2 DEF LatestIsLast, DropsRepetitions
  <2>1. Len(wire) \in 1..Len(wire) /\ Len(wire') + 1 = Len(wire) /\ View(s).wire = wire
    BY <1>1 DEF View
  <2>2. Shorter(s, View(s), View(s)')
    BY <1>6
  <2>3. Follows(s, View(s), Len(wire) + 1, latest[s]) => Follows(s, View(s)', Len(wire), latest[s])
    BY <2>1, <2>2, FollowsShifts
  <2> QED
    BY <2>1, <2>3 DEF MissInv, LatestIsLast
<1> QED
  BY <1>5, <1>9, <1>10 DEF MissInv

(* The node reports t: every new message is of it, one for each address it  *)
(* involves that is served.                                                 *)
Reported(c, t) ==
    /\ Len(wire) \in Nat /\ Len(wire') \in Nat /\ Len(wire) <= Len(wire')
    /\ \A i \in 1..Len(wire) : wire'[i] = wire[i]
    /\ \A i \in (Len(wire) + 1)..Len(wire') :
          /\ wire'[i].channel = c /\ wire'[i].transaction = t
          /\ wire'[i].address \in Involved[t] \intersect served[c]
    /\ \A x \in Involved[t] \intersect served[c] :
          \E i \in (Len(wire) + 1)..Len(wire') : wire'[i].address = x

LEMMA ReportIsReported ==
    ASSUME TypeInv, NEW c \in Channels, NEW t \in Transactions, Report(c, t)
    PROVE  Reported(c, t)
<1> DEFINE S == Involved[t] \intersect served[c]
<1>1. S \in SUBSET Addresses
  BY AddressesAssumption
<1>2. PICK order \in SetToSeqs(S) : wire' = wire \o Messages(c, t, order)
  BY DEF Report, Messages
<1> DEFINE msgs == Messages(c, t, order)
           n == Len(order)
<1>3. /\ msgs \in Seq(Message) /\ Len(msgs) = n /\ n \in Nat
      /\ \A i \in 1..n : msgs[i] = [channel |-> c, address |-> order[i], transaction |-> t]
      /\ \A i \in 1..n : order[i] \in S
      /\ \A x \in S : \E i \in 1..n : order[i] = x
  <2> HIDE DEF S
  <2> QED
    BY <1>1, MessagesType
<1> HIDE DEF msgs, S, n
<1>4. wire \in Seq(Message) /\ wire' = wire \o msgs /\ Len(wire) \in Nat
  BY <1>2 DEF msgs, TypeInv, TypeOK
<1>5. /\ Len(wire') = Len(wire) + n
      /\ \A i \in 1..Len(wire) : wire'[i] = wire[i]
      /\ \A i \in 1..n : Len(wire) + i \in (Len(wire) + 1)..Len(wire') /\ wire'[Len(wire) + i] = msgs[i]
  <2>1. /\ Len(wire \o msgs) = Len(wire) + Len(msgs)
        /\ \A i \in 1..Len(wire) : (wire \o msgs)[i] = wire[i]
        /\ \A i \in 1..Len(msgs) : (wire \o msgs)[Len(wire) + i] = msgs[i]
    <3>1. wire \in Seq(Message) /\ msgs \in Seq(Message)
      BY <1>3, <1>4
    <3> QED
      BY <3>1, ConcatAt
  <2>2. Len(wire') = Len(wire) + n
    BY <1>3, <1>4, <2>1
  <2>3. \A i \in 1..n : Len(wire) + i \in (Len(wire) + 1)..Len(wire')
    BY <1>3, <1>4, <2>2
  <2> QED
    BY <1>3, <1>4, <2>1, <2>2, <2>3
<1>6. ASSUME NEW i \in (Len(wire) + 1)..Len(wire')
      PROVE  wire'[i].channel = c /\ wire'[i].transaction = t /\ wire'[i].address \in S
  <2>1. i - Len(wire) \in 1..n /\ Len(wire) + (i - Len(wire)) = i
    BY <1>3, <1>4, <1>5
  <2>2. wire'[i] = [channel |-> c, address |-> order[i - Len(wire)], transaction |-> t]
    BY <1>3, <1>5, <2>1
  <2> QED
    BY <1>3, <2>1, <2>2
<1>7. ASSUME NEW x \in S PROVE \E i \in (Len(wire) + 1)..Len(wire') : wire'[i].address = x
  <2>1. PICK i \in 1..n : order[i] = x
    BY <1>3
  <2>2. wire'[Len(wire) + i] = [channel |-> c, address |-> x, transaction |-> t]
    BY <1>3, <1>5, <2>1
  <2>3. wire'[Len(wire) + i].address = x
    BY <2>2
  <2> QED
    BY <1>5, <2>3
<1> QED
  BY <1>3, <1>4, <1>5, <1>6, <1>7 DEF Reported, S

LEMMA ReportView ==
    ASSUME NEW c, NEW t, Reported(c, t), NEW s \in Streams, UNCHANGED <<subscribers, last>>
    PROVE  /\ Longer(View(s), View(s)')
           /\ View(s).wire = wire /\ View(s)'.wire = wire'
           /\ View(s)'.subscribed = subscribers[s] /\ View(s)'.last = last[s]
<1>1. /\ View(s) = [wire |-> wire, subscribed |-> subscribers[s], last |-> last[s]]
      /\ View(s)' = [wire |-> wire', subscribed |-> subscribers[s], last |-> last[s]]
  BY DEF View
<1> QED
  BY <1>1 DEF Longer, Reported

(* Of what a stream is sent a message goes in; and if the transaction shows *)
(* that it is the stream's, whatever goes in is wanted.                     *)
LEMMA SentPasses ==
    ASSUME TypeInv, NEW c, NEW t \in Transactions, Reported(c, t), UNCHANGED <<subscribers, last>>,
           NEW s \in Streams,
           SentTo(s, c, t) \/ (DropsRepetitions(s) /\ IsLatestOf(s, c, t))
    PROVE  \E p \in (Len(wire) + 1)..Len(wire') : Passes(s, View(s)', wire'[p])
<1>1. View(s)'.subscribed = subscribers[s] /\ s.channel = c /\ subscribers[s] \subseteq served[c]
  BY ReportView DEF SentTo, IsLatestOf, TypeInv, TypeOK
<1>2. CASE FiltersFirst(s)
  <2>1. SentTo(s, c, t)
    BY <1>2 DEF FiltersFirst, IsLatestOf
  <2>2. PICK x \in Involved[t] \intersect subscribers[s] : TRUE
    BY <2>1 DEF SentTo
  <2>3. PICK p \in (Len(wire) + 1)..Len(wire') : wire'[p].address = x
    BY <1>1, <2>2 DEF Reported
  <2>4. wire'[p].channel = c /\ wire'[p].transaction = t
    BY DEF Reported
  <2>5. WantedBy(s, View(s)', wire'[p])
    BY <1>1, <2>1, <2>2, <2>3, <2>4 DEF SentTo, WantedBy
  <2> QED
    BY <1>1, <2>4, <2>5 DEF Passes, OnChannel
<1>3. CASE ~FiltersFirst(s)
  <2>1. PICK x \in Involved[t] \intersect served[c] : TRUE
    BY <1>1, <1>3 DEF FiltersFirst, SentTo, IsLatestOf
  <2>2. PICK p \in (Len(wire) + 1)..Len(wire') : wire'[p].address = x
    BY DEF Reported
  <2>3. wire'[p].channel = c
    BY DEF Reported
  <2> QED
    BY <1>1, <1>3, <2>3 DEF Passes, OnChannel
<1> QED
  BY <1>2, <1>3

LEMMA ShownIsWanted ==
    ASSUME TypeInv', UNCHANGED <<subscribers, served>>, NEW s \in Streams, NEW t \in Transactions,
           ShownTo(s, t), MatchesHash(s, t),
           NEW i \in 1..Len(wire'), wire'[i].transaction = t, Passes(s, View(s)', wire'[i])
    PROVE  OnChannel(s, wire'[i]) /\ WantedBy(s, View(s)', wire'[i])
<1>1. OnChannel(s, wire'[i])
  BY DEF Passes
<1>2. CASE s.channel # "added"
  BY <1>1, <1>2 DEF Passes, FiltersFirst
<1>3. CASE s.channel = "added"
  <2>1. s.owner \in Recognised[t] \/ served'[s.channel] = subscribers'[s]
    BY <1>3 DEF ShownTo
  <2>2. wire'[i].address \in served'[s.channel]
    BY <1>1 DEF TypeInv, Sent, OnChannel
  <2>3. View(s)'.subscribed = subscribers'[s]
    BY DEF View
  <2> QED
    BY <1>1, <1>3, <2>1, <2>2, <2>3 DEF WantedBy
<1> QED
  BY <1>2, <1>3

(* A report that is not a repetition makes the stream emit once more.       *)
LEMMA OneMoreComes ==
    ASSUME TypeInv, TypeInv', MissInv, NEW c, NEW t \in Transactions, Reported(c, t),
           UNCHANGED <<subscribers, served, last>>,
           NEW s \in Streams, SentTo(s, c, t), ShownTo(s, t),
           DropsRepetitions(s) => latest[s] # t
    PROVE  \E left : /\ Left(s, View(s)', t, left)
                     /\ emitted[s][<<s.channel, t>>] + repeated[s][t] + left[1] >= due[s][t] + 1
<1> DEFINE v == View(s)
           w == View(s)'
           n == Len(wire)
           q == Len(wire')
<1>1. /\ Longer(v, w) /\ v.wire = wire /\ w.wire = wire' /\ w.last = last[s] /\ n \in Nat /\ q \in Nat
      /\ n <= q
  BY ReportView DEF Reported
<1>2. MatchesHash(s, t) /\ phase[s] = "listening" /\ t # None
  BY StreamsAssumption DEF SentTo
<1>3. ASSUME NEW p \in 1..q, wire'[p].transaction = t, Passes(s, w, wire'[p])
      PROVE  OnChannel(s, wire'[p]) /\ WantedBy(s, w, wire'[p])
  BY <1>2, <1>3, ShownIsWanted
<1>4. PICK g \in (n + 1)..q : Passes(s, w, wire'[g])
  BY SentPasses
<1>5. \A i \in (n + 1)..q : wire'[i].transaction = t /\ i \in 1..q
  BY <1>1 DEF Reported
<1>6. /\ emitted[s][<<s.channel, t>>] \in Nat /\ repeated[s][t] \in Nat /\ due[s][t] \in Nat
  BY CountTypes
<1> HIDE DEF v, w, n, q
<1>7. ASSUME NEW p \in (n + 1)..q, WillEmit(s, w, t, p)
      PROVE  \E left : /\ Left(s, w, t, left)
                       /\ emitted[s][<<s.channel, t>>] + repeated[s][t] + left[1] >= due[s][t] + 1
  <2>1. PICK left : Left(s, v, t, left) /\ Enough(s, t, left)
    BY <1>2 DEF MissInv, DueComes, v
  <2>2. p \in (Len(v.wire) + 1)..Len(w.wire)
    BY <1>1 DEF n, q
  <2>3. PICK new : Left(s, w, t, new) /\ new[1] = left[1] + 1
    BY <1>1, <1>7, <2>1, <2>2, LeftGrows
  <2>4. left[1] \in Nat
    <3>1. left \in [1..(n + 1) -> Nat] /\ 1 \in 1..(n + 1)
      BY <1>1, <2>1 DEF Left, n
    <3> QED
      BY <3>1
  <2>5. emitted[s][<<s.channel, t>>] + repeated[s][t] + left[1] >= due[s][t]
    BY <2>1 DEF Enough
  <2>6. emitted[s][<<s.channel, t>>] + repeated[s][t] + new[1] >= due[s][t] + 1
    BY <1>6, <2>3, <2>4, <2>5
  <2> QED
    BY <2>3, <2>6
<1>8. CASE ~DropsRepetitions(s)
  <2>1. WillEmit(s, w, t, g)
    BY <1>1, <1>3, <1>4, <1>5, <1>8 DEF WillEmit
  <2> QED
    BY <1>4, <1>7, <2>1 DEF w, n, q
<1>9. CASE DropsRepetitions(s) /\ latest[s] # None
  <2> DEFINE T == {i \in (n + 1)..q : Passes(s, w, wire'[i])}
  <2>1. T \subseteq Nat /\ T # {}
    BY <1>1, <1>4
  <2>2. PICK p \in T : \A i \in T : p <= i
    <3> HIDE DEF T
    <3> QED
      BY <2>1, LeastOf
  <2>3. p \in (n + 1)..q /\ Passes(s, w, wire'[p]) /\ p \in Nat
    BY <1>1
  <2>4. \A i \in (n + 1)..(p - 1) : ~Passes(s, w, wire'[i])
    <3> SUFFICES ASSUME NEW i \in (n + 1)..(p - 1), Passes(s, w, wire'[i]) PROVE FALSE
      OBVIOUS
    <3>1. i \in (n + 1)..q /\ ~(p <= i)
      BY <1>1, <2>3
    <3> QED
      BY <2>2, <3>1
  <2> HIDE DEF T
  <2>5. Follows(s, v, n + 1, latest[s])
    BY <1>2, <1>9 DEF MissInv, LatestIsLast, v, n
  <2>6. ~Follows(s, w, p, t)
    <3>1. SUFFICES ASSUME Follows(s, w, p, t) PROVE FALSE
      OBVIOUS
    <3>2. p \in (Len(v.wire) + 1)..(Len(w.wire) + 1)
          /\ \A i \in (Len(v.wire) + 1)..(p - 1) : ~Passes(s, w, w.wire[i])
      <4>1. v.wire = wire /\ w.wire = wire' /\ Len(v.wire) = n /\ Len(w.wire) = q
        BY <1>1 DEF n, q
      <4>2. p \in (n + 1)..(q + 1)
        BY <1>1, <2>3
      <4> QED
        BY <2>4, <4>1, <4>2
    <3>3. Follows(s, v, Len(v.wire) + 1, t)
      BY <1>1, <3>1, <3>2, FollowsBack
    <3>4. n + 1 \in Nat \ {0} /\ Len(v.wire) = n
      BY <1>1 DEF n
    <3>5. latest[s] = t
      BY <2>5, <3>3, <3>4, OneFollows
    <3> QED
      BY <1>9, <3>5
  <2>7. WillEmit(s, w, t, p)
    BY <1>1, <1>3, <1>5, <2>3, <2>6 DEF WillEmit
  <2> QED
    BY <1>7, <2>3, <2>7 DEF w
<1>10. CASE DropsRepetitions(s) /\ latest[s] = None
  <2>1. due[s][t] = 0
    BY <1>2, <1>10 DEF MissInv, LatestIsLast
  <2> DEFINE T == {i \in 1..q : Passes(s, w, wire'[i]) /\ wire'[i].transaction = t}
  <2>2. T \subseteq Nat /\ T # {}
    BY <1>1, <1>4, <1>5
  <2>3. PICK p \in T : \A i \in T : p <= i
    <3> HIDE DEF T
    <3> QED
      BY <2>2, LeastOf
  <2>4. p \in 1..q /\ Passes(s, w, wire'[p]) /\ wire'[p].transaction = t
    OBVIOUS
  <2>5. \A i \in 1..(p - 1) : ~(Passes(s, w, wire'[i]) /\ wire'[i].transaction = t)
    <3> SUFFICES ASSUME NEW i \in 1..(p - 1), Passes(s, w, wire'[i]), wire'[i].transaction = t PROVE FALSE
      OBVIOUS
    <3>1. i \in 1..q /\ ~(p <= i)
      BY <1>1, <2>4
    <3> QED
      BY <2>3, <3>1
  <2> HIDE DEF T
  <2>6. CASE Follows(s, w, p, t)
    <3>1. ~(\E k \in 1..(p - 1) : Passes(s, w, w.wire[k]) /\ AllOf(s, w, k, p - 1, t))
      <4> SUFFICES ASSUME NEW k \in 1..(p - 1), Passes(s, w, w.wire[k]), AllOf(s, w, k, p - 1, t)
                   PROVE  FALSE
        OBVIOUS
      <4>1. k \in k..(p - 1)
        BY <2>4, <1>1
      <4> QED
        BY <1>1, <2>5, <4>1 DEF AllOf
    <3>2. last[s] = t
      BY <1>1, <2>6, <3>1 DEF Follows
    <3>3. emitted[s][<<s.channel, t>>] > 0
      BY <1>2, <1>10, <3>2 DEF MissInv, LastWasEmitted
    <3>4. PICK left : Left(s, w, t, left) /\ left[1] = 0
      <4>1. Len(w.wire) \in Nat
        BY <1>1 DEF q
      <4> QED
        BY <4>1, NoneLeft
    <3>5. emitted[s][<<s.channel, t>>] + repeated[s][t] + left[1] >= due[s][t] + 1
      BY <1>6, <2>1, <3>3, <3>4
    <3> QED
      BY <3>4, <3>5 DEF w
  <2>7. CASE ~Follows(s, w, p, t)
    <3>1. WillEmit(s, w, t, p)
      BY <1>1, <1>3, <2>4, <2>7 DEF WillEmit
    <3>2. Len(w.wire) = q /\ q \in Nat
      BY <1>1 DEF q
    <3>3. PICK left : Left(s, w, t, left) /\ left[1] = 1
      BY <2>4, <3>1, <3>2, OneLeft
    <3>4. emitted[s][<<s.channel, t>>] + repeated[s][t] + left[1] >= due[s][t] + 1
      BY <1>6, <2>1, <3>3
    <3> QED
      BY <3>3, <3>4 DEF w
  <2> QED
    BY <2>6, <2>7
<1> QED
  BY <1>8, <1>9, <1>10

(* A report is the stream's last element, or its last element stays.        *)
LEMMA LatestStaysLast ==
    ASSUME TypeInv, MissInv, NEW c, NEW t \in Transactions, Reported(c, t),
           UNCHANGED <<subscribers, last>>,
           NEW s \in Streams, phase[s] = "listening", DropsRepetitions(s)
    PROVE  /\ IsLatestOf(s, c, t) => Follows(s, View(s)', Len(wire') + 1, t)
           /\ ~IsLatestOf(s, c, t) /\ latest[s] # None =>
                 Follows(s, View(s)', Len(wire') + 1, latest[s])
           /\ SentTo(s, c, t) => IsLatestOf(s, c, t)
<1> DEFINE v == View(s)
           w == View(s)'
           n == Len(wire)
           q == Len(wire')
<1>1. /\ Longer(v, w) /\ v.wire = wire /\ w.wire = wire' /\ w.subscribed = subscribers[s]
      /\ n \in Nat /\ q \in Nat /\ n <= q
  BY ReportView DEF Reported
<1>2. Len(v.wire) = n /\ Len(w.wire) = q
  BY <1>1
<1>3. \A i \in (n + 1)..q : wire'[i].channel = c /\ wire'[i].transaction = t
                            /\ wire'[i].address \in Involved[t] \intersect served[c]
  BY DEF Reported
<1>4. ASSUME IsLatestOf(s, c, t) PROVE \E p \in (n + 1)..q : Passes(s, w, wire'[p])
  BY <1>4, SentPasses
<1> HIDE DEF v, w, n, q
<1>5. ASSUME IsLatestOf(s, c, t) PROVE Follows(s, w, q + 1, t)
  <2>1. PICK p \in (n + 1)..q : Passes(s, w, wire'[p])
    BY <1>4, <1>5
  <2> QED
    BY <1>1, <1>2, <1>3, <2>1, FollowsNew
<1>6. ASSUME ~IsLatestOf(s, c, t), latest[s] # None PROVE Follows(s, w, q + 1, latest[s])
  <2>1. Follows(s, v, n + 1, latest[s])
    BY <1>6 DEF MissInv, LatestIsLast, v, n
  <2>2. ASSUME NEW i \in (n + 1)..q, Passes(s, w, wire'[i]) PROVE FALSE
    <3>1. s.channel = c
      BY <1>3, <2>2 DEF Passes, OnChannel
    <3>2. CASE c = "added"
      BY <1>3, <1>6, <3>1, <3>2 DEF IsLatestOf
    <3>3. CASE c # "added"
      <4>1. c = "removed" /\ WantedBy(s, w, wire'[i])
        BY <2>2, <3>1, <3>3 DEF Passes, FiltersFirst, DropsRepetitions
      <4>2. MatchesHash(s, t) /\ wire'[i].address \in subscribers[s] /\ wire'[i].address \in Involved[t]
        BY <1>1, <1>3, <3>1, <4>1 DEF WantedBy
      <4> QED
        BY <1>6, <3>1, <4>1, <4>2 DEF IsLatestOf, SentTo
    <3> QED
      BY <3>2, <3>3
  <2>3. q + 1 \in (n + 1)..(q + 1) /\ (q + 1) - 1 = q
    BY <1>1
  <2> QED
    BY <1>1, <1>2, <2>1, <2>2, <2>3, FollowsOver
<1>7. ASSUME SentTo(s, c, t) PROVE IsLatestOf(s, c, t)
  <2>1. s.channel = c /\ c \in {"added", "removed"} /\ subscribers[s] \subseteq served[c]
    BY <1>7 DEF SentTo, DropsRepetitions, TypeInv, TypeOK
  <2> QED
    BY <1>7, <2>1 DEF SentTo, IsLatestOf
<1> QED
  BY <1>5, <1>6, <1>7 DEF w, q

LEMMA MissReport ==
    ASSUME TypeInv, TypeInv', MissInv, NEW c \in Channels, NEW t \in Transactions, Report(c, t)
    PROVE  MissInv'
<1>1. /\ UNCHANGED <<phase, subscribers, served, last, emitted>>
      /\ due' = [s \in Streams |-> IF SentTo(s, c, t) THEN OneMore(due, s, t) ELSE due[s]]
      /\ repeated' = [s \in Streams |->
           IF SentTo(s, c, t) /\ latest[s] = t THEN OneMore(repeated, s, t) ELSE repeated[s]]
      /\ latest' = [s \in Streams |-> IF IsLatestOf(s, c, t) THEN t ELSE latest[s]]
  BY DEF Report
<1>2. Reported(c, t)
  BY ReportIsReported
<1>3. LastWasEmitted'
  BY <1>1 DEF MissInv, LastWasEmitted, ShownTo, DropsRepetitions, MatchesHash
<1>4. DueComes'
  <2> SUFFICES ASSUME NEW s \in Streams, NEW u \in Transactions, phase[s] = "listening",
                      ShownTo(s, u), MatchesHash(s, u)
               PROVE  \E left : Left(s, View(s)', u, left) /\ Enough(s, u, left)'
    BY <1>1 DEF DueComes, ShownTo, MatchesHash
  <2>1. /\ emitted[s][<<s.channel, u>>] \in Nat /\ repeated[s][u] \in Nat /\ due[s][u] \in Nat
        /\ repeated[s] \in [Transactions -> Nat] /\ due[s] \in [Transactions -> Nat]
    BY CountTypes DEF TypeInv, TypeOK
  <2>2. PICK left : Left(s, View(s), u, left) /\ Enough(s, u, left)
    BY DEF MissInv, DueComes
  <2>3. PICK new : Left(s, View(s)', u, new) /\ new[1] = left[1]
    BY <1>1, <1>2, <2>2, ReportView, LeftStays
  <2>4. left[1] \in Nat
    <3>1. left \in [1..(Len(wire) + 1) -> Nat] /\ 1 \in 1..(Len(wire) + 1)
      BY <2>2, CountTypes DEF Left, View
    <3> QED
      BY <3>1
  <2>5. emitted[s][<<s.channel, u>>] + repeated[s][u] + left[1] >= due[s][u]
    BY <2>2 DEF Enough
  <2>6. CASE ~SentTo(s, c, t) \/ u # t
    <3>1. due'[s][u] = due[s][u] /\ repeated'[s][u] = repeated[s][u]
      BY <1>1, <2>1, <2>6 DEF OneMore
    <3>2. Enough(s, u, new)'
      BY <1>1, <2>3, <2>5, <3>1 DEF Enough
    <3> QED
      BY <2>3, <3>2
  <2>7. CASE SentTo(s, c, t) /\ u = t /\ latest[s] = t
    <3>1. due'[s][u] = due[s][u] + 1 /\ repeated'[s][u] = repeated[s][u] + 1
      BY <1>1, <2>1, <2>7 DEF OneMore
    <3>2. emitted[s][<<s.channel, u>>] + repeated'[s][u] + new[1] >= due'[s][u]
      BY <2>1, <2>3, <2>4, <2>5, <3>1
    <3>3. Enough(s, u, new)'
      BY <1>1, <3>2 DEF Enough
    <3> QED
      BY <2>3, <3>3
  <2>8. CASE SentTo(s, c, t) /\ u = t /\ latest[s] # t
    <3>1. due'[s][u] = due[s][u] + 1 /\ repeated'[s][u] = repeated[s][u]
      BY <1>1, <2>1, <2>8 DEF OneMore
    <3>2. PICK more : /\ Left(s, View(s)', u, more)
                      /\ emitted[s][<<s.channel, u>>] + repeated[s][u] + more[1] >= due[s][u] + 1
      BY <1>1, <1>2, <2>8, OneMoreComes
    <3>3. Enough(s, u, more)'
      BY <1>1, <3>1, <3>2 DEF Enough
    <3> QED
      BY <3>2, <3>3
  <2> QED
    BY <2>6, <2>7, <2>8
<1>5. LatestIsLast'
  <2> SUFFICES ASSUME NEW s \in Streams, phase[s] = "listening", DropsRepetitions(s)
               PROVE  IF latest'[s] = None THEN \A u \in Transactions : due'[s][u] = 0
                      ELSE Follows(s, View(s)', Len(wire') + 1, latest'[s])
    BY <1>1 DEF LatestIsLast, DropsRepetitions
  <2>1. /\ IsLatestOf(s, c, t) => Follows(s, View(s)', Len(wire') + 1, t)
        /\ ~IsLatestOf(s, c, t) /\ latest[s] # None =>
              Follows(s, View(s)', Len(wire') + 1, latest[s])
        /\ SentTo(s, c, t) => IsLatestOf(s, c, t)
    BY <1>1, <1>2, LatestStaysLast
  <2>2. CASE IsLatestOf(s, c, t)
    BY <1>1, <2>1, <2>2, StreamsAssumption
  <2>3. CASE ~IsLatestOf(s, c, t)
    BY <1>1, <2>1, <2>3 DEF MissInv, LatestIsLast
  <2> QED
    BY <2>2, <2>3
<1> QED
  BY <1>3, <1>4, <1>5 DEF MissInv

LEMMA MissStep == TypeInv /\ TypeInv' /\ MissInv /\ [Next]_vars => MissInv'
<1> SUFFICES ASSUME TypeInv, TypeInv', MissInv, [Next]_vars PROVE MissInv'
  OBVIOUS
<1>l. ASSUME NEW s \in Streams, NEW addresses, phase[s] \in {"idle", "lookup"}, ListenFor(s, addresses)
      PROVE  /\ \A c \in Channels : served[c] \subseteq served'[c]
             /\ \A r \in Streams : phase'[r] = "listening" =>
                  \/ phase[r] \in {"idle", "lookup"}
                  \/ phase[r] = "listening" /\ subscribers'[r] = subscribers[r]
  BY <1>l, StreamFacts DEF ListenFor, ServedFor, TypeInv, TypeOK
<1>1. ASSUME NEW s \in Streams, Ask(s) PROVE MissInv'
  <2>1. phase[s] = "idle" /\ UNCHANGED <<wire, last, histories>>
    BY <1>1 DEF Ask
  <2>2. CASE s.multisig
    BY <1>1, <2>1, <2>2, MissQuiet DEF Ask, TypeInv, TypeOK
  <2>3. CASE ~s.multisig
    BY <1>1, <1>l, <2>1, <2>3, MissQuiet DEF Ask
  <2> QED
    BY <2>2, <2>3
<1>2. ASSUME NEW s \in Streams, NEW ok \in BOOLEAN, Answered(s, ok) PROVE MissInv'
  BY <1>2, <1>l, MissQuiet DEF Answered
<1>3. ASSUME NEW s \in Streams, Unresolved(s) PROVE MissInv'
  BY <1>3, MissQuiet DEF Unresolved, TypeInv, TypeOK
<1>4. ASSUME NEW s \in Streams, Unsubscribe(s) PROVE MissInv'
  BY <1>4, MissQuiet DEF Unsubscribe, TypeInv, TypeOK
<1>5. ASSUME NEW c \in Channels, NEW t \in Transactions, Report(c, t) PROVE MissInv'
  BY <1>5, MissReport
<1>6. CASE Receive
  BY <1>6, MissReceive
<1>7. CASE UNCHANGED vars
  BY <1>7, MissQuiet DEF vars
<1> QED
  BY <1>1, <1>2, <1>3, <1>4, <1>5, <1>6, <1>7 DEF Next

\* NothingShownIsMissed, for any streams and accounts and any number of reports: when all
\* messages are handled, a listening stream has emitted what it was sent as often as it was
\* sent, repetitions right after one another aside, if the transaction shows the account or
\* no other address is on the channel.
THEOREM NothingIsMissed == Spec => []NothingShownIsMissed
<1>1. TypeInv /\ MissInv => NothingShownIsMissed
  <2> SUFFICES ASSUME TypeInv, MissInv, wire = <<>>, NEW s \in Streams, NEW t \in Transactions,
                      phase[s] = "listening", ShownTo(s, t)
               PROVE  emitted[s][<<s.channel, t>>] + repeated[s][t] >= due[s][t]
    BY DEF NothingShownIsMissed
  <2>1. Len(wire) = 0 /\ View(s).wire = wire
    BY DEF View
  <2>2. emitted[s][<<s.channel, t>>] \in Nat /\ repeated[s][t] \in Nat /\ due[s][t] \in Nat
    BY CountTypes
  <2>3. CASE MatchesHash(s, t)
    <3>1. PICK left : Left(s, View(s), t, left) /\ Enough(s, t, left)
      BY <2>3 DEF MissInv, DueComes
    <3>2. left[1] = 0
      BY <2>1, <3>1 DEF Left
    <3>3. emitted[s][<<s.channel, t>>] + repeated[s][t] + left[1] >= due[s][t]
      BY <3>1 DEF Enough
    <3> QED
      BY <2>2, <3>2, <3>3
  <2>4. CASE ~MatchesHash(s, t)
    <3>1. ~(due[s][t] > 0)
      BY <2>4 DEF TypeInv, DueMatches
    <3> QED
      BY <2>2, <3>1
  <2> QED
    BY <2>3, <2>4
<1> QED
  BY <1>1, TypeInit, TypeStep, MissInit, MissStep, PTL DEF Spec

(* ----------------------------------------------------------------------- *)
(* The streams implement NotificationFeed.  The messages on the wire belong *)
(* to reports, which can be numbered: those of one report are next to each  *)
(* other and go to different addresses.                                     *)
About(m) == <<m.channel, m.transaction>>

Numbered(nth, w, r) ==
    /\ \A i \in 1..Len(w) : nth[i] \in Nat \ {0} /\ nth[i] <= r[About(w[i])]
    /\ \A i, j \in 1..Len(w) : i < j /\ About(w[i]) = About(w[j]) =>
          /\ nth[i] <= nth[j]
          /\ nth[i] = nth[j] => /\ w[i].address # w[j].address
                               /\ \A k \in i..j : About(w[k]) = About(w[i]) /\ nth[k] = nth[i]

(* A stream has emitted the report that is being received, and will not     *)
(* emit what is left of it: it is a repetition, or to another address.      *)
MidReport(s, i, nth, w, e, l) ==
    /\ e[s][About(w[i])] = nth[i]
    /\ \A j \in 1..i : About(w[j]) = About(w[i]) /\ nth[j] = nth[i]
    /\ IF DropsRepetitions(s) THEN l[s] = w[i].transaction
       ELSE \A j \in 1..i : w[j].address # s.owner

Counted(nth, w, e, l) ==
    \A s \in Streams : \A i \in 1..Len(w) :
       e[s][About(w[i])] < nth[i] \/ MidReport(s, i, nth, w, e, l)

CountInv ==
    /\ \A s \in Streams : \A n \in Notification : emitted[s][n] <= reported[n]
    /\ \E nth \in [1..Len(wire) -> Nat] : Numbered(nth, wire, reported) /\ Counted(nth, wire, emitted, last)

LEMMA CountInit == Init => CountInv
<1> SUFFICES ASSUME Init PROVE CountInv
  OBVIOUS
<1>1. Len(wire) = 0
  BY DEF Init
<1>2. [i \in 1..Len(wire) |-> 0] \in [1..Len(wire) -> Nat]
  OBVIOUS
<1>3. \A nth : Numbered(nth, wire, reported) /\ Counted(nth, wire, emitted, last)
  BY <1>1 DEF Numbered, Counted
<1>4. \A s \in Streams : \A n \in Notification : emitted[s][n] <= reported[n]
  BY DEF Init
<1> QED
  BY <1>2, <1>3, <1>4 DEF CountInv

LEMMA CountReport ==
    ASSUME TypeInv, CountInv, NEW c \in Channels, NEW t \in Transactions, Report(c, t)
    PROVE  CountInv'
<1> DEFINE S == Involved[t] \intersect served[c]
<1>1. S \in SUBSET Addresses
  BY AddressesAssumption
<1>2. PICK order \in SetToSeqs(S) : wire' = wire \o Messages(c, t, order)
  BY DEF Report, Messages
<1> DEFINE msgs == Messages(c, t, order)
           n == <<c, t>>
<1>3. /\ msgs \in Seq(Message) /\ Len(msgs) \in Nat
      /\ \A i \in 1..Len(msgs) : msgs[i] = [channel |-> c, address |-> order[i], transaction |-> t]
      /\ \A i, j \in 1..Len(msgs) : i # j => order[i] # order[j]
  <2> HIDE DEF S
  <2> QED
    BY <1>1, MessagesType
<1> HIDE DEF msgs, S
<1>4. /\ wire \in Seq(Message) /\ wire' = wire \o msgs /\ Len(wire) \in Nat
  BY <1>2 DEF msgs, TypeInv, TypeOK
<1>5. /\ Len(wire') = Len(wire) + Len(msgs)
      /\ \A i \in 1..Len(wire) : i \in 1..Len(wire') /\ wire'[i] = wire[i]
      /\ \A i \in 1..Len(msgs) : Len(wire) + i \in 1..Len(wire') /\ wire'[Len(wire) + i] = msgs[i]
  BY <1>3, <1>4, ConcatAt
<1>6. /\ n \in Notification /\ reported[n] \in Nat
      /\ reported' = [reported EXCEPT ![n] = @ + 1] /\ UNCHANGED <<emitted, last>>
  BY DEF Report, Notification, TypeInv, TypeOK
<1>7. /\ reported'[n] = reported[n] + 1
      /\ \A q \in Notification : reported[q] \in Nat /\ reported'[q] \in Nat /\ reported[q] <= reported'[q]
  <2>1. reported \in [Notification -> Nat]
    BY DEF TypeInv, TypeOK
  <2> HIDE DEF n
  <2>2. reported'[n] = reported[n] + 1
    BY <1>6, <2>1
  <2>3. ASSUME NEW q \in Notification
        PROVE  reported[q] \in Nat /\ reported'[q] \in Nat /\ reported[q] <= reported'[q]
    <3>1. CASE q = n
      BY <3>1, <1>6, <2>2
    <3>2. CASE q # n
      BY <3>2, <1>6, <2>1
    <3> QED
      BY <3>1, <3>2
  <2> QED
    BY <2>2, <2>3
<1>8. PICK nth \in [1..Len(wire) -> Nat] : Numbered(nth, wire, reported) /\ Counted(nth, wire, emitted, last)
  BY DEF CountInv
<1> DEFINE new == [i \in 1..Len(wire') |-> IF i <= Len(wire) THEN nth[i] ELSE reported[n] + 1]
<1>9. new \in [1..Len(wire') -> Nat]
  BY <1>3, <1>4, <1>5, <1>6
<1>10. \A i \in 1..Len(wire) : new[i] = nth[i] /\ wire'[i] = wire[i] /\ About(wire[i]) \in Notification
  <2> TAKE i \in 1..Len(wire)
  <2>1. wire[i] \in Message
    BY <1>4
  <2>2. i \in 1..Len(wire') /\ i <= Len(wire) /\ wire'[i] = wire[i]
    BY <1>4, <1>5
  <2> QED
    BY <2>1, <2>2 DEF About, Message, Notification
<1>11. ASSUME NEW i \in 1..Len(wire'), i > Len(wire)
       PROVE  /\ new[i] = reported[n] + 1 /\ About(wire'[i]) = n
              /\ i - Len(wire) \in 1..Len(msgs)
              /\ wire'[i].address = order[i - Len(wire)]
  <2>1. i - Len(wire) \in 1..Len(msgs)
    BY <1>3, <1>4, <1>5, <1>11
  <2>2. Len(wire) + (i - Len(wire)) = i
    BY <1>4, <1>11
  <2>3. wire'[i] = msgs[i - Len(wire)]
    BY <1>5, <2>1, <2>2
  <2>4. ~(i <= Len(wire))
    BY <1>4, <1>11
  <2>5. new[i] = reported[n] + 1
    BY <1>11, <2>4
  <2>6. wire'[i] = [channel |-> c, address |-> order[i - Len(wire)], transaction |-> t]
    BY <1>3, <2>1, <2>3
  <2>7. wire'[i].channel = c /\ wire'[i].transaction = t /\ wire'[i].address = order[i - Len(wire)]
    BY <2>6
  <2> QED
    BY <2>1, <2>5, <2>7 DEF About
<1>12. \A i \in 1..Len(wire') : i > Len(wire) \/ i \in 1..Len(wire)
  BY <1>4, <1>5
<1> HIDE DEF new, n
<1>13. Numbered(new, wire', reported')
  <2>1. ASSUME NEW i \in 1..Len(wire')
        PROVE  new[i] \in Nat \ {0} /\ new[i] <= reported'[About(wire'[i])]
    <3>1. CASE i \in 1..Len(wire)
      <4>1. nth[i] \in Nat \ {0} /\ nth[i] <= reported[About(wire[i])]
        BY <3>1, <1>8 DEF Numbered
      <4> DEFINE q == About(wire[i])
      <4>2. q \in Notification /\ new[i] = nth[i] /\ About(wire'[i]) = q
        BY <3>1, <1>10
      <4> HIDE DEF q
      <4>3. nth[i] <= reported[q]
        BY <4>1 DEF q
      <4> QED
        BY <4>1, <4>2, <4>3, <1>7
    <3>2. CASE i > Len(wire)
      <4>1. new[i] = reported[n] + 1 /\ About(wire'[i]) = n
        BY <3>2, <1>11
      <4>2. reported'[n] = reported[n] + 1 /\ reported[n] \in Nat
        BY <1>6, <1>7
      <4> QED
        BY <4>1, <4>2
    <3> QED
      BY <3>1, <3>2, <1>12
  <2>2. ASSUME NEW i \in 1..Len(wire'), NEW j \in 1..Len(wire'), i < j, About(wire'[i]) = About(wire'[j])
        PROVE  /\ new[i] <= new[j]
               /\ new[i] = new[j] => /\ wire'[i].address # wire'[j].address
                                    /\ \A k \in i..j : About(wire'[k]) = About(wire'[i]) /\ new[k] = new[i]
    <3>1. CASE j \in 1..Len(wire)
      <4>1. i \in 1..Len(wire) /\ \A k \in i..j : k \in 1..Len(wire)
        BY <3>1, <2>2, <1>4
      <4> QED
        BY <3>1, <4>1, <2>2, <1>8, <1>10 DEF Numbered
    <3>2. CASE j > Len(wire) /\ i \in 1..Len(wire)
      <4>1. About(wire[i]) = n /\ nth[i] \in Nat /\ nth[i] <= reported[n] /\ new[i] = nth[i]
        BY <3>2, <2>2, <1>8, <1>10, <1>11 DEF Numbered
      <4>2. new[j] = reported[n] + 1
        BY <3>2, <1>11
      <4> QED
        BY <4>1, <4>2, <1>6
    <3>3. CASE j > Len(wire) /\ i > Len(wire)
      <4>1. \A k \in i..j : k \in 1..Len(wire') /\ k > Len(wire)
        BY <3>3, <1>4
      <4>2. \A k \in i..j : new[k] = reported[n] + 1 /\ About(wire'[k]) = n
        BY <4>1, <1>11
      <4>3. i \in i..j /\ j \in i..j
        BY <2>2
      <4>4. i - Len(wire) # j - Len(wire)
        BY <2>2, <1>4
      <4>5. wire'[i].address # wire'[j].address
        <5>1. i - Len(wire) \in 1..Len(msgs) /\ wire'[i].address = order[i - Len(wire)]
          BY <3>3, <1>11
        <5>2. j - Len(wire) \in 1..Len(msgs) /\ wire'[j].address = order[j - Len(wire)]
          BY <3>3, <1>11
        <5> QED
          BY <4>4, <5>1, <5>2, <1>3
      <4> QED
        BY <4>2, <4>3, <4>5, <1>6
    <3> QED
      BY <3>1, <3>2, <3>3, <1>12
  <2> QED
    BY <2>1, <2>2 DEF Numbered
<1>14. Counted(new, wire', emitted', last')
  <2> SUFFICES ASSUME NEW s \in Streams, NEW i \in 1..Len(wire')
               PROVE  \/ emitted[s][About(wire'[i])] < new[i]
                      \/ MidReport(s, i, new, wire', emitted, last)
    BY <1>6 DEF Counted
  <2>1. CASE i \in 1..Len(wire)
    <3>1. \A j \in 1..i : j \in 1..Len(wire)
      BY <2>1, <1>4
    <3>2. i \in 1..i
      BY <2>1
    <3> HIDE DEF new
    <3>3. \A j \in 1..i : About(wire'[j]) = About(wire[j]) /\ wire'[j] = wire[j] /\ new[j] = nth[j]
      BY <3>1, <1>10
    <3>4. emitted[s][About(wire[i])] < nth[i] \/ MidReport(s, i, nth, wire, emitted, last)
      BY <2>1, <1>8 DEF Counted
    <3>5. CASE emitted[s][About(wire[i])] < nth[i]
      BY <3>2, <3>3, <3>5
    <3>6. CASE MidReport(s, i, nth, wire, emitted, last)
      <4>1. emitted[s][About(wire'[i])] = new[i]
        BY <3>2, <3>3, <3>6 DEF MidReport
      <4>2. \A j \in 1..i : About(wire'[j]) = About(wire'[i]) /\ new[j] = new[i]
        BY <3>2, <3>3, <3>6 DEF MidReport
      <4>3. IF DropsRepetitions(s) THEN last[s] = wire'[i].transaction
            ELSE \A j \in 1..i : wire'[j].address # s.owner
        BY <3>2, <3>3, <3>6 DEF MidReport
      <4> QED
        BY <4>1, <4>2, <4>3 DEF MidReport
    <3> QED
      BY <3>4, <3>5, <3>6
  <2>2. CASE i > Len(wire)
    <3>1. emitted[s][n] \in Nat /\ emitted[s][n] <= reported[n]
      BY <1>6 DEF CountInv, TypeInv, TypeOK
    <3> QED
      BY <2>2, <3>1, <1>6, <1>11
  <2> QED
    BY <2>1, <2>2, <1>12
<1>15. \A s \in Streams : \A q \in Notification : emitted'[s][q] <= reported'[q]
  <2> SUFFICES ASSUME NEW s \in Streams, NEW q \in Notification PROVE emitted'[s][q] <= reported'[q]
    OBVIOUS
  <2>1. emitted[s][q] \in Nat /\ emitted'[s][q] = emitted[s][q] /\ emitted[s][q] <= reported[q]
    BY <1>6 DEF CountInv, TypeInv, TypeOK
  <2> QED
    BY <2>1, <1>7
<1> QED
  BY <1>9, <1>13, <1>14, <1>15 DEF CountInv

(* Only a stream of cosignatures could be sent one report several times and *)
(* not tell; one without its multisig accounts has a single address.        *)
CosignaturesPlain == \A s \in Streams : ~DropsRepetitions(s) => ~s.multisig

LEMMA ReceiveFacts ==
    ASSUME TypeInv, CosignaturesPlain, Receive,
           NEW nth \in [1..Len(wire) -> Nat], Numbered(nth, wire, reported), Counted(nth, wire, emitted, last)
    PROVE  /\ Len(wire) \in Nat \ {0} /\ wire[1] \in Message /\ About(wire[1]) \in Notification
           /\ Len(wire') = Len(wire) - 1
           /\ \A i \in 1..Len(wire') : i + 1 \in 1..Len(wire) /\ wire'[i] = wire[i + 1]
           /\ UNCHANGED <<phase, subscribers, served, reported, due, latest, repeated>>
           /\ \A s \in Streams :
                IF Emits(s, wire[1])
                THEN /\ emitted'[s] = [emitted[s] EXCEPT ![About(wire[1])] = @ + 1]
                     /\ emitted[s][About(wire[1])] < nth[1]
                     /\ IF DropsRepetitions(s) THEN last'[s] = wire[1].transaction
                        ELSE wire[1].address = s.owner
                ELSE emitted'[s] = emitted[s] /\ last'[s] \in {last[s], wire[1].transaction}
<1>1. /\ wire \in Seq(Message) /\ wire # <<>> /\ wire' = Tail(wire)
  BY DEF Receive, TypeInv, TypeOK
<1>2. /\ Len(wire) \in Nat \ {0} /\ Head(wire) = wire[1] /\ wire[1] \in Message /\ 1 \in 1..Len(wire)
      /\ Len(wire') = Len(wire) - 1
      /\ \A i \in 1..Len(wire') : i + 1 \in 1..Len(wire) /\ wire'[i] = wire[i + 1]
  BY <1>1
<1>3. About(wire[1]) \in Notification
  BY <1>2 DEF About, Message, Notification
<1>4. /\ last' = [s \in Streams |-> IF phase[s] = "listening" /\ DropsRepetitions(s) /\ Distinct(s, wire[1])
                                   THEN wire[1].transaction ELSE last[s]]
      /\ emitted' = [s \in Streams |-> IF Emits(s, wire[1])
                                      THEN [emitted[s] EXCEPT ![About(wire[1])] = @ + 1]
                                      ELSE emitted[s]]
      /\ UNCHANGED <<phase, subscribers, served, reported, due, latest, repeated>>
  BY <1>2 DEF Receive, About
<1>5. ASSUME NEW s \in Streams, Emits(s, wire[1])
      PROVE  /\ emitted'[s] = [emitted[s] EXCEPT ![About(wire[1])] = @ + 1]
             /\ emitted[s][About(wire[1])] < nth[1]
             /\ IF DropsRepetitions(s) THEN last'[s] = wire[1].transaction ELSE wire[1].address = s.owner
  <2>1. emitted'[s] = [emitted[s] EXCEPT ![About(wire[1])] = @ + 1]
    BY <1>4, <1>5
  <2>2. CASE DropsRepetitions(s)
    <3>1. last'[s] = wire[1].transaction
      BY <1>4, <1>5, <2>2 DEF Emits
    <3>2. last[s] # wire[1].transaction
      BY <1>5, <2>2 DEF Emits, Distinct, Repeats
    <3>3. ~MidReport(s, 1, nth, wire, emitted, last)
      BY <2>2, <3>2 DEF MidReport
    <3> QED
      BY <2>1, <2>2, <3>1, <3>3, <1>2 DEF Counted
  <2>3. CASE ~DropsRepetitions(s)
    <3>1. wire[1].address \in subscribers[s]
      BY <1>5, <2>3 DEF Emits, Wanted, DropsRepetitions
    <3>2. wire[1].address = s.owner
      BY <2>3, <3>1 DEF CosignaturesPlain, TypeInv, Asked
    <3>3. ~MidReport(s, 1, nth, wire, emitted, last)
      BY <2>3, <3>2 DEF MidReport
    <3> QED
      BY <2>1, <2>3, <3>2, <3>3, <1>2 DEF Counted
  <2> QED
    BY <2>2, <2>3
<1>6. ASSUME NEW s \in Streams, ~Emits(s, wire[1])
      PROVE  emitted'[s] = emitted[s] /\ last'[s] \in {last[s], wire[1].transaction}
  BY <1>4, <1>6
<1> QED
  BY <1>2, <1>3, <1>4, <1>5, <1>6

LEMMA CountReceive ==
    ASSUME TypeInv, CosignaturesPlain, CountInv, Receive
    PROVE  CountInv'
<1>1. PICK nth \in [1..Len(wire) -> Nat] : Numbered(nth, wire, reported) /\ Counted(nth, wire, emitted, last)
  BY DEF CountInv
<1> DEFINE n == About(wire[1])
           new == [i \in 1..Len(wire') |-> nth[i + 1]]
<1>2. /\ Len(wire) \in Nat \ {0} /\ n \in Notification
      /\ Len(wire') = Len(wire) - 1
      /\ \A i \in 1..Len(wire') : i + 1 \in 1..Len(wire) /\ wire'[i] = wire[i + 1]
      /\ UNCHANGED <<phase, subscribers, served, reported, due, latest, repeated>>
  BY <1>1, ReceiveFacts
<1>3. \A s \in Streams :
         IF Emits(s, wire[1])
         THEN /\ emitted'[s] = [emitted[s] EXCEPT ![n] = @ + 1]
              /\ emitted[s][n] < nth[1]
              /\ IF DropsRepetitions(s) THEN last'[s] = wire[1].transaction ELSE wire[1].address = s.owner
         ELSE emitted'[s] = emitted[s] /\ last'[s] \in {last[s], wire[1].transaction}
  BY <1>1, ReceiveFacts
<1>4. new \in [1..Len(wire') -> Nat] /\ \A i \in 1..Len(wire') : new[i] = nth[i + 1]
  BY <1>2
<1>5. /\ 1 \in 1..Len(wire) /\ nth[1] \in Nat /\ nth[1] <= reported[n] /\ reported[n] \in Nat
  BY <1>1, <1>2 DEF Numbered, TypeInv, TypeOK
<1> HIDE DEF new
<1>6. Numbered(new, wire', reported')
  <2>1. ASSUME NEW i \in 1..Len(wire')
        PROVE  new[i] \in Nat \ {0} /\ new[i] <= reported'[About(wire'[i])]
    BY <1>1, <1>2, <1>4 DEF Numbered
  <2>2. ASSUME NEW i \in 1..Len(wire'), NEW j \in 1..Len(wire'), i < j, About(wire'[i]) = About(wire'[j])
        PROVE  /\ new[i] <= new[j]
               /\ new[i] = new[j] => /\ wire'[i].address # wire'[j].address
                                    /\ \A k \in i..j : About(wire'[k]) = About(wire'[i]) /\ new[k] = new[i]
    <3>1. /\ i + 1 \in 1..Len(wire) /\ j + 1 \in 1..Len(wire) /\ i + 1 < j + 1
          /\ About(wire[i + 1]) = About(wire[j + 1])
      <4>1. wire'[i] = wire[i + 1] /\ wire'[j] = wire[j + 1]
        BY <1>2
      <4>2. i + 1 \in 1..Len(wire) /\ j + 1 \in 1..Len(wire) /\ i + 1 < j + 1
        BY <1>2, <2>2
      <4> QED
        BY <2>2, <4>1, <4>2
    <3>2. /\ nth[i + 1] <= nth[j + 1]
          /\ nth[i + 1] = nth[j + 1] =>
               /\ wire[i + 1].address # wire[j + 1].address
               /\ \A k \in (i + 1)..(j + 1) : About(wire[k]) = About(wire[i + 1]) /\ nth[k] = nth[i + 1]
      BY <3>1, <1>1 DEF Numbered
    <3>3. ASSUME NEW k \in i..j PROVE k \in 1..Len(wire') /\ k + 1 \in (i + 1)..(j + 1)
      BY <1>2
    <3> QED
      BY <3>2, <3>3, <1>2, <1>4
  <2> QED
    BY <2>1, <2>2 DEF Numbered
<1>7. Counted(new, wire', emitted', last')
  <2> SUFFICES ASSUME NEW s \in Streams, NEW i \in 1..Len(wire'),
                      ~(emitted'[s][About(wire'[i])] < new[i])
               PROVE  MidReport(s, i, new, wire', emitted', last')
    BY DEF Counted
  <2> DEFINE q == About(wire[i + 1])
  <2>1. /\ i + 1 \in 1..Len(wire) /\ wire'[i] = wire[i + 1] /\ new[i] = nth[i + 1] /\ nth[i + 1] \in Nat
        /\ emitted[s][q] < nth[i + 1] \/ MidReport(s, i + 1, nth, wire, emitted, last)
    BY <1>1, <1>2, <1>4 DEF Counted
  <2>2. q \in Notification /\ emitted[s] \in [Notification -> Nat]
    <3>1. wire[i + 1] \in Message
      BY <2>1 DEF TypeInv, TypeOK
    <3> QED
      BY <3>1 DEF TypeInv, TypeOK, About, Message, Notification
  <2>3. \A j \in 1..i : j \in 1..Len(wire') /\ j + 1 \in 1..(i + 1) /\ wire'[j] = wire[j + 1] /\ new[j] = nth[j + 1]
    <3> SUFFICES ASSUME NEW j \in 1..i
                 PROVE  j \in 1..Len(wire') /\ j + 1 \in 1..(i + 1) /\ wire'[j] = wire[j + 1] /\ new[j] = nth[j + 1]
      OBVIOUS
    <3>1. j \in 1..Len(wire') /\ j + 1 \in 1..(i + 1)
      BY <1>2
    <3> QED
      BY <3>1, <1>2, <1>4
  <2>4. CASE MidReport(s, i + 1, nth, wire, emitted, last)
    <3>1. /\ emitted[s][q] = nth[i + 1]
          /\ \A j \in 1..(i + 1) : About(wire[j]) = q /\ nth[j] = nth[i + 1]
          /\ IF DropsRepetitions(s) THEN last[s] = wire[i + 1].transaction
             ELSE \A j \in 1..(i + 1) : wire[j].address # s.owner
      BY <2>4 DEF MidReport
    <3>2. 1 \in 1..(i + 1)
      OBVIOUS
    <3>3. q = n /\ wire[1].transaction = wire[i + 1].transaction
      BY <3>1, <3>2 DEF About
    <3>4. ~Emits(s, wire[1])
      <4>1. nth[1] = nth[i + 1] /\ emitted[s][n] = nth[1]
        BY <3>1, <3>2, <3>3
      <4>2. ~(emitted[s][n] < nth[1])
        BY <4>1, <1>5
      <4> QED
        BY <4>2, <1>3
    <3>5. emitted'[s] = emitted[s] /\ last'[s] \in {last[s], wire[1].transaction}
      BY <3>4, <1>3
    <3> QED
      BY <3>1, <3>3, <3>5, <2>1, <2>3 DEF MidReport
  <2>5. CASE emitted[s][q] < nth[i + 1]
    <3>1. Emits(s, wire[1]) /\ q = n
      <4>1. ~(emitted'[s][q] < nth[i + 1])
        BY <2>1
      <4>2. emitted'[s] # emitted[s]
        BY <4>1, <2>5
      <4>3. Emits(s, wire[1]) /\ emitted'[s] = [emitted[s] EXCEPT ![n] = @ + 1]
        BY <4>2, <1>3
      <4>4. q # n => emitted'[s][q] = emitted[s][q]
        BY <4>3, <2>2
      <4> QED
        BY <4>1, <4>3, <4>4, <2>5
    <3>2. /\ emitted'[s][n] = emitted[s][n] + 1 /\ emitted[s][n] < nth[1]
          /\ IF DropsRepetitions(s) THEN last'[s] = wire[1].transaction ELSE wire[1].address = s.owner
      BY <3>1, <2>2, <1>3
    <3>3. nth[1] <= nth[i + 1]
      BY <3>1, <2>1, <1>1, <1>5 DEF Numbered
    <3>4. nth[1] = nth[i + 1] /\ emitted'[s][n] = nth[i + 1]
      BY <3>1, <3>2, <3>3, <2>1, <2>2, <1>5
    <3>5. ASSUME NEW j \in 1..(i + 1) PROVE About(wire[j]) = n /\ nth[j] = nth[i + 1]
      BY <3>1, <3>4, <2>1, <1>1, <1>5 DEF Numbered
    <3>6. ASSUME NEW j \in 2..(i + 1) PROVE wire[j].address # wire[1].address
      <4>1. 1 < j /\ 1 \in 1..Len(wire) /\ j \in 1..Len(wire) /\ j \in 1..(i + 1)
        BY <2>1
      <4>2. About(wire[1]) = About(wire[j]) /\ nth[1] = nth[j]
        BY <4>1, <3>4, <3>5
      <4>3. wire[1].address # wire[j].address
        BY <4>1, <4>2, <1>1 DEF Numbered
      <4> QED
        BY <4>3
    <3>7. wire[1].transaction = wire[i + 1].transaction
      BY <3>1 DEF About
    <3>8. \A j \in 1..i : j + 1 \in 2..(i + 1)
      OBVIOUS
    <3>9. emitted'[s][About(wire'[i])] = new[i]
      BY <3>1, <3>4, <2>1
    <3>10. \A j \in 1..i : About(wire'[j]) = About(wire'[i]) /\ new[j] = new[i]
      BY <3>1, <3>5, <2>1, <2>3
    <3>11. CASE DropsRepetitions(s)
      <4>1. last'[s] = wire'[i].transaction
        BY <3>2, <3>7, <3>11, <2>1
      <4> QED
        BY <4>1, <3>9, <3>10, <3>11 DEF MidReport
    <3>12. CASE ~DropsRepetitions(s)
      <4>1. \A j \in 1..i : wire'[j].address # s.owner
        BY <3>2, <3>6, <3>8, <3>12, <2>3
      <4> QED
        BY <4>1, <3>9, <3>10, <3>12 DEF MidReport
    <3> QED
      BY <3>11, <3>12
  <2> QED
    BY <2>1, <2>4, <2>5
<1>8. ASSUME NEW s \in Streams, NEW q \in Notification PROVE emitted'[s][q] <= reported'[q]
  <2>1. emitted[s] \in [Notification -> Nat] /\ reported[q] \in Nat /\ emitted[s][q] <= reported[q]
    BY DEF CountInv, TypeInv, TypeOK
  <2>2. reported'[q] = reported[q]
    BY <1>2
  <2>3. CASE Emits(s, wire[1]) /\ q = n
    <3>1. emitted'[s][q] = emitted[s][q] + 1 /\ emitted[s][q] < nth[1] /\ nth[1] <= reported[q]
      BY <2>1, <2>3, <1>3, <1>5
    <3> QED
      BY <3>1, <2>1, <2>2, <1>5
  <2>4. CASE Emits(s, wire[1]) /\ q # n
    <3>1. emitted'[s][q] = emitted[s][q]
      BY <2>1, <2>4, <1>3
    <3> QED
      BY <3>1, <2>1, <2>2
  <2>5. CASE ~Emits(s, wire[1])
    <3>1. emitted'[s] = emitted[s]
      BY <2>5, <1>3
    <3> QED
      BY <3>1, <2>1, <2>2
  <2> QED
    BY <2>3, <2>4, <2>5
<1> QED
  BY <1>4, <1>6, <1>7, <1>8 DEF CountInv

LEMMA CountStep ==
    ASSUME CosignaturesPlain
    PROVE  TypeInv /\ CountInv /\ [Next]_vars => CountInv'
<1> SUFFICES ASSUME TypeInv, CountInv, [Next]_vars PROVE CountInv'
  OBVIOUS
<1>1. ASSUME UNCHANGED <<wire, emitted, reported, last>> PROVE CountInv'
  BY <1>1 DEF CountInv
<1>2. ASSUME NEW s \in Streams, Ask(s) \/ Unresolved(s) \/ Unsubscribe(s) PROVE CountInv'
  BY <1>1, <1>2 DEF Ask, Unresolved, Unsubscribe, histories
<1>3. ASSUME NEW s \in Streams, NEW ok \in BOOLEAN, Answered(s, ok) PROVE CountInv'
  BY <1>1, <1>3 DEF Answered, histories
<1>4. ASSUME NEW c \in Channels, NEW t \in Transactions, Report(c, t) PROVE CountInv'
  BY <1>4, CountReport
<1>5. CASE Receive
  BY <1>5, CountReceive
<1>6. CASE UNCHANGED vars
  BY <1>1, <1>6 DEF vars, histories
<1> QED
  BY <1>2, <1>3, <1>4, <1>5, <1>6 DEF Next

LEMMA FeedInit == Init => Feed!Init
BY DEF Init, Feed!Init

(* What a stream emits it asked for: the message came on its channel, has    *)
(* its hash, and goes to an account it subscribed or is recognised as its    *)
(* account's; either way the account is involved.                           *)
LEMMA EmittedWasAsked ==
    ASSUME TypeInv, NEW m \in Message, m.address \in Involved[m.transaction],
           NEW s \in Streams, Emits(s, m)
    PROVE  AskedFor(s, About(m))
<1>1. m.channel = s.channel /\ Wanted(s, m)
  BY DEF Emits, Distinct, OnChannel
<1>2. MatchesHash(s, m.transaction)
  BY <1>1 DEF Wanted
<1>3. subscribers[s] \subseteq {s.owner} \union (IF s.multisig THEN MultisigOf[s.owner] ELSE {})
  BY DEF TypeInv, Asked
<1>4. m.address \in subscribers[s] \/ s.owner \in Recognised[m.transaction]
  BY <1>1 DEF Wanted, ForAccount
<1>5. Recognised[m.transaction] \subseteq Involved[m.transaction]
  BY AddressesAssumption DEF Message
<1>6. Involved[m.transaction] \intersect
        ({s.owner} \union IF s.multisig THEN MultisigOf[s.owner] ELSE {}) # {}
  BY <1>3, <1>4, <1>5
<1> QED
  BY <1>1, <1>2, <1>6 DEF AskedFor, About

LEMMA FeedStep ==
    ASSUME CosignaturesPlain
    PROVE  TypeInv /\ CountInv /\ [Next]_vars => [Feed!Next]_<<reported, emitted>>
<1> SUFFICES ASSUME TypeInv, CountInv, [Next]_vars PROVE [Feed!Next]_<<reported, emitted>>
  OBVIOUS
<1>1. ASSUME NEW s \in Streams, Ask(s) \/ Unresolved(s) \/ Unsubscribe(s)
      PROVE  UNCHANGED <<reported, emitted>>
  BY <1>1 DEF Ask, Unresolved, Unsubscribe, histories
<1>2. ASSUME NEW s \in Streams, NEW ok \in BOOLEAN, Answered(s, ok)
      PROVE  UNCHANGED <<reported, emitted>>
  BY <1>2 DEF Answered, histories
<1>3. ASSUME NEW c \in Channels, NEW t \in Transactions, Report(c, t) PROVE Feed!Next
  <2>1. <<c, t>> \in Notification /\ Feed!Report(<<c, t>>)
    BY <1>3 DEF Report, Feed!Report, Notification
  <2> QED
    BY <2>1 DEF Feed!Next
<1>4. ASSUME Receive PROVE Feed!Next
  <2>1. PICK nth \in [1..Len(wire) -> Nat] : Numbered(nth, wire, reported) /\ Counted(nth, wire, emitted, last)
    BY DEF CountInv
  <2> DEFINE n == About(wire[1])
  <2>2. /\ wire[1] \in Message /\ n \in Notification /\ 1 \in 1..Len(wire)
        /\ UNCHANGED reported
        /\ \A s \in Streams :
             IF Emits(s, wire[1])
             THEN emitted'[s] = [emitted[s] EXCEPT ![n] = @ + 1] /\ emitted[s][n] < nth[1]
             ELSE emitted'[s] = emitted[s]
    <3>1. /\ Len(wire) \in Nat \ {0} /\ wire[1] \in Message /\ n \in Notification
          /\ UNCHANGED reported
      BY <1>4, <2>1, ReceiveFacts
    <3>2. ASSUME NEW s \in Streams
          PROVE  IF Emits(s, wire[1])
                 THEN emitted'[s] = [emitted[s] EXCEPT ![n] = @ + 1] /\ emitted[s][n] < nth[1]
                 ELSE emitted'[s] = emitted[s]
      BY <1>4, <2>1, ReceiveFacts
    <3> QED
      BY <3>1, <3>2
  <2>3. nth[1] \in Nat /\ nth[1] <= reported[n] /\ reported[n] \in Nat
    BY <2>1, <2>2 DEF Numbered, TypeInv, TypeOK
  <2>4. wire[1].address \in Involved[wire[1].transaction]
    BY <2>2 DEF TypeInv, Sent
  <2>5. ASSUME NEW s \in Streams
        PROVE  \/ emitted'[s] = emitted[s]
               \/ /\ AskedFor(s, n) /\ emitted[s][n] < reported[n]
                  /\ emitted'[s] = [emitted[s] EXCEPT ![n] = @ + 1]
    <3>1. CASE Emits(s, wire[1])
      <4>1. emitted[s][n] \in Nat /\ emitted[s][n] < nth[1]
        <5>1. emitted[s] \in [Notification -> Nat]
          BY DEF TypeInv, TypeOK
        <5> QED
          BY <5>1, <3>1, <2>2
      <4>2. emitted[s][n] < reported[n]
        BY <4>1, <2>3
      <4> QED
        BY <3>1, <4>2, <2>2, <2>4, EmittedWasAsked
    <3> QED
      BY <3>1, <2>2
  <2>6. emitted' \in [Streams -> [Notification -> Nat]]
    <3>1. TypeInv'
      BY TypeStep
    <3> QED
      BY <3>1 DEF TypeInv, TypeOK
  <2>7. Feed!Emit(n)
    BY <2>2, <2>5, <2>6 DEF Feed!Emit
  <2> QED
    BY <2>2, <2>7 DEF Feed!Next
<1>5. CASE UNCHANGED vars
  BY <1>5 DEF vars, histories
<1> QED
  BY <1>1, <1>2, <1>3, <1>4, <1>5 DEF Next

(* Streams that ask for no cosignatures of multisig accounts implement      *)
(* NotificationFeed: each emits only what it asked for, and no more often   *)
(* than the node reported it (transactionSubscription,                      *)
(* transactionHashSubscription, and the filters of the other streams).      *)
THEOREM StreamsImplementFeed == CosignaturesPlain => (Spec => ImplementsFeed)
<1> SUFFICES ASSUME CosignaturesPlain PROVE Spec => ImplementsFeed
  OBVIOUS
<1>1. Init => TypeInv /\ CountInv /\ Feed!Init
  BY TypeInit, CountInit, FeedInit
<1>2. TypeInv /\ CountInv /\ [Next]_vars => (TypeInv /\ CountInv)'
  BY TypeStep, CountStep
<1>3. TypeInv /\ CountInv /\ [Next]_vars => [Feed!Next]_<<reported, emitted>>
  BY FeedStep
<1> QED
  BY <1>1, <1>2, <1>3, PTL DEF Spec, ImplementsFeed, Feed!Spec
=============================================================================
