----------------------- MODULE ListenerConnection_proofs ------------------------
(* Proofs, for any number of open() calls and streams, of the safety        *)
(* properties of ListenerConnection.                                        *)
EXTENDS ListenerConnection, TLAPS

(* A socket exists except in the initial state; while it connects, the call *)
(* that created it has no answer; when it closes, one side began to.        *)
ConnectingPends == /\ readyState = "NONE" <=> socket = 0
                   /\ readyState = "CONNECTING" => promise[opener] = "pending"
                   /\ readyState = "CLOSING" => closer # "nobody"

(* The connection part of the type invariant, with what makes it inductive. *)
SocketInv == SocketType /\ ConnectingPends

LEMMA SettleIsPointwise ==
    ASSUME SocketType, NEW o \in Opens, NEW how \in {"resolved", "rejected"}
    PROVE  /\ Settle(o, how) \in [Opens -> {"none", "pending", "resolved", "rejected"}]
           /\ \A p \in Opens : p # o => Settle(o, how)[p] = promise[p]
           /\ Settle(o, how)[o] = IF promise[o] = "pending" THEN how ELSE promise[o]
BY DEF SocketType, Settle

LEMMA OpenerIsACall == SocketInv /\ readyState # "NONE" => opener \in Opens
BY DEF SocketInv, SocketType, ConnectingPends

LEMMA SocketInvStep == SocketInv /\ [Next]_vars => SocketInv'
<1> SUFFICES ASSUME SocketInv, [Next]_vars PROVE SocketInv'
  OBVIOUS
<1> USE NoOpenAssumption DEF SocketInv, ConnectingPends
<1>1. ASSUME NEW o \in Opens, OpenAgain(o) PROVE SocketInv'
  BY <1>1 DEF OpenAgain, SocketType, networkVars
<1>2. ASSUME NEW o \in Opens, NEW cb \in BOOLEAN, OpenNew(o, cb) PROVE SocketInv'
  BY <1>2 DEF OpenNew, SocketType, Handlers, OpenReturns
<1>3. CASE Close
  BY <1>3, OpenerIsACall, SettleIsPointwise DEF Close, SocketType
<1>4. ASSUME NEW s \in Streams, Subscribe(s) PROVE SocketInv'
  BY <1>4 DEF Subscribe, SocketType
<1>5. CASE Established
  BY <1>5 DEF Established, SocketType, OnOpen
<1>6. CASE ReceiveUid
  BY <1>6, OpenerIsACall, SettleIsPointwise DEF ReceiveUid, SocketType, GreetedUid
<1>7. CASE ConnectFails
  BY <1>7, OpenerIsACall, SettleIsPointwise DEF ConnectFails, SocketType
<1>8. ASSUME NEW err \in BOOLEAN, Drop(err) PROVE SocketInv'
  BY <1>8, OpenerIsACall, SettleIsPointwise DEF Drop, SocketType
<1>9. CASE Closed
  BY <1>9, OpenerIsACall, SettleIsPointwise DEF Closed, SocketType
<1>10. CASE GatewaySubscribes
  BY <1>10 DEF GatewaySubscribes, SocketType, clientVars
<1>11. CASE UNCHANGED vars
  BY <1>11 DEF vars, clientVars, networkVars, SocketType
<1> QED BY <1>1, <1>2, <1>3, <1>4, <1>5, <1>6, <1>7, <1>8, <1>9, <1>10, <1>11
        DEF Next, Client, Network

LEMMA FlagTypeStep == FlagType /\ [Next]_vars => FlagType'
<1> SUFFICES ASSUME FlagType, [Next]_vars PROVE FlagType'
  OBVIOUS
<1> USE DEF FlagType
<1>1. ASSUME NEW o \in Opens, NEW cb \in BOOLEAN, OpenNew(o, cb) PROVE FlagType'
  BY <1>1 DEF OpenNew
<1>2. CASE Close
  BY <1>2 DEF Close, RaisedSIGINT
<1>3. CASE Established \/ ReceiveUid \/ Closed
  BY <1>3 DEF Established, ReceiveUid, Closed
<1>4. CASE UNCHANGED <<callback, SIGINT, greeting>>
  BY <1>4
<1> QED BY <1>1, <1>2, <1>3, <1>4
        DEF Next, Client, Network, OpenAgain, Subscribe, ConnectFails, Drop,
            GatewaySubscribes, vars, clientVars, networkVars

LEMMA QueueTypes ==
    ASSUME NEW S, NEW q \in Seq(S)
    PROVE  /\ \A e \in S : Append(q, e) \in Seq(S)
           /\ q # <<>> => Head(q) \in S /\ Tail(q) \in Seq(S)
OBVIOUS

LEMMA StreamTypeStep == SocketType /\ StreamType /\ [Next]_vars => StreamType'
<1> SUFFICES ASSUME SocketType, StreamType, [Next]_vars PROVE StreamType'
  OBVIOUS
<1> USE DEF StreamType
<1>1. ASSUME NEW s \in Streams, Subscribe(s) PROVE StreamType'
  <2>1. stream' \in [Streams -> {"none", "failed", "live"}] /\ accepted' = accepted
    <3>1. PICK how \in {"failed", "live"} : stream' = [stream EXCEPT ![s] = how]
      BY <1>1 DEF Subscribe
    <3> QED BY <1>1, <3>1 DEF Subscribe
  <2>2. awaited' \in [Streams -> Nat]
    <3>1. awaited' = [awaited EXCEPT ![s] = socket] \/ awaited' = awaited
      BY <1>1 DEF Subscribe
    <3> QED BY <3>1 DEF SocketType
  <2>3. [uid |-> uid, stream |-> s] \in SubscribeMessage
    BY DEF SocketType, SubscribeMessage
  <2>4. outbound' = outbound \/ outbound' = Append(outbound, [uid |-> uid, stream |-> s])
    BY <1>1 DEF Subscribe
  <2>5. outbound' \in Seq(SubscribeMessage)
    BY <2>3, <2>4, QueueTypes
  <2> QED BY <2>1, <2>2, <2>5
<1>2. CASE GatewaySubscribes
  <2>1. Head(outbound) \in SubscribeMessage /\ outbound' \in Seq(SubscribeMessage)
    BY <1>2, QueueTypes DEF GatewaySubscribes
  <2>2. accepted' \in SUBSET Streams
    BY <1>2, <2>1 DEF GatewaySubscribes, SubscribeMessage
  <2> QED BY <1>2, <2>1, <2>2 DEF GatewaySubscribes, clientVars, histories
<1>3. ASSUME NEW o \in Opens, NEW cb \in BOOLEAN, OpenNew(o, cb) PROVE StreamType'
  BY <1>3 DEF OpenNew, histories
<1>4. CASE Closed
  BY <1>4 DEF Closed
<1>5. CASE UNCHANGED <<outbound, accepted, stream, awaited>>
  BY <1>5
<1> QED BY <1>1, <1>2, <1>3, <1>4, <1>5
        DEF Next, Client, Network, OpenAgain, Close, Established, ReceiveUid,
            ConnectFails, Drop, vars, clientVars, networkVars, histories

States    == {"NONE", "CONNECTING", "OPEN", "CLOSING", "CLOSED"}
Connected == [socket : Nat, state : States]

\* What a step may do to the history of resolved promises.
LEMMA ResolvedIsNoted ==
    ASSUME SocketInv, LogType, [Next]_vars
    PROVE  /\ resolved' \in [Opens -> Connected]
           /\ \A o \in Opens : resolved'[o] # resolved[o] =>
                /\ promise[o] # "resolved" /\ promise'[o] = "resolved"
                /\ resolved'[o] = [socket |-> socket', state |-> readyState]
           /\ \A o \in Opens : promise[o] # "resolved" /\ promise'[o] = "resolved" =>
                resolved'[o] = [socket |-> socket', state |-> readyState]
<1> USE DEF SocketInv, SocketType, LogType, Connected, States
<1>1. ASSUME ResolvedOn(socket')
      PROVE  /\ resolved' \in [Opens -> Connected]
             /\ \A o \in Opens : resolved'[o] =
                  IF promise[o] # "resolved" /\ promise'[o] = "resolved"
                  THEN [socket |-> socket', state |-> readyState] ELSE resolved[o]
  <2>1. socket' \in Nat
    BY SocketInvStep
  <2> QED BY <1>1, <2>1 DEF ResolvedOn
<1>2. ASSUME NEW o \in Opens, NEW cb \in BOOLEAN, OpenNew(o, cb) PROVE ResolvedOn(socket')
  BY <1>2 DEF OpenNew
<1>3. ASSUME NEW o \in Opens, OpenAgain(o) PROVE ResolvedOn(socket')
  BY <1>3 DEF OpenAgain
<1>4. CASE Established \/ ReceiveUid
  <2>1. ResolvedOn(socket')
    BY <1>4 DEF Established, ReceiveUid
  <2> QED BY <1>1, <2>1
<1>5. ASSUME UNCHANGED resolved,
             \A o \in Opens : promise'[o] = "resolved" => promise[o] = "resolved"
      PROVE  /\ resolved' \in [Opens -> Connected]
             /\ \A o \in Opens : promise[o] # "resolved" => promise'[o] # "resolved"
  BY <1>5
<1>6. CASE Close \/ ConnectFails \/ Closed \/ \E err \in BOOLEAN : Drop(err)
  <2>1. UNCHANGED resolved /\ (promise' = promise \/ promise' = Settle(opener, "rejected"))
    BY <1>6 DEF Close, ConnectFails, Closed, Drop, histories
  <2>2. \A o \in Opens : promise'[o] = "resolved" => promise[o] = "resolved"
    BY <2>1 DEF Settle
  <2> QED BY <1>5, <2>1, <2>2
<1>7. CASE UNCHANGED <<promise, resolved>>
  BY <1>5, <1>7
<1> QED BY <1>1, <1>2, <1>3, <1>4, <1>6, <1>7
        DEF Next, Client, Network, Subscribe, GatewaySubscribes, vars, clientVars, histories

LEMMA LogTypeStep == SocketInv /\ FlagType /\ LogType /\ [Next]_vars => LogType'
<1> SUFFICES ASSUME SocketInv, FlagType, LogType, [Next]_vars PROVE LogType'
  OBVIOUS
<1>0. resolved' \in [Opens -> Connected]
  BY ResolvedIsNoted
<1>1. ASSUME NEW by \in {"client", "peer"}, readyState # "NONE", Log(by) PROVE LogType'
  BY <1>0, <1>1, OpenerIsACall
     DEF Log, LogType, CloseEvent, CloseReport, SocketInv, SocketType, FlagType,
         Connected, States
<1>2. CASE ConnectFails
  BY <1>1, <1>2 DEF ConnectFails
<1>3. CASE Closed
  BY <1>1, <1>3 DEF Closed, SocketInv, ConnectingPends, SocketType
<1>4. CASE UNCHANGED closeLog
  BY <1>0, <1>4 DEF LogType, Connected, States
<1> QED BY <1>2, <1>3, <1>4
        DEF Next, Client, Network, OpenAgain, OpenNew, Close, Subscribe, Established,
            ReceiveUid, Drop, GatewaySubscribes, vars, histories

LEMMA InitTyped == Init => TypeOK /\ ConnectingPends
<1> SUFFICES ASSUME Init PROVE TypeOK /\ ConnectingPends
  OBVIOUS
<1>1. SocketType /\ ConnectingPends
  BY DEF Init, SocketType, ConnectingPends
<1>2. FlagType
  BY DEF Init, FlagType
<1>3. StreamType
  BY DEF Init, StreamType
<1>4. LogType
  BY DEF Init, LogType
<1> QED BY <1>1, <1>2, <1>3, <1>4 DEF TypeOK

Typed == TypeOK /\ ConnectingPends

LEMMA TypedStep == Typed /\ [Next]_vars => Typed'
BY SocketInvStep, FlagTypeStep, StreamTypeStep, LogTypeStep DEF Typed, TypeOK, SocketInv

\* Whatever the client calls and the network does, every variable of the Listener
\* keeps its type, the uid is never ahead of the sockets, and each socket's
\* handlers belong to an open() call (Listener.open, close, handleMessage).
THEOREM TypeCorrect == Spec => []TypeOK
<1>1. Init => Typed
  BY InitTyped DEF Typed
<1>2. Typed => TypeOK
  BY DEF Typed
<1> QED BY <1>1, <1>2, TypedStep, PTL DEF Spec

\* The stronger form the other proofs use: the open() call that creates a socket also
\* stays pending for as long as that socket is CONNECTING (onopen does nothing).
THEOREM AlwaysTyped == Spec => []Typed
<1>1. Init => Typed
  BY InitTyped DEF Typed
<1> QED BY <1>1, TypedStep, PTL DEF Spec

-----------------------------------------------------------------------------
(* The uid of an awaited connection.                                        *)

OpenerCalled == opener # NoOpen => promise[opener] # "none"
UidInv == OpenerCalled /\ AwaitedOpenHasFreshUid

LEMMA UidInvStep == Typed /\ UidInv /\ [Next]_vars => UidInv'
<1> SUFFICES ASSUME Typed, UidInv, [Next]_vars PROVE UidInv'
  OBVIOUS
<1>0. SocketInv /\ SocketType
  BY DEF Typed, TypeOK, SocketInv
<1> USE <1>0, NoOpenAssumption DEF UidInv, OpenerCalled, AwaitedOpenHasFreshUid, SocketType
<1>1. ASSUME NEW o \in Opens, OpenAgain(o) PROVE UidInv'
  BY <1>1 DEF OpenAgain
<1>2. ASSUME NEW o \in Opens, NEW cb \in BOOLEAN, OpenNew(o, cb) PROVE UidInv'
  BY <1>2 DEF OpenNew, Handlers, OpenReturns
<1>3. CASE Close
  BY <1>3, OpenerIsACall, SettleIsPointwise DEF Close
<1>4. CASE ReceiveUid
  BY <1>4, OpenerIsACall, SettleIsPointwise DEF ReceiveUid, GreetedUid
<1>5. CASE ConnectFails
  BY <1>5, OpenerIsACall, SettleIsPointwise DEF ConnectFails
<1>6. ASSUME NEW err \in BOOLEAN, Drop(err) PROVE UidInv'
  BY <1>6, OpenerIsACall, SettleIsPointwise DEF Drop
<1>7. CASE Closed
  BY <1>7, OpenerIsACall, SettleIsPointwise DEF Closed
<1>8. CASE UNCHANGED <<opener, promise, uid, socket>>
  BY <1>8
<1> QED BY <1>1, <1>2, <1>3, <1>4, <1>5, <1>6, <1>7, <1>8
        DEF Next, Client, Network, Subscribe, Established, OnOpen, GatewaySubscribes,
            vars, clientVars

\* A client that awaited the open() that made the current connection holds that
\* connection's uid, for any number of reconnections: its subscriptions are never
\* sent under the uid of a connection that is gone (handleMessage, subscribeTo).
THEOREM FreshUid == Spec => []AwaitedOpenHasFreshUid
<1>1. Init => UidInv
  BY DEF Init, UidInv, OpenerCalled, AwaitedOpenHasFreshUid
<1>2. UidInv => AwaitedOpenHasFreshUid
  BY DEF UidInv
<1> QED BY <1>1, <1>2, UidInvStep, AlwaysTyped, PTL DEF Spec

-----------------------------------------------------------------------------
(* What onclose reports.  SIGINT stands for a connection that the client    *)
(* closed or is closing, and the log only holds connections that are gone.  *)

SigintIsAClose ==
    /\ readyState = "CLOSING" /\ closer = "client" => SIGINT
    /\ SIGINT => \/ readyState = "CLOSING" /\ closer = "client"
                 \/ \E f \in closeLog : f.by = "client"
LogIsPast ==
    \A f \in closeLog : f.socket <= socket /\ (f.socket = socket => readyState = "CLOSED")
ReportInv == /\ SigintIsAClose
             /\ LogIsPast
             /\ OwnCloseIsNeverReported
             /\ UnsolicitedCloseIsReported

\* A connection enters the log with the report CloseReport gives it.
LEMMA LoggedReport ==
    ASSUME Typed, ReportInv, NEW by \in {"client", "peer"}, Log(by),
           readyState \in {"CONNECTING", "CLOSING"}, readyState' = "CLOSED",
           socket' = socket, SIGINT' = SIGINT,
           by = "client" => SIGINT,
           by = "peer" => (SIGINT => \E f \in closeLog : f.by = "client")
    PROVE  ReportInv'
<1> DEFINE e == [socket |-> socket, by |-> by, callback |-> callback[opener],
                 report |-> CloseReport, client |-> uid]
<1>1. closeLog' = closeLog \union {e}
  BY DEF Log
<1>2. SigintIsAClose'
  <2>1. by = "client" => \E f \in closeLog' : f.by = "client"
    <3>1. e \in closeLog' /\ e.by = by
      BY <1>1
    <3> HIDE DEF e
    <3> QED BY <3>1
  <2>2. SIGINT => \E f \in closeLog' : f.by = "client"
    BY <1>1, <2>1
  <2> QED BY <2>2 DEF SigintIsAClose
<1>3. LogIsPast'
  BY <1>1 DEF ReportInv, LogIsPast, Typed, TypeOK, SocketType
<1>4. OwnCloseIsNeverReported'
  BY <1>1 DEF ReportInv, OwnCloseIsNeverReported, CloseReport
<1>5. UnsolicitedCloseIsReported'
  <2>1. e.by = "peer" /\ e.callback /\ (\A f \in closeLog' : f.by = "client" => f.socket > e.socket)
          => e.report = "callback"
    <3> SUFFICES ASSUME e.by = "peer", e.callback,
                        \A f \in closeLog' : f.by = "client" => f.socket > socket
                 PROVE  e.report = "callback"
      OBVIOUS
    <3>1. \A f \in closeLog : f.socket <= socket
      BY DEF ReportInv, LogIsPast
    <3>2. \A f \in closeLog : f.socket \in Nat
      BY DEF Typed, TypeOK, LogType, CloseEvent
    <3>3. ~ \E f \in closeLog : f.by = "client"
      BY <1>1, <3>1, <3>2 DEF Typed, TypeOK, SocketType
    <3> QED BY <3>3 DEF CloseReport
  <2>2. \A c \in closeLog :
          c.by = "peer" /\ c.callback /\ (\A f \in closeLog' : f.by = "client" => f.socket > c.socket)
            => c.report = "callback"
    BY <1>1 DEF ReportInv, UnsolicitedCloseIsReported
  <2> QED BY <1>1, <2>1, <2>2 DEF UnsolicitedCloseIsReported
<1> QED BY <1>2, <1>3, <1>4, <1>5 DEF ReportInv

LEMMA ReportInvStep == Typed /\ ReportInv /\ [Next]_vars => ReportInv'
<1> SUFFICES ASSUME Typed, ReportInv, [Next]_vars PROVE ReportInv'
  OBVIOUS
<1> USE DEF SigintIsAClose
<1>1. CASE ConnectFails
  <2>1. SIGINT => \E f \in closeLog : f.by = "client"
    BY <1>1 DEF ConnectFails, ReportInv
  <2> QED BY <1>1, <2>1, LoggedReport DEF ConnectFails
<1>2. CASE Closed
  <2>1. closer \in {"client", "peer"}
    BY <1>2 DEF Closed, Typed, TypeOK, SocketType, ConnectingPends
  <2> QED BY <1>2, <2>1, LoggedReport DEF Closed, ReportInv
<1>3. CASE UNCHANGED closeLog
  <2>1. OwnCloseIsNeverReported' /\ UnsolicitedCloseIsReported'
    BY <1>3 DEF ReportInv, OwnCloseIsNeverReported, UnsolicitedCloseIsReported
  <2>2. LogIsPast' /\ SigintIsAClose'
    <3>1. ASSUME NEW o \in Opens, NEW cb \in BOOLEAN, OpenNew(o, cb)
          PROVE  LogIsPast' /\ SigintIsAClose'
      <4>1. \A f \in closeLog : f.socket \in Nat
        BY DEF Typed, TypeOK, LogType, CloseEvent
      <4>2. socket' = socket + 1 /\ socket \in Nat
        BY <3>1 DEF OpenNew, Typed, TypeOK, SocketType
      <4>3. LogIsPast'
        BY <1>3, <4>1, <4>2 DEF ReportInv, LogIsPast
      <4> QED BY <1>3, <3>1, <4>3 DEF OpenNew, ReportInv
    <3>2. CASE Close
      BY <1>3, <3>2 DEF Close, RaisedSIGINT, ReportInv, LogIsPast
    <3>3. CASE Established
      BY <1>3, <3>3 DEF Established, ReportInv, LogIsPast
    <3>4. ASSUME NEW err \in BOOLEAN, Drop(err) PROVE LogIsPast' /\ SigintIsAClose'
      BY <1>3, <3>4 DEF Drop, ReportInv, LogIsPast
    <3>5. CASE UNCHANGED <<readyState, socket, SIGINT, closer>>
      BY <1>3, <3>5 DEF ReportInv, LogIsPast
    <3> QED BY <1>1, <1>2, <3>1, <3>2, <3>3, <3>4, <3>5
            DEF Next, Client, Network, OpenAgain, Subscribe, ReceiveUid,
                GatewaySubscribes, vars, clientVars, networkVars, ReportInv
  <2> QED BY <2>1, <2>2 DEF ReportInv
<1> QED BY <1>1, <1>2, <1>3
        DEF Next, Client, Network, OpenAgain, OpenNew, Close, Subscribe, Established,
            ReceiveUid, Drop, GatewaySubscribes, vars, histories

LEMMA AlwaysReportInv == Spec => []ReportInv
<1>1. Init => ReportInv
  BY DEF Init, ReportInv, SigintIsAClose, LogIsPast, OwnCloseIsNeverReported,
         UnsolicitedCloseIsReported
<1> QED BY <1>1, ReportInvStep, AlwaysTyped, PTL DEF Spec

\* A connection the client closed never ends as an unsolicited close, however many
\* connections came before it (Listener.close, onclose).
THEOREM OwnCloseSilent == Spec => []OwnCloseIsNeverReported
<1>1. ReportInv => OwnCloseIsNeverReported
  BY DEF ReportInv
<1> QED BY <1>1, AlwaysReportInv, PTL

\* Up to the client's first own close, every loss of a connection opened with a
\* callback reaches that callback, reconnections included (Listener.open, onclose).
THEOREM LossIsReported == Spec => []UnsolicitedCloseIsReported
<1>1. ReportInv => UnsolicitedCloseIsReported
  BY DEF ReportInv
<1> QED BY <1>1, AlwaysReportInv, PTL

-----------------------------------------------------------------------------
(* Who resolved on which connection, and how.                               *)

ResolvedInv ==
    \A o \in Opens : promise[o] = "resolved" =>
        /\ resolved[o].socket \in 1..socket
        /\ readyState = "CONNECTING" /\ resolved[o].socket = socket
             => resolved[o].state = "CONNECTING"

LEMMA ResolvedInvStep == Typed /\ ResolvedInv /\ [Next]_vars => ResolvedInv'
<1> SUFFICES ASSUME Typed, ResolvedInv, [Next]_vars, NEW o \in Opens, promise'[o] = "resolved"
             PROVE  /\ resolved'[o].socket \in 1..socket'
                    /\ readyState' = "CONNECTING" /\ resolved'[o].socket = socket'
                         => resolved'[o].state = "CONNECTING"
  BY DEF ResolvedInv
<1>0. SocketInv /\ LogType /\ SocketInv' /\ socket \in Nat /\ socket' \in Nat
  BY SocketInvStep DEF Typed, TypeOK, SocketInv, SocketType
\* An old connection stays old, and a new one is the first of its number.
<1>1. CASE promise[o] = "resolved"
  <2>1. resolved'[o] = resolved[o]
    BY <1>0, <1>1, ResolvedIsNoted
  <2>2. \/ socket' = socket /\ (readyState' = "CONNECTING" => readyState = "CONNECTING")
        \/ socket' = socket + 1
    BY DEF Next, Client, Network, OpenAgain, OpenNew, Close, Subscribe, Established,
           ReceiveUid, ConnectFails, Closed, Drop, GatewaySubscribes, vars, clientVars
  <2>3. resolved[o].socket \in 1..socket
    BY <1>1 DEF ResolvedInv
  <2> QED BY <1>0, <1>1, <2>1, <2>2, <2>3 DEF ResolvedInv
\* A promise that resolves does so on a connection that is there.
<1>2. CASE promise[o] # "resolved"
  <2>1. resolved'[o] = [socket |-> socket', state |-> readyState]
    BY <1>0, <1>2, ResolvedIsNoted
  <2>2. socket' = socket /\ readyState # "NONE"
        /\ (readyState' = "CONNECTING" => readyState = "CONNECTING")
    <3>1. ASSUME NEW p \in Opens, NEW cb \in BOOLEAN, OpenNew(p, cb) PROVE FALSE
      BY <1>2, <3>1 DEF OpenNew, OpenReturns, Typed, TypeOK, SocketType
    <3>2. ASSUME NEW p \in Opens, OpenAgain(p)
          PROVE  socket' = socket /\ readyState # "NONE" /\ readyState' = readyState
      BY <3>2 DEF OpenAgain
    <3>3. CASE ReceiveUid
      BY <3>3 DEF ReceiveUid
    <3>4. CASE Close \/ ConnectFails \/ Closed \/ \E err \in BOOLEAN : Drop(err)
      <4>1. promise' = promise \/ promise' = Settle(opener, "rejected")
        BY <3>4 DEF Close, ConnectFails, Closed, Drop
      <4> QED BY <1>2, <4>1 DEF Settle, Typed, TypeOK, SocketType
    <3>5. CASE UNCHANGED promise
      BY <1>2, <3>5
    <3> QED BY <3>1, <3>2, <3>3, <3>4, <3>5
            DEF Next, Client, Network, Subscribe, Established, OnOpen, GatewaySubscribes,
                vars, clientVars
  <2>3. socket # 0
    BY <1>0, <2>2 DEF SocketInv, ConnectingPends
  <2> QED BY <1>0, <2>1, <2>2, <2>3
<1> QED BY <1>1, <1>2

\* Asking for a stream throws only if every open() that resolved on the connection
\* there is was called while it was CONNECTING: whoever awaited another one, the one
\* that made the connection above all, never meets it (Listener.open, subscribeTo).
THEOREM SubscribeNeverThrows == Spec => AwaitedSubscribeNeverThrows
<1>1. Init => ResolvedInv
  BY DEF Init, ResolvedInv
<1>2. Typed /\ ResolvedInv /\ [Next]_vars =>
        [\A s \in Streams : stream[s] = "none" /\ stream'[s] = "failed"
           => \A o \in Opens : promise[o] = "resolved" /\ resolved[o].socket = socket
                               => resolved[o].state = "CONNECTING"]_vars
  <2> SUFFICES ASSUME Typed, ResolvedInv, Next, NEW s \in Streams,
                      stream[s] = "none", stream'[s] = "failed",
                      NEW o \in Opens, promise[o] = "resolved", resolved[o].socket = socket
               PROVE  resolved[o].state = "CONNECTING"
    OBVIOUS
  <2>1. PICK t \in Streams : Subscribe(t)
    BY DEF Next, Client, Network, OpenAgain, OpenNew, Close, Established, ReceiveUid,
           ConnectFails, Closed, Drop, GatewaySubscribes, clientVars
  <2>2. readyState \in {"NONE", "CONNECTING"}
    BY <2>1 DEF Subscribe, Typed, TypeOK, StreamType
  <2>3. socket # 0
    BY DEF ResolvedInv, Typed, TypeOK, SocketType
  <2> QED BY <2>2, <2>3 DEF ResolvedInv, Typed, ConnectingPends
<1> QED BY <1>1, <1>2, ResolvedInvStep, AlwaysTyped, PTL DEF Spec, AwaitedSubscribeNeverThrows
=============================================================================
