--------------------------- MODULE ListenerConnection ---------------------------
(***************************************************************************)
(* The web-socket life cycle of the SDK's Listener                         *)
(* (src/src/infrastructure/Listener.ts): open(), close(), the uid handshake, *)
(* the handlers onerror / onclose / onmessage that the open() call which   *)
(* created the socket closes over, and subscribeTo().                      *)
(*                                                                         *)
(* A Listener owns one socket at a time; a new one is created only when    *)
(* the former is CLOSED, so the sockets are numbered in creation order and *)
(* only the current one has a state.  The gateway names each connection by *)
(* a uid it sends as first message: the uid of connection n is n, and 0 is *)
(* the undefined uid of a fresh Listener.                                  *)
(***************************************************************************)
EXTENDS Naturals, Sequences, FiniteSets

CONSTANTS Opens,      \* the open() calls the client may make (each returns a promise)
          Streams,    \* the streams the client may ask for, one channel each
          NoOpen      \* the creator of the socket before there is one

ASSUME OpensAssumption  == IsFiniteSet(Opens)
ASSUME NoOpenAssumption == NoOpen \notin Opens

VARIABLES readyState, \* this.webSocket.readyState, "NONE" when this.webSocket is undefined
          socket,     \* number of the current socket, 0 before the first
          opener,     \* the open() call whose closures are the socket's handlers
          promise,    \* what each open() call returned
          callback,   \* whether the call was given an onUnsolicitedCloseCallback
          uid,        \* this.uid
          SIGINT,     \* this.SIGINT
          closer,     \* who began to close the current socket (of the network, not a field)
          greeting,   \* the gateway's uid message is on its way to the client
          outbound,   \* subscribe messages on their way to the gateway
          accepted,   \* streams the gateway serves on the current connection
          stream,     \* each stream of the client
          awaited,    \* history: the connection a stream was asked on after its open()
                      \* had resolved, 0 when it was not
          resolved,   \* history: the connection each open() resolved on, and its state
          closeLog    \* history: how each closed socket was closed and reported

clientVars  == <<readyState, socket, opener, promise, callback, uid, SIGINT, stream>>
networkVars == <<closer, greeting, outbound, accepted>>
histories   == <<awaited, resolved, closeLog>>
vars == <<clientVars, networkVars, histories>>

-----------------------------------------------------------------------------
(* What the handlers do.  The slips (Slip...) are plausible bugs of these    *)
(* pieces; no specification uses them.                                     *)

\* Settling a promise that is already settled has no effect.
Settle(o, how) == [promise EXCEPT ![o] = IF @ = "pending" THEN how ELSE @]

\* The call a new socket's handlers belong to, and what that call returns.
SlipHandlersKept(o) == opener
Handlers(o) == o
SlipOpenResolvesAtOnce == "resolved"
OpenReturns == "pending"

\* onopen does nothing: the connection is usable once the uid has come.
SlipOnOpenResolves == Settle(opener, "resolved")
OnOpen == promise

\* The uid a greeting leaves in this.uid.
SlipFirstUidKept == IF uid = 0 THEN socket ELSE uid
GreetedUid == socket

\* close() raises SIGINT before it closes the socket, whatever its state.
SlipSigintOnlyWhenOpen == SIGINT \/ readyState = "OPEN"
RaisedSIGINT == TRUE

\* onclose: silent once close() has run on this Listener, else the callback
\* when the creating open() was given one, else a rejection.
SlipSilentBeforeUid ==
    IF SIGINT \/ uid # socket THEN "none" ELSE IF callback[opener] THEN "callback" ELSE "reject"
CloseReport ==
    IF SIGINT THEN "none" ELSE IF callback[opener] THEN "callback" ELSE "reject"

\* The promises that resolve now do so on connection n, in the state of the socket.
ResolvedOn(n) ==
    resolved' = [o \in Opens |->
        IF promise[o] # "resolved" /\ promise'[o] = "resolved"
        THEN [socket |-> n, state |-> readyState] ELSE resolved[o]]

Log(by) == closeLog' = closeLog \union
             {[socket |-> socket, by |-> by, callback |-> callback[opener],
               report |-> CloseReport, client |-> uid]}

-----------------------------------------------------------------------------
Init == /\ readyState = "NONE"
        /\ socket = 0
        /\ opener = NoOpen
        /\ promise = [o \in Opens |-> "none"]
        /\ callback = [o \in Opens |-> FALSE]
        /\ uid = 0
        /\ SIGINT = FALSE
        /\ closer = "nobody"
        /\ greeting = FALSE
        /\ outbound = <<>>
        /\ accepted = {}
        /\ stream = [s \in Streams |-> "none"]
        /\ awaited = [s \in Streams |-> 0]
        /\ resolved = [o \in Opens |-> [socket |-> 0, state |-> "NONE"]]
        /\ closeLog = {}

(* open() with no socket, or a CLOSED one: a new socket whose handlers     *)
(* close over this call's promise and callback.  uid and SIGINT keep what  *)
(* the former connection left in them.                                     *)
OpenNew(o, cb) ==
    /\ promise[o] = "none"
    /\ readyState \in {"NONE", "CLOSED"}
    /\ readyState' = "CONNECTING"
    /\ socket' = socket + 1
    /\ opener' = Handlers(o)
    /\ promise' = [promise EXCEPT ![o] = OpenReturns]
    /\ callback' = [callback EXCEPT ![o] = cb]
    /\ closer' = "nobody"
    /\ greeting' = FALSE
    /\ outbound' = <<>>
    /\ accepted' = {}
    /\ ResolvedOn(socket + 1)
    /\ UNCHANGED <<uid, SIGINT, stream, awaited, closeLog>>

(* open() while a socket is CONNECTING, OPEN or CLOSING: resolved at once. *)
OpenAgain(o) ==
    /\ promise[o] = "none"
    /\ readyState \notin {"NONE", "CLOSED"}
    /\ promise' = [promise EXCEPT ![o] = "resolved"]
    /\ ResolvedOn(socket)
    /\ UNCHANGED <<readyState, socket, opener, callback, uid, SIGINT, stream,
                   networkVars, awaited, closeLog>>

(* close(): a CONNECTING socket also fires onerror, hence rejects.         *)
Close ==
    /\ readyState \in {"OPEN", "CONNECTING"}
    /\ SIGINT' = RaisedSIGINT
    /\ promise' = IF readyState = "CONNECTING" THEN Settle(opener, "rejected") ELSE promise
    /\ readyState' = "CLOSING"
    /\ closer' = "client"
    /\ UNCHANGED <<socket, opener, callback, uid, stream, greeting, outbound,
                   accepted, histories>>

(* subscribeTo(): send() throws without a socket or on a CONNECTING one,   *)
(* and drops the message on a CLOSING or CLOSED one.                       *)
Subscribe(s) ==
    /\ stream[s] = "none"
    /\ IF readyState \in {"NONE", "CONNECTING"}
       THEN stream' = [stream EXCEPT ![s] = "failed"] /\ UNCHANGED outbound
       ELSE /\ stream' = [stream EXCEPT ![s] = "live"]
            /\ outbound' = IF readyState = "OPEN"
                           THEN Append(outbound, [uid |-> uid, stream |-> s])
                           ELSE outbound
    /\ awaited' = IF opener # NoOpen /\ promise[opener] = "resolved"
                  THEN [awaited EXCEPT ![s] = socket] ELSE awaited
    /\ UNCHANGED <<readyState, socket, opener, promise, callback, uid, SIGINT,
                   closer, greeting, accepted, resolved, closeLog>>

-----------------------------------------------------------------------------
(* The network and the gateway.                                            *)

Established ==
    /\ readyState = "CONNECTING"
    /\ readyState' = "OPEN"
    /\ greeting' = TRUE
    /\ promise' = OnOpen
    /\ ResolvedOn(socket)
    /\ UNCHANGED <<socket, opener, callback, uid, SIGINT, stream,
                   closer, outbound, accepted, awaited, closeLog>>

(* onmessage with a uid.  A socket the client is closing still receives.   *)
ReceiveUid ==
    /\ greeting
    /\ readyState = "OPEN" \/ (readyState = "CLOSING" /\ closer = "client")
    /\ greeting' = FALSE
    /\ uid' = GreetedUid
    /\ promise' = Settle(opener, "resolved")
    /\ ResolvedOn(socket)
    /\ UNCHANGED <<readyState, socket, opener, callback, SIGINT, stream,
                   closer, outbound, accepted, awaited, closeLog>>

(* The handshake fails: onerror, then onclose.                             *)
ConnectFails ==
    /\ readyState = "CONNECTING"
    /\ readyState' = "CLOSED"
    /\ closer' = "peer"
    /\ promise' = Settle(opener, "rejected")
    /\ Log("peer")
    /\ UNCHANGED <<socket, opener, callback, uid, SIGINT, stream, greeting,
                   outbound, accepted, awaited, resolved>>

(* The peer closes or the connection drops, with an error event or without. *)
Drop(err) ==
    /\ readyState = "OPEN"
    /\ readyState' = "CLOSING"
    /\ closer' = "peer"
    /\ promise' = IF err THEN Settle(opener, "rejected") ELSE promise
    /\ UNCHANGED <<socket, opener, callback, uid, SIGINT, stream, greeting,
                   outbound, accepted, histories>>

(* The close event; what was still in flight is lost.                      *)
Closed ==
    /\ readyState = "CLOSING"
    /\ readyState' = "CLOSED"
    /\ Log(closer)
    /\ promise' = IF CloseReport = "reject" THEN Settle(opener, "rejected") ELSE promise
    /\ greeting' = FALSE
    /\ outbound' = <<>>
    /\ accepted' = {}
    /\ UNCHANGED <<socket, opener, callback, uid, SIGINT, stream, closer, awaited,
                   resolved>>

(* The gateway takes a subscription when it names the connection it came on. *)
GatewaySubscribes ==
    /\ outbound # <<>>
    /\ outbound' = Tail(outbound)
    /\ accepted' = IF Head(outbound).uid = socket
                   THEN accepted \union {Head(outbound).stream} ELSE accepted
    /\ UNCHANGED <<clientVars, closer, greeting, histories>>

-----------------------------------------------------------------------------
Client  == \/ \E o \in Opens : OpenAgain(o) \/ \E cb \in BOOLEAN : OpenNew(o, cb)
           \/ Close
           \/ \E s \in Streams : Subscribe(s)
Network == \/ Established \/ ReceiveUid \/ ConnectFails \/ Closed \/ GatewaySubscribes
           \/ \E err \in BOOLEAN : Drop(err)
Next == Client \/ Network

(* The network answers a connection attempt, delivers the greeting of a    *)
(* connection that stays up and completes a close; nothing makes the       *)
(* client call anything or the peer drop a connection.                     *)
Fairness == /\ WF_vars(Established \/ ConnectFails)
            /\ WF_vars(ReceiveUid)
            /\ WF_vars(Closed)
            /\ WF_vars(GatewaySubscribes)

Spec     == Init /\ [][Next]_vars
FairSpec == Spec /\ Fairness

-----------------------------------------------------------------------------
CloseEvent == [socket : Nat, by : {"client", "peer"}, callback : BOOLEAN,
               report : {"none", "callback", "reject"}, client : Nat]

SocketType == /\ readyState \in {"NONE", "CONNECTING", "OPEN", "CLOSING", "CLOSED"}
              /\ socket \in Nat
              /\ opener \in Opens \union {NoOpen}
              /\ opener = NoOpen <=> socket = 0
              /\ promise \in [Opens -> {"none", "pending", "resolved", "rejected"}]
              /\ uid \in Nat /\ uid <= socket
              /\ closer \in {"nobody", "client", "peer"}
FlagType   == /\ callback \in [Opens -> BOOLEAN]
              /\ SIGINT \in BOOLEAN
              /\ greeting \in BOOLEAN
SubscribeMessage == [uid : Nat, stream : Streams]
StreamType == /\ outbound \in Seq(SubscribeMessage)
              /\ accepted \in SUBSET Streams
              /\ stream \in [Streams -> {"none", "failed", "live"}]
              /\ awaited \in [Streams -> Nat]
LogType    == /\ resolved \in [Opens -> [socket : Nat,
                    state : {"NONE", "CONNECTING", "OPEN", "CLOSING", "CLOSED"}]]
              /\ closeLog \in SUBSET CloseEvent

\* Every variable has its type, the uid is one the gateway has already given,
\* and a socket's handlers belong to an open() call.
TypeOK == SocketType /\ FlagType /\ StreamType /\ LogType

\* Once the open() that created the current socket has resolved, the uid is the
\* one of this connection: a client that awaited it never subscribes with the
\* uid of an earlier connection, which the gateway would ignore (subscribeTo).
AwaitedOpenHasFreshUid ==
    opener # NoOpen => (promise[opener] = "resolved" => uid = socket)

\* A close the client asked for is never reported as unsolicited, whatever the
\* order of close(), the uid and the close event (onclose).
OwnCloseIsNeverReported ==
    \A e \in closeLog : e.by = "client" => e.report = "none"

\* Until the client has closed one of its connections, each close it did not ask
\* for reaches the callback of the open() that created that connection, also
\* when that connection replaces one that was lost (onclose).
UnsolicitedCloseIsReported ==
    \A e \in closeLog :
        /\ e.by = "peer" /\ e.callback
        /\ \A f \in closeLog : f.by = "client" => f.socket > e.socket
        => e.report = "callback"

\* Asking for a stream throws on no client that awaited an open() of the connection
\* it has now, be it the one that made the connection or a later one, and even
\* when that connection is closing: unless all those open() calls came while the
\* socket was CONNECTING, where open() resolves at once (open, subscribeTo).
AwaitedSubscribeNeverThrows ==
    [][\A s \in Streams : stream[s] = "none" /\ stream'[s] = "failed"
         => \A o \in Opens : promise[o] = "resolved" /\ resolved[o].socket = socket
                             => resolved[o].state = "CONNECTING"]_vars

\* An open() that created a socket settles, as long as the client neither closes
\* the connection nor takes close events in a callback (open, handleMessage).
OpenSettles ==
    \A o \in Opens : promise[o] = "pending" ~>
        (promise[o] \in {"resolved", "rejected"} \/ SIGINT \/ callback[o])

\* A stream asked for after its open() was awaited is served by the gateway,
\* unless that connection closes first: its subscription names the right uid.
AwaitedStreamIsServed ==
    \A s \in Streams : awaited[s] # 0 ~>
        (s \in accepted \/ socket # awaited[s] \/ readyState \in {"CLOSING", "CLOSED"})

-----------------------------------------------------------------------------
(* What the documentation says, and the code does not do.                  *)

\* The loss of an established connection the client did not close is reported to
\* its callback (CHANGELOG.md:28); close() sets SIGINT and no open() resets it.
EveryUnsolicitedCloseIsReported ==
    \A e \in closeLog :
        e.by = "peer" /\ e.callback /\ e.client = e.socket => e.report = "callback"

\* Whoever awaited an open() of the present connection may ask for a stream, since
\* it resolves when the uid has come and the connection stands (Listener.ts:158);
\* an open() of a CONNECTING socket resolves at once, and send() then throws.
EveryAwaitedOpenIsUsable ==
    [][\A s \in Streams : stream[s] = "none" /\ stream'[s] = "failed"
         => \A o \in Opens : promise[o] = "resolved" => resolved[o].socket # socket]_vars
=============================================================================
