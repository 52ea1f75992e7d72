---------------------------- MODULE Transactions_proofs ----------------------------
(***************************************************************************)
(* Proofs about what goes into a transaction.  Of DeadlineService: what    *)
(* callers of one factory are given and what deadlines are, for any        *)
(* callers, configurations, clocks and numbers of failures.  Of            *)
(* AggregateSigning: what a payload says of itself, which cosignatures of  *)
(* it are valid, and what its fee pays for, for any transactions,          *)
(* cosigners and deadlines.                                                *)
(***************************************************************************)
EXTENDS DeadlineService, AggregateSigning, FiniteSetTheorems, SequenceTheorems, TLAPS

(* ----------------------------------------------------------------------- *)
(* The time line of the service.                                           *)
ClockType == now \in Int /\ skew \in Int /\ offset \in Int /\ delay \in Int

RequestType == request \in [state : {"none", "sent", "stamped"}, asked : Int, stamp : Int, duration : Int]

DeadlineType == deadline \in [by : {"none", "offset", "local", "server"}, adjustedValue : Int,
                              from : Int, to : Int, duration : Int]

(* A request is stamped by the node between the time it was sent and now.   *)
StampedInBetween == /\ request.state = "sent" => request.asked <= NodeTime
                    /\ request.state = "stamped" => request.asked <= request.stamp /\ request.stamp <= NodeTime

(* The offset is the difference of the clocks and what its answer took.     *)
OffsetIsSkew == stage = "ready" => offset = skew + delay

(* There is no deadline before there is a service, and the service stays.   *)
ReadyFirst == deadline.by # "none" => stage = "ready"

TimeInv == /\ ClockType /\ RequestType /\ DeadlineType
           /\ StampedInBetween /\ OffsetIsSkew /\ ReadyFirst /\ DeadlineFollowsServer

LEMMA MillisType == ASSUME NEW n \in Int PROVE Millis(n) \in Int
BY TimeAssumption DEF Millis

LEMMA EpochMillis == Millis(EpochAdjustment) \in Int
BY MillisType, TimeAssumption

timeVars == <<now, skew, stage, offset, delay, request, deadline>>

LEMMA TimeInit == ServiceInit => TimeInv
BY EpochMillis, TimeAssumption
   DEF ServiceInit, TimeInv, ClockType, RequestType, DeadlineType, StampedInBetween, OffsetIsSkew,
       ReadyFirst, DeadlineFollowsServer, NoRequest, NoDeadline

LEMMA TimeStep == TimeInv /\ [ServiceNext]_allVars => TimeInv'
<1> SUFFICES ASSUME TimeInv, [ServiceNext]_allVars PROVE TimeInv'
  OBVIOUS
<1> DEFINE E == Millis(EpochAdjustment)
<1>e. E \in Int
  BY EpochMillis
<1>n. NodeTime = now - E /\ NodeTime' = now' - E
  BY DEF NodeTime
<1> HIDE DEF E
<1> USE DEF TimeInv, ClockType, RequestType, DeadlineType, StampedInBetween, OffsetIsSkew, ReadyFirst
<1>0. CASE UNCHANGED timeVars
  BY <1>0 DEF timeVars, DeadlineFollowsServer, NodeTime
<1>1. CASE Tick
  BY <1>1, <1>e, <1>n DEF Tick, service, DeadlineFollowsServer
<1>2. CASE Create
  BY <1>2, <1>e, <1>n DEF Create, clock, Request, DeadlineFollowsServer
<1>3. CASE NodeStamps
  <2>1. NodeTime' = NodeTime /\ NodeTime \in Int
    BY <1>3, <1>e, <1>n DEF NodeStamps, clock
  <2>2. RequestType'
    BY <1>3, <2>1 DEF NodeStamps
  <2>3. request'.state = "stamped" /\ request'.stamp = NodeTime /\ request'.asked = request.asked
    BY <1>3 DEF NodeStamps
  <2>4. StampedInBetween'
    BY <1>3, <2>1, <2>2, <2>3 DEF NodeStamps
  <2> QED
    BY <1>3, <2>2, <2>4 DEF NodeStamps, clock, service, DeadlineFollowsServer
<1>4. CASE Created
  <2>1. offset' = skew + delay'
    BY <1>4, <1>e, <1>n DEF Created, LocalTimeOffset, LocalTime, E
  <2> QED
    BY <1>4, <2>1, <1>e, <1>n DEF Created, clock, NoRequest, DeadlineFollowsServer
<1>5. CASE TimeFails
  BY <1>5, <1>e, <1>n DEF TimeFails, clock, NoRequest, DeadlineFollowsServer
<1>6. CASE ServerTimeArrives
  BY <1>6, <1>e, <1>n DEF ServerTimeArrives, clock, service, NoRequest, DeadlineFollowsServer
<1>7. ASSUME NEW duration \in Durations, CreateDeadlineUsingOffset(duration) PROVE TimeInv'
  <2>1. UsingOffset(duration) - duration = NodeTime - delay /\ UsingOffset(duration) \in Int
    BY <1>7, <1>e, <1>n, TimeAssumption DEF CreateDeadlineUsingOffset, UsingOffset, LocalTime, E
  <2> QED
    BY <1>7, <2>1, <1>e, <1>n, TimeAssumption
       DEF CreateDeadlineUsingOffset, clock, service, DeadlineFollowsServer
<1>8. ASSUME NEW duration \in Durations, CreateDeadlineUsingLocalTime(duration) PROVE TimeInv'
  BY <1>8, <1>e, <1>n, TimeAssumption
     DEF CreateDeadlineUsingLocalTime, LocalTime, clock, service, DeadlineFollowsServer, E
<1>9. ASSUME NEW duration \in Durations, CreateDeadlineUsingServerTime(duration) PROVE TimeInv'
  BY <1>9, <1>e, <1>n, TimeAssumption
     DEF CreateDeadlineUsingServerTime, Request, clock, service, DeadlineFollowsServer
<1> QED
  BY <1>0, <1>1, <1>2, <1>3, <1>4, <1>5, <1>6, <1>7, <1>8, <1>9
     DEF ServiceNext, FactoryStep, allVars, clock, service, timeVars

\* DeadlineFollowsServer, for any clocks and delays: a deadline is the node's time and the
\* duration asked for, off by no more than its own way of being made explains.
THEOREM DeadlinesFollow == ServiceSpec => []DeadlineFollowsServer
<1>1. TimeInv => DeadlineFollowsServer
  BY DEF TimeInv
<1> QED
  BY TimeInit, TimeStep, <1>1, PTL DEF ServiceSpec

(* ----------------------------------------------------------------------- *)
(* What the factory gives.                                                 *)
ToRead(c) == ~ Needs(call[c].getter) \subseteq configured

CallType == /\ DOMAIN call = Callers
            /\ \A c \in Callers :
                 /\ call[c].getter \in Getters
                 /\ DOMAIN call[c] = {"getter", "state", "value"}

(* What is kept is not being read again; the epoch adjustment is kept only  *)
(* with the properties it was taken from.                                   *)
KeptIsRead == /\ DOMAIN cache = Cached /\ DOMAIN pending = Sources
              /\ \A source \in Sources : cache[source].state = "kept" => pending[source] = {}
              /\ cache["epochAdjustment"].state = "kept" => cache["networkProperties"].state = "kept"

(* Only what is not configured is waited for.                               *)
WaitsToRead == \A c \in Callers : call[c].state = "waiting" => ToRead(c)

(* Who was given something has what is configured or what is still kept.    *)
GivenIsKept == \A c \in Callers : call[c].state = "given" =>
                 IF ToRead(c) THEN /\ cache[CachedBy(call[c].getter)].state = "kept"
                                   /\ cache[CachedBy(call[c].getter)].value = call[c].value
                 ELSE call[c].value = <<>>

ReadInv == CallType /\ KeptIsRead /\ WaitsToRead /\ GivenIsKept

LEMMA GetterFacts ==
    ASSUME NEW g \in Getters
    PROVE  /\ CachedBy(g) \in Cached /\ CachedBy(g) # "networkProperties"
           /\ SourceOf(CachedBy(g)) \in Sources
           /\ SourceOf(CachedBy(g)) # CachedBy(g) =>
                 CachedBy(g) = "epochAdjustment" /\ SourceOf(CachedBy(g)) = "networkProperties"
           /\ \A h \in Getters : CachedBy(g) = CachedBy(h) => Needs(g) = Needs(h)
BY DEF Getters, CachedBy, SettingOf, Cached, Sources, SourceOf, Needs

LEMMA ReadInit == Init => ReadInv
BY DEF Init, ReadInv, CallType, KeptIsRead, WaitsToRead, GivenIsKept, Nothing, Cached, Sources

SettlesOf(source) == IF source = "networkProperties" THEN {source, "epochAdjustment"} ELSE {source}

(* What is asked for is not kept under any of its names.                    *)
LEMMA AskedIsNotKept ==
    ASSUME KeptIsRead, NEW source \in Sources, pending[source] # {}
    PROVE  \A name \in SettlesOf(source) : name \in Cached /\ cache[name].state # "kept"
BY DEF KeptIsRead, SettlesOf, Cached, Sources

(* Settling the callers that wait for a source leaves all callers with what *)
(* is kept.                                                                 *)
LEMMA SettlingKeeps ==
    ASSUME ReadInv, NEW source \in Sources, pending[source] # {},
           NEW state \in {"given", "refused"}, NEW value,
           call' = Settled(SettlesOf(source), state, value),
           configured' = configured,
           \A name \in Cached \ SettlesOf(source) : cache'[name] = cache[name],
           state = "given" => \A name \in SettlesOf(source) : cache'[name] = Kept(value)
    PROVE  CallType' /\ WaitsToRead' /\ GivenIsKept'
<1> DEFINE settles(c) == call[c].state = "waiting" /\ CachedBy(call[c].getter) \in SettlesOf(source)
<1>1. /\ DOMAIN call' = Callers
      /\ \A c \in Callers :
           /\ DOMAIN call'[c] = {"getter", "state", "value"}
           /\ call'[c].getter = call[c].getter
           /\ settles(c) => call'[c].state = state /\ call'[c].value = value
           /\ ~settles(c) => call'[c] = call[c]
  BY DEF Settled, ReadInv, CallType
<1>2. \A c \in Callers : ToRead(c)' = ToRead(c)
  BY <1>1 DEF ToRead, Needs
<1>3. CallType'
  BY <1>1 DEF ReadInv, CallType
<1>4. WaitsToRead'
  BY <1>1, <1>2 DEF ReadInv, WaitsToRead
<1>5. ASSUME NEW c \in Callers, call'[c].state = "given"
      PROVE  IF ToRead(c)' THEN /\ cache'[CachedBy(call'[c].getter)].state = "kept"
                                /\ cache'[CachedBy(call'[c].getter)].value = call'[c].value
             ELSE call'[c].value = <<>>
  <2>1. CASE settles(c)
    BY <2>1, <1>1, <1>2, <1>5 DEF ReadInv, WaitsToRead, Kept
  <2>2. CASE ~settles(c)
    <3>1. call'[c] = call[c]
      BY <2>2, <1>1
    <3>2. CASE ToRead(c)
      <4>1. cache[CachedBy(call[c].getter)].state = "kept"
        BY <3>1, <3>2, <1>5 DEF ReadInv, GivenIsKept
      <4>2. CachedBy(call[c].getter) \in Cached \ SettlesOf(source)
        BY <4>1, AskedIsNotKept, GetterFacts DEF ReadInv, CallType
      <4> QED
        BY <3>1, <3>2, <4>2, <1>2, <1>5 DEF ReadInv, GivenIsKept
    <3> QED
      BY <3>1, <3>2, <1>2, <1>5 DEF ReadInv, GivenIsKept
  <2> QED
    BY <2>1, <2>2
<1>6. GivenIsKept'
  BY <1>5 DEF GivenIsKept
<1> QED
  BY <1>3, <1>4, <1>6

(* Callers are untouched, and nothing that was kept is lost.                *)
LEMMA UntouchedKeeps ==
    ASSUME ReadInv, call' = call, configured' = configured,
           \A name \in Cached : cache[name].state = "kept" => cache'[name] = cache[name]
    PROVE  CallType' /\ WaitsToRead' /\ GivenIsKept'
<1>1. \A c \in Callers : ToRead(c)' = ToRead(c) /\ CachedBy(call[c].getter) \in Cached
  BY GetterFacts DEF ToRead, Needs, ReadInv, CallType
<1> QED
  BY <1>1 DEF ReadInv, CallType, WaitsToRead, GivenIsKept

(* One caller is given an answer, waits or is refused.                      *)
OnlyCalls(c) == /\ configured' = configured
                /\ DOMAIN call' = Callers /\ DOMAIN call'[c] = {"getter", "state", "value"}
                /\ call'[c].getter = call[c].getter
                /\ \A d \in Callers : d # c => call'[d] = call[d]

LEMMA OneCallerKeeps ==
    ASSUME ReadInv, NEW c \in Callers, OnlyCalls(c),
           \A name \in Cached : cache[name].state = "kept" => cache'[name] = cache[name],
           call'[c].state = "waiting" => ToRead(c),
           call'[c].state = "given" =>
             IF ToRead(c) THEN /\ cache[CachedBy(call[c].getter)].state = "kept"
                               /\ cache[CachedBy(call[c].getter)].value = call'[c].value
             ELSE call'[c].value = <<>>
    PROVE  CallType' /\ WaitsToRead' /\ GivenIsKept'
<1> USE DEF OnlyCalls
<1>1. ASSUME NEW d \in Callers
      PROVE  /\ call'[d].getter = call[d].getter /\ ToRead(d)' = ToRead(d)
             /\ CachedBy(call[d].getter) \in Cached
  <2>1. call'[d].getter = call[d].getter
    OBVIOUS
  <2>2. CachedBy(call[d].getter) \in Cached
    BY GetterFacts DEF ReadInv, CallType
  <2> QED
    BY <2>1, <2>2 DEF ToRead, Needs
<1>3. CallType'
  BY DEF ReadInv, CallType
<1>4. WaitsToRead'
  BY <1>1 DEF ReadInv, WaitsToRead
<1>5. GivenIsKept'
  BY <1>1 DEF ReadInv, GivenIsKept
<1> QED
  BY <1>3, <1>4, <1>5

LEMMA ReadStep == ReadInv /\ [Next]_vars => ReadInv'
<1> SUFFICES ASSUME ReadInv, [Next]_vars PROVE ReadInv'
  OBVIOUS
<1>1. ASSUME NEW c \in Callers, GetConfigured(c) PROVE ReadInv'
  <2>1. cache' = cache /\ KeptIsRead'
    BY <1>1 DEF GetConfigured, ReadInv, KeptIsRead
  <2>2. OnlyCalls(c)
    BY <1>1 DEF GetConfigured, Given, ReadInv, CallType, OnlyCalls
  <2>3. call'[c].state = "given" /\ call'[c].value = <<>> /\ ~ToRead(c)
    BY <1>1 DEF GetConfigured, Given, ToRead, ReadInv, CallType
  <2> QED
    BY <2>1, <2>2, <2>3, OneCallerKeeps DEF ReadInv
<1>2. ASSUME NEW c \in Callers, GetKept(c) PROVE ReadInv'
  <2>1. cache' = cache /\ KeptIsRead'
    BY <1>2 DEF GetKept, ReadInv, KeptIsRead
  <2>2. OnlyCalls(c)
    BY <1>2 DEF GetKept, Given, ReadInv, CallType, OnlyCalls
  <2>3. /\ ToRead(c) /\ cache[CachedBy(call[c].getter)].state = "kept"
        /\ call'[c].state = "given" /\ call'[c].value = cache[CachedBy(call[c].getter)].value
    BY <1>2 DEF GetKept, Given, ToRead, ReadInv, CallType
  <2> QED
    BY <2>1, <2>2, <2>3, OneCallerKeeps DEF ReadInv
<1>3. ASSUME NEW c \in Callers, GetUnmapped(c) PROVE ReadInv'
  <2>1. cache' = cache /\ KeptIsRead'
    BY <1>3 DEF GetUnmapped, ReadInv, KeptIsRead
  <2>2. OnlyCalls(c)
    BY <1>3 DEF GetUnmapped, Given, ReadInv, CallType, OnlyCalls
  <2>3. call'[c].state = "refused"
    BY <1>3 DEF GetUnmapped, Given, ToRead, ReadInv, CallType
  <2> QED
    BY <2>1, <2>2, <2>3, OneCallerKeeps DEF ReadInv
<1>4. ASSUME NEW c \in Callers, GetAsked(c) PROVE ReadInv'
  <2> DEFINE name == CachedBy(call[c].getter)
             source == SourceOf(name)
  <2>1. /\ name \in Cached /\ source \in Sources /\ source \in Cached
        /\ cache[name].state # "kept" /\ cache[source].state # "kept"
        /\ source # name => name = "epochAdjustment" /\ source = "networkProperties"
        /\ source = "networkProperties" => name = "epochAdjustment"
    BY <1>4, GetterFacts DEF GetAsked, ReadInv, CallType, Cached, SourceOf
  <2>4. OnlyCalls(c) /\ call'[c].state = "waiting" /\ ToRead(c)
    BY <1>4 DEF GetAsked, ReadInv, CallType, OnlyCalls, ToRead
  <2>2. CASE cache[source].state = "asking"
    <3>1. UNCHANGED <<cache, pending>>
      BY <1>4, <2>2 DEF GetAsked
    <3>2. KeptIsRead'
      BY <3>1 DEF ReadInv, KeptIsRead
    <3> QED
      BY <3>1, <3>2, <2>4, OneCallerKeeps DEF ReadInv
  <2>3. CASE cache[source].state # "asking"
    <3>1. /\ cache' = [cache EXCEPT ![name] = Asking, ![source] = Asking]
          /\ pending' = [pending EXCEPT ![source] = {FirstRead(source)}]
      BY <1>4, <2>3 DEF GetAsked
    <3> HIDE DEF name, source
    <3>2. /\ DOMAIN cache' = Cached /\ DOMAIN pending' = Sources
          /\ cache'[name] = Asking /\ cache'[source] = Asking
          /\ \A n \in Cached : n # name /\ n # source => cache'[n] = cache[n]
          /\ \A x \in Sources : x # source => pending'[x] = pending[x]
      BY <3>1, <2>1 DEF ReadInv, KeptIsRead
    <3>3. KeptIsRead'
      BY <3>2, <2>1 DEF ReadInv, KeptIsRead, Asking, Cached, Sources
    <3>4. \A n \in Cached : cache[n].state = "kept" => cache'[n] = cache[n]
      BY <3>2, <2>1
    <3>5. CallType' /\ WaitsToRead' /\ GivenIsKept'
      BY <2>4, <3>4, OneCallerKeeps
    <3> QED
      BY <3>3, <3>5 DEF ReadInv
  <2> QED
    BY <2>2, <2>3
<1>5. ASSUME NEW source \in Sources, NEW read \in Reads, Answered(source, read) PROVE ReadInv'
  <2> DEFINE value == Told(seen[source], read, setup)
             reads == (pending[source] \ {read}) \union After(source, read)
             names == SettlesOf(source)
  <2>1. pending[source] # {} /\ configured' = configured /\ pending' = [pending EXCEPT ![source] = reads]
    BY <1>5 DEF Answered
  <2>2. \A n \in names : n \in Cached /\ cache[n].state # "kept"
    BY <2>1, AskedIsNotKept DEF ReadInv
  <2>3. /\ DOMAIN pending' = Sources /\ pending'[source] = reads
        /\ \A x \in Sources : x # source => pending'[x] = pending[x]
    BY <2>1 DEF ReadInv, KeptIsRead
  <2>4. CASE reads # {}
    <3>1. cache' = cache /\ call' = call
      BY <1>5, <2>4 DEF Answered
    <3>2. KeptIsRead'
      BY <3>1, <2>2, <2>3 DEF ReadInv, KeptIsRead, SettlesOf
    <3> QED
      BY <3>1, <3>2, <2>1, UntouchedKeeps DEF ReadInv
  <2>5. CASE reads = {} /\ source = "networkProperties" /\ ~HasEpoch(value)
    <3>1. /\ cache' = [cache EXCEPT ![source] = AfterAnswer(value), !["epochAdjustment"] = AfterError]
          /\ call' = Settled(names, "refused", <<>>)
      BY <1>5, <2>5 DEF Answered, SettlesOf
    <3> HIDE DEF value, reads
    <3>2. /\ DOMAIN cache' = Cached
          /\ cache'["epochAdjustment"] = Nothing
          /\ \A n \in Cached \ names : cache'[n] = cache[n]
      BY <3>1, <2>5 DEF ReadInv, KeptIsRead, SettlesOf, Cached, AfterError
    <3>3. KeptIsRead'
      BY <3>2, <2>3, <2>5 DEF ReadInv, KeptIsRead, SettlesOf, Nothing, Sources, Cached
    <3>4. CallType' /\ WaitsToRead' /\ GivenIsKept'
      BY <3>1, <3>2, <2>1, SettlingKeeps
    <3> QED
      BY <3>3, <3>4 DEF ReadInv
  <2>6. CASE reads = {} /\ ~(source = "networkProperties" /\ ~HasEpoch(value))
    <3>1. /\ cache' = [n \in Cached |-> IF n \in names THEN AfterAnswer(value) ELSE cache[n]]
          /\ call' = Settled(names, "given", value)
      BY <1>5, <2>6 DEF Answered, SettlesOf
    <3> HIDE DEF value, reads
    <3>2. /\ DOMAIN cache' = Cached
          /\ \A n \in names : cache'[n] = Kept(value)
          /\ \A n \in Cached \ names : cache'[n] = cache[n]
      BY <3>1, <2>2 DEF AfterAnswer
    <3>3. KeptIsRead'
      BY <3>2, <2>3, <2>6 DEF ReadInv, KeptIsRead, SettlesOf, Kept, Sources, Cached
    <3>4. CallType' /\ WaitsToRead' /\ GivenIsKept'
      BY <3>1, <3>2, <2>1, SettlingKeeps
    <3> QED
      BY <3>3, <3>4 DEF ReadInv
  <2> QED
    BY <2>4, <2>5, <2>6
<1>6. ASSUME NEW source \in Sources, NEW read \in Reads, Fails(source, read) PROVE ReadInv'
  <2> DEFINE names == SettlesOf(source)
  <2>1. /\ pending[source] # {} /\ configured' = configured /\ pending' = [pending EXCEPT ![source] = {}]
        /\ cache' = [n \in Cached |-> IF n \in names THEN AfterError ELSE cache[n]]
        /\ call' = Settled(names, "refused", <<>>)
    BY <1>6 DEF Fails, SettlesOf
  <2>2. KeptIsRead'
    BY <2>1 DEF ReadInv, KeptIsRead, SettlesOf, AfterError, Nothing, Sources, Cached
  <2>3. \A n \in Cached \ names : cache'[n] = cache[n]
    BY <2>1
  <2>4. CallType' /\ WaitsToRead' /\ GivenIsKept'
    BY <2>1, <2>3, SettlingKeeps
  <2> QED
    BY <2>2, <2>4 DEF ReadInv
<1>7. CASE UNCHANGED <<configured, cache, pending, call>>
  BY <1>7, UntouchedKeeps DEF ReadInv, KeptIsRead
<1> QED
  BY <1>1, <1>2, <1>3, <1>4, <1>5, <1>6, <1>7 DEF Next, Get, Replied, SetUpAnew, vars

LEMMA ReadServiceStep == ReadInv /\ [ServiceNext]_allVars => ReadInv'
<1> SUFFICES ASSUME ReadInv, [ServiceNext]_allVars PROVE ReadInv'
  OBVIOUS
<1>1. CASE FactoryStep
  BY <1>1, ReadStep DEF FactoryStep
<1>2. CASE UNCHANGED <<configured, cache, pending, call>>
  BY <1>2, UntouchedKeeps DEF ReadInv, KeptIsRead
<1> QED
  BY <1>1, <1>2 DEF ServiceNext, allVars, factory, vars, Tick, Create, NodeStamps, Created, TimeFails,
     ServerTimeArrives, CreateDeadlineUsingOffset, CreateDeadlineUsingLocalTime, CreateDeadlineUsingServerTime

LEMMA KeptIsShared == ReadInv => CallersAgree
<1> SUFFICES ASSUME ReadInv, NEW c \in Callers, NEW d \in Callers,
                    call[c].state = "given", call[d].state = "given",
                    CachedBy(call[c].getter) = CachedBy(call[d].getter)
             PROVE  call[c].value = call[d].value
  BY DEF CallersAgree
<1>1. ToRead(c) <=> ToRead(d)
  BY GetterFacts DEF ToRead, ReadInv, CallType
<1> QED
  BY <1>1 DEF ReadInv, GivenIsKept

\* CallersAgree, for any callers and any number of failures and set-ups of the node: what
\* one factory gives out of the same read of the node is the same for all.
THEOREM CallersAgreed == ServiceSpec => []CallersAgree
<1>1. ServiceInit => ReadInv
  BY ReadInit DEF ServiceInit
<1> QED
  BY <1>1, ReadServiceStep, KeptIsShared, PTL DEF ServiceSpec

(* ----------------------------------------------------------------------- *)
(* Types.  The properties and the epoch adjustment are asked for together.  *)
AskedTogether ==
    cache["networkProperties"].state = "asking" => cache["epochAdjustment"].state = "asking"

LEMMA AnswersGrow ==
    ASSUME NEW answers \in Answers, NEW read \in Reads, NEW n \in 0..MaxSetup
    PROVE  Told(answers, read, n) \in Answers
<1>1. PICK reads \in SUBSET Reads : answers \in [reads -> 0..MaxSetup]
  BY DEF Answers
<1>2. Told(answers, read, n) \in [reads \union {read} -> 0..MaxSetup]
  BY <1>1 DEF Told
<1>3. reads \union {read} \in SUBSET Reads
  BY <1>1
<1> QED
  BY <1>2, <1>3 DEF Answers

LEMMA NoAnswers == <<>> \in Answers
<1>1. <<>> \in [{} -> 0..MaxSetup]
  OBVIOUS
<1> QED
  BY <1>1 DEF Answers

LEMMA ObservableStates ==
    /\ Nothing \in Observable /\ Asking \in Observable
    /\ \A value \in Answers : Kept(value) \in Observable /\ Kept(value).state = "kept"
    /\ Nothing.state = "nothing" /\ Asking.state = "asking"
    /\ \A o \in Observable : o.state = "kept" => o.value \in Answers
<1>1. /\ Nothing \in Observable /\ Asking \in Observable
      /\ Nothing.state = "nothing" /\ Asking.state = "asking"
  BY DEF Observable, Nothing, Asking
<1>2. \A value : Kept(value).state = "kept" /\ Kept(value).value = value
  BY DEF Kept
<1>3. \A value \in Answers : Kept(value) \in Observable
  BY DEF Observable
<1>4. \A o \in Observable : o.state = "kept" => o.value \in Answers
  <2> TAKE o \in Observable
  <2>1. CASE o \in {Nothing, Asking}
    BY <2>1, <1>1
  <2>2. CASE \E value \in Answers : o = Kept(value)
    BY <2>2, <1>2
  <2> QED
    BY <2>1, <2>2 DEF Observable
<1> QED
  BY <1>1, <1>2, <1>3, <1>4

LEMMA FactoryTypeStep ==
    TypeOK /\ AskedTogether /\ [Next]_vars => TypeOK' /\ AskedTogether'
<1> SUFFICES ASSUME TypeOK, AskedTogether, [Next]_vars PROVE TypeOK' /\ AskedTogether'
  OBVIOUS
<1> USE BoundsAssumption DEF TypeOK, AskedTogether
<1>1. ASSUME NEW c \in Callers, GetConfigured(c) PROVE TypeOK' /\ AskedTogether'
  BY <1>1, NoAnswers DEF GetConfigured, Given
<1>2. ASSUME NEW c \in Callers, GetKept(c) PROVE TypeOK' /\ AskedTogether'
  <2>1. cache[CachedBy(call[c].getter)].value \in Answers
    BY <1>2, GetterFacts, ObservableStates DEF GetKept
  <2> QED
    BY <1>2, <2>1 DEF GetKept, Given
<1>3. ASSUME NEW c \in Callers, GetUnmapped(c) PROVE TypeOK' /\ AskedTogether'
  BY <1>3 DEF GetUnmapped
<1>4. ASSUME NEW c \in Callers, GetAsked(c) PROVE TypeOK' /\ AskedTogether'
  <2> DEFINE name == CachedBy(call[c].getter)
             source == SourceOf(name)
  <2>1. /\ name \in Cached /\ source \in Sources /\ source \in Cached
        /\ source # name => name = "epochAdjustment" /\ source = "networkProperties"
        /\ source = "networkProperties" => name = "epochAdjustment"
        /\ name \in Sources => source = name
    BY GetterFacts DEF Cached, SourceOf, Sources
  <2>2. /\ call' \in [Callers -> [getter : Getters, state : {"idle", "waiting", "given", "refused"},
                                   value : Answers]]
        /\ call'[c].state = "waiting" /\ call'[c].getter = call[c].getter
        /\ \A d \in Callers : d # c => call'[d] = call[d]
    BY <1>4 DEF GetAsked
  <2>3. CASE cache[source].state = "asking"
    <3>1. UNCHANGED <<cache, pending, seen, configured, setup, failures>>
      BY <1>4, <2>3 DEF GetAsked
    <3>2. cache[name].state = "asking"
      BY <2>1, <2>3
    <3> QED
      BY <3>1, <3>2, <2>2
  <2>4. CASE cache[source].state # "asking"
    <3>1. /\ cache' = [cache EXCEPT ![name] = Asking, ![source] = Asking]
          /\ pending' = [pending EXCEPT ![source] = {FirstRead(source)}]
          /\ seen' = [seen EXCEPT ![source] = <<>>]
          /\ UNCHANGED <<configured, setup, failures>>
      BY <1>4, <2>4 DEF GetAsked
    <3>f. FirstRead(source) \in Reads
      BY DEF FirstRead, Reads
    <3> HIDE DEF source
    <3>2. /\ cache' \in [Cached -> Observable]
          /\ cache'[name] = Asking /\ cache'[source] = Asking
          /\ \A n \in Cached : n # name /\ n # source => cache'[n] = cache[n]
      BY <3>1, <2>1, ObservableStates
    <3>3. pending' \in [Sources -> SUBSET Reads] /\ seen' \in [Sources -> Answers]
          /\ pending'[source] # {} /\ \A x \in Sources : x # source => pending'[x] = pending[x]
      BY <3>1, <3>f, <2>1, NoAnswers
    <3>4. \A x \in Sources : pending'[x] # {} <=> cache'[x].state = "asking"
      BY <3>2, <3>3, <2>1, ObservableStates DEF Sources, Cached
    <3>5. \A d \in Callers : call'[d].state = "waiting" => cache'[CachedBy(call'[d].getter)].state = "asking"
      BY <3>2, <2>1, <2>2, ObservableStates, GetterFacts
    <3>6. AskedTogether'
      <4>1. cache'["epochAdjustment"] = Asking \/ cache'["epochAdjustment"] = cache["epochAdjustment"]
        BY <3>2 DEF Cached
      <4>2. CASE source = "networkProperties"
        BY <4>2, <3>2, <2>1, ObservableStates
      <4>3. CASE source # "networkProperties"
        <5>1. name # "networkProperties"
          BY <4>3, <2>1
        <5>2. cache'["networkProperties"] = cache["networkProperties"]
          BY <4>3, <5>1, <3>2 DEF Cached, Sources
        <5> QED
          BY <4>1, <5>2, ObservableStates
      <4> QED
        BY <4>2, <4>3
    <3> QED
      BY <3>1, <3>2, <3>3, <3>4, <3>5, <3>6, <2>2
  <2> QED
    BY <2>3, <2>4
<1>t. ASSUME NEW names, NEW state \in {"given", "refused"}, NEW value \in Answers,
             call' = Settled(names, state, value)
      PROVE  /\ call' \in [Callers -> [getter : Getters, state : {"idle", "waiting", "given", "refused"},
                                        value : Answers]]
             /\ \A c \in Callers : call'[c].state = "waiting" =>
                  call'[c] = call[c] /\ CachedBy(call[c].getter) \notin names
  BY <1>t DEF Settled
<1>5. ASSUME NEW source \in Sources, NEW read \in Reads, Answered(source, read)
      PROVE  TypeOK' /\ AskedTogether'
  <2> DEFINE value == Told(seen[source], read, setup)
             reads == (pending[source] \ {read}) \union After(source, read)
             names == SettlesOf(source)
  <2>1. /\ value \in Answers /\ reads \in SUBSET Reads
        /\ cache[source].state = "asking"
    BY <1>5, AnswersGrow DEF Answered, After, Reads
  <2>2. pending' = [pending EXCEPT ![source] = reads] /\ UNCHANGED <<configured, setup, failures>>
    BY <1>5 DEF Answered
  <2>3. CASE reads # {}
    <3>1. seen' = [seen EXCEPT ![source] = value] /\ UNCHANGED <<cache, call>>
      BY <1>5, <2>3 DEF Answered
    <3> HIDE DEF value, reads
    <3> QED
      BY <3>1, <2>1, <2>2, <2>3
  <2>4. CASE reads = {} /\ source = "networkProperties" /\ ~HasEpoch(value)
    <3>1. /\ cache' = [cache EXCEPT ![source] = AfterAnswer(value), !["epochAdjustment"] = AfterError]
          /\ call' = Settled(names, "refused", <<>>)
          /\ seen' = [seen EXCEPT ![source] = <<>>]
      BY <1>5, <2>4 DEF Answered, SettlesOf
    <3> HIDE DEF value, reads
    <3>2. /\ cache' \in [Cached -> Observable]
          /\ cache'[source] = Kept(value) /\ cache'["epochAdjustment"] = Nothing
          /\ \A n \in Cached \ names : cache'[n] = cache[n]
      BY <3>1, <2>1, <2>4, ObservableStates DEF AfterAnswer, AfterError, Cached, SettlesOf
    <3>3. /\ pending' \in [Sources -> SUBSET Reads] /\ seen' \in [Sources -> Answers]
          /\ \A x \in Sources : pending'[x] # {} <=> cache'[x].state = "asking"
      BY <3>1, <3>2, <2>1, <2>2, <2>4, NoAnswers, ObservableStates DEF Sources, Cached, SettlesOf
    <3>4. \A c \in Callers : call'[c].state = "waiting" => cache'[CachedBy(call'[c].getter)].state = "asking"
      <4> TAKE c \in Callers
      <4> HAVE call'[c].state = "waiting"
      <4>1. call'[c] = call[c] /\ CachedBy(call[c].getter) \notin names
        BY <3>1, <1>t, NoAnswers
      <4>2. call[c].getter \in Getters /\ cache[CachedBy(call[c].getter)].state = "asking"
        BY <4>1
      <4>3. CachedBy(call[c].getter) \in Cached \ names
        BY <4>1, <4>2, GetterFacts
      <4> QED
        BY <4>1, <4>2, <4>3, <3>2
    <3> QED
      BY <3>1, <3>2, <3>3, <3>4, <2>2, <2>4, <1>t, NoAnswers, ObservableStates
  <2>5. CASE reads = {} /\ ~(source = "networkProperties" /\ ~HasEpoch(value))
    <3>1. /\ cache' = [n \in Cached |-> IF n \in names THEN AfterAnswer(value) ELSE cache[n]]
          /\ call' = Settled(names, "given", value)
          /\ seen' = [seen EXCEPT ![source] = <<>>]
      BY <1>5, <2>5 DEF Answered, SettlesOf
    <3> HIDE DEF value, reads
    <3>2. /\ cache' \in [Cached -> Observable]
          /\ \A n \in names : n \in Cached => cache'[n] = Kept(value)
          /\ \A n \in Cached \ names : cache'[n] = cache[n]
      BY <3>1, <2>1, ObservableStates DEF AfterAnswer
    <3>3. /\ pending' \in [Sources -> SUBSET Reads] /\ seen' \in [Sources -> Answers]
          /\ \A x \in Sources : pending'[x] # {} <=> cache'[x].state = "asking"
      BY <3>1, <3>2, <2>1, <2>2, <2>5, NoAnswers, ObservableStates DEF Sources, Cached, SettlesOf
    <3>4. \A c \in Callers : call'[c].state = "waiting" => cache'[CachedBy(call'[c].getter)].state = "asking"
      <4> TAKE c \in Callers
      <4> HAVE call'[c].state = "waiting"
      <4>1. call'[c] = call[c] /\ CachedBy(call[c].getter) \notin names
        BY <3>1, <1>t, <2>1
      <4>2. call[c].getter \in Getters /\ cache[CachedBy(call[c].getter)].state = "asking"
        BY <4>1
      <4>3. CachedBy(call[c].getter) \in Cached \ names
        BY <4>1, <4>2, GetterFacts
      <4> QED
        BY <4>1, <4>2, <4>3, <3>2
    <3>5. AskedTogether'
      BY <3>2, <2>1, ObservableStates DEF SettlesOf, Cached, Sources
    <3> QED
      BY <3>1, <3>2, <3>3, <3>4, <3>5, <2>1, <2>2, <1>t
  <2> QED
    BY <2>3, <2>4, <2>5
<1>6. ASSUME NEW source \in Sources, NEW read \in Reads, Fails(source, read)
      PROVE  TypeOK' /\ AskedTogether'
  <2> DEFINE names == SettlesOf(source)
  <2>1. /\ pending' = [pending EXCEPT ![source] = {}] /\ seen' = [seen EXCEPT ![source] = <<>>]
        /\ cache' = [n \in Cached |-> IF n \in names THEN Nothing ELSE cache[n]]
        /\ call' = Settled(names, "refused", <<>>)
        /\ UNCHANGED <<configured, setup>> /\ failures' \in 0..MaxFailures
    BY <1>6 DEF Fails, SettlesOf, AfterError
  <2>2. cache' \in [Cached -> Observable]
    BY <2>1, ObservableStates
  <2>3. /\ pending' \in [Sources -> SUBSET Reads] /\ seen' \in [Sources -> Answers]
        /\ \A x \in Sources : pending'[x] # {} <=> cache'[x].state = "asking"
    BY <2>1, NoAnswers, ObservableStates DEF Sources, Cached, SettlesOf
  <2>4. \A c \in Callers : call'[c].state = "waiting" => cache'[CachedBy(call'[c].getter)].state = "asking"
    <3> SUFFICES ASSUME NEW c \in Callers, call'[c].state = "waiting"
                 PROVE  cache'[CachedBy(call'[c].getter)].state = "asking"
      OBVIOUS
    <3>1. call'[c] = call[c] /\ CachedBy(call[c].getter) \notin names
      BY <1>t, <2>1, NoAnswers
    <3>2. call[c].getter \in Getters /\ cache[CachedBy(call[c].getter)].state = "asking"
      BY <1>t, <3>1
    <3>3. CachedBy(call[c].getter) \in Cached
      BY <3>2, GetterFacts
    <3> QED
      BY <2>1, <3>1, <3>2, <3>3
  <2>5. AskedTogether'
    BY <2>1, ObservableStates DEF SettlesOf, Cached, Sources
  <2> QED
    BY <2>1, <2>2, <2>3, <2>4, <2>5, <1>t, NoAnswers
<1>7. CASE SetUpAnew
  BY <1>7 DEF SetUpAnew, Answers
<1>8. CASE UNCHANGED vars
  BY <1>8 DEF vars
<1> QED
  BY <1>1, <1>2, <1>3, <1>4, <1>5, <1>6, <1>7, <1>8 DEF Next, Get, Replied

(* The requests for the node's time, and how late they may be answered.     *)
Bounded == /\ ServiceTypeOK
           /\ AskedTogether
           /\ stage = "none" => request = NoRequest
           /\ request.state = "sent" => request.asked <= NodeTime
           /\ request.state = "stamped" => request.stamp <= NodeTime

LEMMA BoundedInit == ServiceInit => Bounded
<1> SUFFICES ASSUME ServiceInit PROVE Bounded
  OBVIOUS
<1>1. TypeOK /\ AskedTogether
  BY NoAnswers, ObservableStates, BoundsAssumption, ConfigurationsAssumption
     DEF ServiceInit, Init, TypeOK, AskedTogether, Cached, Sources
<1>2. Millis(EpochAdjustment) \in Int /\ NodeTime = 0
  BY EpochMillis DEF ServiceInit, NodeTime
<1> QED
  BY <1>1, <1>2, TimeAssumption DEF ServiceInit, Bounded, ServiceTypeOK, NoRequest, NoDeadline

LEMMA BoundedStep == Bounded /\ [ServiceNext]_allVars => Bounded'
<1> SUFFICES ASSUME Bounded, [ServiceNext]_allVars PROVE Bounded'
  OBVIOUS
<1> DEFINE E == Millis(EpochAdjustment)
<1>e. E \in Int /\ MaxTime \in Nat /\ Durations \subseteq Int /\ Skews \subseteq Int
  BY EpochMillis, TimeAssumption
<1>n. NodeTime = now - E /\ NodeTime' = now' - E
  BY DEF NodeTime
<1>l. \A stamp \in Int : LocalTimeOffset(stamp) \in Int
  BY <1>e DEF LocalTimeOffset, LocalTime, Bounded, ServiceTypeOK
<1>f. now \in E..(E + MaxTime)
  BY DEF Bounded, ServiceTypeOK
<1> HIDE DEF E
<1>m. NodeTime \in 0..MaxTime
  BY <1>e, <1>n, <1>f
<1>t. ASSUME UNCHANGED factory PROVE TypeOK' /\ AskedTogether'
  BY <1>t, FactoryTypeStep DEF factory, vars, Bounded, ServiceTypeOK
<1>u. ASSUME UNCHANGED <<now, skew, stage, offset, delay, request, deadline>>, TypeOK', AskedTogether'
      PROVE  Bounded'
  BY <1>u DEF Bounded, ServiceTypeOK, NodeTime
<1> USE DEF Bounded, ServiceTypeOK
<1>0. CASE UNCHANGED allVars
  BY <1>0, <1>t, <1>u DEF allVars, clock, service
<1>1. CASE FactoryStep
  BY <1>1, <1>u, FactoryTypeStep DEF FactoryStep, clock, service
<1>2. CASE Tick
  <2>1. now' \in E..(E + MaxTime) /\ NodeTime' = NodeTime + 1
    BY <1>2, <1>e, <1>f, <1>n DEF Tick, E
  <2> QED
    BY <1>2, <1>t, <1>m, <2>1 DEF Tick, service, E
<1>3. CASE Create
  BY <1>3, <1>t, <1>e, <1>m, <1>n DEF Create, clock, Request
<1>4. CASE NodeStamps
  <2>1. /\ request.state = "sent" /\ stage # "none"
        /\ request' = [request EXCEPT !.state = "stamped", !.stamp = NodeTime]
        /\ UNCHANGED <<now, skew, stage, offset, delay, deadline>>
    BY <1>4 DEF NodeStamps, clock, service, NoRequest
  <2>2. /\ request' \in [state : {"none", "sent", "stamped"}, asked : 0..MaxTime, stamp : 0..MaxTime,
                         duration : Durations \union {0}]
        /\ request'.state = "stamped" /\ request'.stamp = NodeTime
    BY <2>1, <1>m
  <2>3. NodeTime' = NodeTime /\ TypeOK' /\ AskedTogether'
    BY <1>4, <1>t, <1>n, <2>1 DEF NodeStamps
  <2> QED
    BY <2>1, <2>2, <2>3, <1>m
<1>5. CASE Created
  BY <1>5, <1>t, <1>e, <1>m, <1>n, <1>l DEF Created, clock, NoRequest
<1>6. CASE TimeFails
  BY <1>6, <1>e, <1>m, <1>n, BoundsAssumption DEF TimeFails, clock, NoRequest, TypeOK, AskedTogether
<1>7. CASE ServerTimeArrives
  BY <1>7, <1>t, <1>e, <1>m, <1>n DEF ServerTimeArrives, clock, service, NoRequest
<1>8. ASSUME NEW duration \in Durations, CreateDeadlineUsingOffset(duration) PROVE Bounded'
  BY <1>8, <1>t, <1>n DEF CreateDeadlineUsingOffset, clock, service
<1>9. ASSUME NEW duration \in Durations, CreateDeadlineUsingLocalTime(duration) PROVE Bounded'
  BY <1>9, <1>t, <1>n DEF CreateDeadlineUsingLocalTime, clock, service
<1>10. ASSUME NEW duration \in Durations, CreateDeadlineUsingServerTime(duration) PROVE Bounded'
  BY <1>10, <1>t, <1>e, <1>m, <1>n DEF CreateDeadlineUsingServerTime, clock, service, Request, NoRequest
<1> QED
  BY <1>0, <1>1, <1>2, <1>3, <1>4, <1>5, <1>6, <1>7, <1>8, <1>9, <1>10 DEF ServiceNext

\* ServiceTypeOK, for any callers, configurations, clocks and durations: a source of the
\* factory asks exactly while a read of it is in flight, a caller waits only for what is
\* asked, and the service waits only for a request.
THEOREM ServiceTypeCorrect == ServiceSpec => []ServiceTypeOK
<1>1. Bounded => ServiceTypeOK
  BY DEF Bounded
<1> QED
  BY <1>1, BoundedInit, BoundedStep, PTL DEF ServiceSpec

-----------------------------------------------------------------------------
(* The signing of an aggregate.                                             *)

Inners == {inner \in Seq(Transactions) : Len(inner) \in 1..MaxInner}
Fees == [inner : Nat, required : Nat, stale : BOOLEAN]
Read == [deadline : Deadlines, maxFee : Nat, innerTransactions : Inners]

\* A cosignature is of the hash of what it is of, which need not be what its signer saw.
Genuine == {Cosignature(signer, TransactionHash(of), of, saw) : signer \in Cosigners, of \in Read, saw \in Read}
Announced == {[hash |-> TransactionHash(of), of |-> of] : of \in Read}

\* A fee that was set for as many transactions as there are pays for them and for the
\* cosignatures it foresaw; it was never set for more.
FeeStands(x) ==
    /\ x.fee.inner <= Len(x.innerTransactions)
    /\ (x.fee.inner = Len(x.innerTransactions) /\ ~x.fee.stale) =>
         x.maxFee >= HeaderSize + TransactionSize * Len(x.innerTransactions)
                       + SizePerCosignature * x.fee.required

AggregateInv(a) ==
    /\ a = [innerTransactions |-> a.innerTransactions, cosignatures |-> a.cosignatures, deadline |-> a.deadline,
            maxFee |-> a.maxFee, payloadSize |-> a.payloadSize, transactionInfo |-> a.transactionInfo, fee |-> a.fee]
    /\ a.innerTransactions \in Inners /\ a.deadline \in Deadlines /\ a.maxFee \in Nat
    /\ a.payloadSize \in Nat /\ a.fee \in Fees
    /\ a.cosignatures \in Seq(Genuine) /\ a.transactionInfo \subseteq Announced
    /\ FeeStands(a)

SignedInv(p) ==
    /\ p.innerTransactions \in Inners /\ p.deadline \in Deadlines /\ p.maxFee \in Nat /\ p.fee \in Fees
    /\ p.size = SizeOf(p.innerTransactions, p.cosignatures)
    /\ p.hash = TransactionHash(p)
    /\ p.cosignatures \in Seq(Genuine)
    /\ FeeStands(p)

SigningInv ==
    /\ AggregateInv(aggregate)
    /\ payload # NoPayload => SignedInv(payload)
    /\ collected \subseteq Genuine

-----------------------------------------------------------------------------
(* The hash of at most two transactions tells them apart: the loop of      *)
(* calculateRootHash is then over after one round at most.                 *)

Start(hashes) == [hashes |-> hashes, remaining |-> Len(hashes)]

\* A loop that is over after its first round, of at most two hashes.
LEMMA OneRound ==
    ASSUME NEW hashes, Len(hashes) \in 1..2,
           NEW st, st = IF Len(hashes) = 1 THEN Start(hashes) ELSE Halved(Start(hashes)),
           st.remaining <= 1
    PROVE  CalculateRootHash(hashes) = st.hashes[1]
<1> DEFINE Rounds(r) == r = [n \in 0..Len(hashes) |->
                     IF n = 0 THEN [hashes |-> hashes, remaining |-> Len(hashes)]
                     ELSE LET was == r[n - 1] IN IF was.remaining <= 1 THEN was ELSE Halved(was)]
           round == CHOOSE r : Rounds(r)
           over == [n \in 0..Len(hashes) |-> IF n = 0 THEN Start(hashes) ELSE st]
<1>1. hashes # <<>>
      OBVIOUS
<1>2. CalculateRootHash(hashes) = round[Len(hashes)].hashes[1]
      BY <1>1 DEF CalculateRootHash, WhileRemaining
<1>3. Rounds(over)
  <2>1. ASSUME NEW n \in 0..Len(hashes), n # 0
        PROVE  over[n] = LET was == over[n - 1] IN IF was.remaining <= 1 THEN was ELSE Halved(was)
    <3>1. CASE n = 1
      <4>1. over[n] = st /\ over[n - 1] = Start(hashes)
            BY <3>1, <2>1
      <4>2. Start(hashes).remaining = Len(hashes)
            BY DEF Start
      <4> QED BY <4>1, <4>2
    <3>2. CASE n = 2
      <4>1. over[n] = st /\ over[n - 1] = st
            BY <3>2, <2>1
      <4> QED BY <4>1
    <3> QED BY <2>1, <3>1, <3>2
  <2>2. over[0] = [hashes |-> hashes, remaining |-> Len(hashes)]
        BY DEF Start
  <2> QED BY <2>1, <2>2 DEF Start
<1>4. Rounds(round)
      BY <1>3
<1> HIDE DEF round
<1>5. round[0] = Start(hashes)
      BY <1>4 DEF Start
<1>6. round[1] = st
  <2>1. round[1] = LET was == round[0] IN IF was.remaining <= 1 THEN was ELSE Halved(was)
    <3>1. 1 \in 0..Len(hashes) /\ 1 # 0 /\ 1 - 1 = 0
          OBVIOUS
    <3> HIDE DEF over
    <3> QED BY <1>4, <3>1
  <2>2. Start(hashes).remaining = Len(hashes)
        BY DEF Start
  <2>3. CASE Len(hashes) = 1
        BY <1>5, <2>1, <2>2, <2>3
  <2>4. CASE Len(hashes) = 2
    <3>1. ~(round[0].remaining <= 1) /\ st = Halved(Start(hashes))
          BY <1>5, <2>2, <2>4
    <3> QED BY <1>5, <2>1, <3>1
  <2> QED BY <2>3, <2>4
<1>7. round[Len(hashes)] = st
  <2>1. CASE Len(hashes) = 2
    <3>1. round[2] = LET was == round[1] IN IF was.remaining <= 1 THEN was ELSE Halved(was)
          BY <1>4, <2>1
    <3> QED BY <1>6, <2>1, <3>1
  <2> QED BY <1>6, <2>1
<1> QED BY <1>2, <1>7

LEMMA RootOfOne == ASSUME NEW h PROVE CalculateRootHash(<<h>>) = h
<1>1. Len(<<h>>) = 1 /\ <<h>>[1] = h
      OBVIOUS
<1>2. Start(<<h>>).remaining = 1 /\ Start(<<h>>).hashes = <<h>>
      BY <1>1 DEF Start
<1> QED BY <1>1, <1>2, OneRound

LEMMA RootOfTwo == ASSUME NEW g, NEW h PROVE CalculateRootHash(<<g, h>>) = <<g, h>>
<1> DEFINE start == Start(<<g, h>>)
           pairs == (start.remaining + 1) \div 2
           spliced == SpliceParent(start, 0)
           Steps(s) == s = [k \in 0..pairs |-> IF k = 0 THEN start ELSE SpliceParent(s[k - 1], k - 1)]
           step == CHOOSE s : Steps(s)
           over == [k \in 0..pairs |-> IF k = 0 THEN start ELSE spliced]
<1>1. Len(<<g, h>>) = 2
      OBVIOUS
<1>2. start.remaining = 2 /\ start.hashes = <<g, h>>
      BY <1>1 DEF Start
<1>3. pairs = 1
      BY <1>2
<1>4. Halved(start) = [step[pairs] EXCEPT !.remaining = @ \div 2]
      BY DEF Halved
<1>5. Steps(over)
  <2>1. over[0] = start /\ over[1] = spliced
        BY <1>3
  <2> QED BY <1>3, <2>1
<1>6. Steps(step)
      BY <1>5
<1> HIDE DEF step
<1>7. step[1] = spliced
  <2>1. step[0] = start
        BY <1>3, <1>6
  <2> QED BY <1>3, <1>6, <2>1
<1>8. spliced = [hashes |-> InsertAt(<<g, h>>, 1, <<g, h>>), remaining |-> 2]
  <2>1. <<g, h>>[1] = g /\ <<g, h>>[2] = h
        OBVIOUS
  <2> QED BY <1>2, <2>1 DEF SpliceParent, Hash, Start
<1>9. InsertAt(<<g, h>>, 1, <<g, h>>)[1] = <<g, h>>
      BY DEF InsertAt
<1> HIDE DEF start, spliced
<1>10. Halved(start) = [hashes |-> InsertAt(<<g, h>>, 1, <<g, h>>), remaining |-> 2 \div 2]
      BY <1>3, <1>4, <1>7, <1>8
<1>11. Halved(start).remaining = 1 /\ Halved(start).hashes[1] = <<g, h>>
      BY <1>9, <1>10
<1> QED BY <1>1, <1>11, OneRound DEF start

LEMMA OneOrTwo ==
    ASSUME NEW inner \in Inners
    PROVE  /\ inner \in Seq(Transactions)
           /\ Len(inner) \in Nat /\ Len(inner) >= 1
           /\ Len(inner) <= 2 => (Len(inner) = 1 \/ Len(inner) = 2)
           /\ DOMAIN inner = 1..Len(inner)
<1>1. inner \in Seq(Transactions) /\ Len(inner) \in 1..MaxInner
      BY DEF Inners
<1>2. Len(inner) \in Nat /\ Len(inner) >= 1
      BY <1>1, SigningBoundsAssumption DEF SigningBoundsAssumption
<1>3. ASSUME NEW n \in Nat, n >= 1, n <= 2 PROVE n = 1 \/ n = 2
      BY <1>3
<1>4. DOMAIN inner = 1..Len(inner)
      BY <1>1
<1> HIDE DEF Inners
<1> QED BY <1>1, <1>2, <1>3, <1>4

\* The hash of one transaction is its hash, that of two the pair of theirs.
LEMMA InnerHash ==
    ASSUME NEW inner \in Inners, Len(inner) <= 2
    PROVE  InnerTransactionHash(inner) =
             IF Len(inner) = 1 THEN <<inner[1]>> ELSE <<<<inner[1]>>, <<inner[2]>>>>
<1> DEFINE hashes == [i \in DOMAIN inner |-> <<inner[i]>>]
<1>1. inner \in Seq(Transactions) /\ (Len(inner) = 1 \/ Len(inner) = 2) /\ DOMAIN inner = 1..Len(inner)
      BY OneOrTwo
<1>2. CASE Len(inner) = 1
  <2>1. hashes = <<<<inner[1]>>>>
        BY <1>1, <1>2
  <2> QED BY <1>2, <2>1, RootOfOne DEF InnerTransactionHash
<1>3. CASE Len(inner) = 2
  <2>1. hashes = <<<<inner[1]>>, <<inner[2]>>>>
        BY <1>1, <1>3
  <2> QED BY <1>3, <2>1, RootOfTwo DEF InnerTransactionHash
<1> QED BY <1>1, <1>2, <1>3

LEMMA InnerHashTellsApart ==
    ASSUME NEW x \in Inners, NEW y \in Inners, Len(x) <= 2, Len(y) <= 2,
           InnerTransactionHash(x) = InnerTransactionHash(y)
    PROVE  x = y
<1>1. /\ x \in Seq(Transactions) /\ (Len(x) = 1 \/ Len(x) = 2)
      /\ y \in Seq(Transactions) /\ (Len(y) = 1 \/ Len(y) = 2)
      BY OneOrTwo
<1>2. (IF Len(x) = 1 THEN <<x[1]>> ELSE <<<<x[1]>>, <<x[2]>>>>)
        = (IF Len(y) = 1 THEN <<y[1]>> ELSE <<<<y[1]>>, <<y[2]>>>>)
      BY InnerHash
<1>3. ASSUME NEW s, NEW g, NEW h PROVE <<s>> # <<g, h>>
  <2>1. Len(<<s>>) = 1 /\ Len(<<g, h>>) = 2
        OBVIOUS
  <2> QED BY <2>1
<1>4. Len(x) = Len(y)
      BY <1>1, <1>2, <1>3
<1>5. ASSUME \A i \in 1..Len(x) : x[i] = y[i] PROVE x = y
  <2>1. /\ x = [i \in 1..Len(x) |-> x[i]]
        /\ y = [i \in 1..Len(y) |-> y[i]]
        BY <1>1
  <2>2. [i \in 1..Len(x) |-> x[i]] = [i \in 1..Len(y) |-> y[i]]
        BY <1>4, <1>5
  <2> QED BY <2>1, <2>2
<1>6. CASE Len(x) = 1
  <2>1. x[1] = y[1]
        BY <1>2, <1>4, <1>6
  <2> QED BY <1>5, <1>6, <2>1
<1>7. CASE Len(x) = 2
  <2>1. <<x[1]>> = <<y[1]>> /\ <<x[2]>> = <<y[2]>>
        BY <1>2, <1>4, <1>7
  <2>2. x[1] = y[1] /\ x[2] = y[2]
        BY <2>1
  <2> QED BY <1>5, <1>7, <2>2
<1> QED BY <1>1, <1>6, <1>7

-----------------------------------------------------------------------------
(* Sizes, hashes and fees.                                                  *)

\* The size of so many transactions and cosignatures.
Bytes(length, count) == 168 + 96 * length + 104 * count

LEMMA Sizes ==
    ASSUME NEW inner \in Inners, NEW S \in Seq(Genuine)
    PROVE  /\ Len(S) \in Nat /\ Len(inner) \in Nat
           /\ SizeOf(inner, S) = Bytes(Len(inner), Len(S))
           /\ SizeOf(inner, S) \in Nat
<1>1. Len(S) \in Nat /\ Len(inner) \in Nat
      BY OneOrTwo
<1>2. SizeOf(inner, S) = Bytes(Len(inner), Len(S))
      BY <1>1 DEF SizeOf, HeaderSize, TransactionSize, SizePerCosignature, Bytes
<1>3. Bytes(Len(inner), Len(S)) \in Nat
      BY <1>1 DEF Bytes
<1> QED BY <1>1, <1>2, <1>3

LEMMA MoreBytes ==
    ASSUME NEW length \in Nat, NEW n \in Nat, NEW m \in Nat
    PROVE  /\ Bytes(length, n) \in Nat
           /\ Bytes(length, n + m) = Bytes(length, n) + SizePerCosignature * m
           /\ n <= m => Bytes(length, n) <= Bytes(length, m)
           /\ HeaderSize + TransactionSize * length + SizePerCosignature * n = Bytes(length, n)
<1>1. Bytes(length, n + m) = Bytes(length, n) + 104 * m
      BY DEF Bytes
<1>2. n <= m => Bytes(length, n) <= Bytes(length, m)
      BY DEF Bytes
<1> QED BY <1>1, <1>2 DEF Bytes, HeaderSize, TransactionSize, SizePerCosignature

\* What is signed or read has the hash of what is in it.
LEMMA SameHash ==
    ASSUME NEW p, NEW q, p.deadline = q.deadline, p.maxFee = q.maxFee,
           p.innerTransactions = q.innerTransactions
    PROVE  TransactionHash(p) = TransactionHash(q)
BY DEF TransactionHash

LEMMA ContentsAreRead ==
    ASSUME NEW p, p.deadline \in Deadlines, p.maxFee \in Nat, p.innerTransactions \in Inners
    PROVE  Contents(p) \in Read /\ TransactionHash(Contents(p)) = TransactionHash(p)
<1>1. Contents(p) \in Read
      BY DEF Contents, Read
<1>2. TransactionHash(Contents(p)) = TransactionHash(p)
      BY SameHash DEF Contents
<1> QED BY <1>1, <1>2

LEMMA CosignatureIsGenuine ==
    ASSUME NEW p, p.deadline \in Deadlines, p.maxFee \in Nat, p.innerTransactions \in Inners,
           NEW k \in Cosigners
    PROVE  CosignatureOf(k, p) \in Genuine
BY ContentsAreRead DEF CosignatureOf, Genuine

LEMMA PartsOfGenuine ==
    ASSUME NEW c \in Genuine
    PROVE  c.signer \in Cosigners /\ c.saw \in Read /\ c.of \in Read /\ c.hash = TransactionHash(c.of)
BY DEF Genuine, Cosignature

\* A payload is its aggregate's, with more cosignatures or none.
LEMMA SignedIsItsAggregate ==
    ASSUME NEW a, AggregateInv(a), NEW S \in Seq(Genuine)
    PROVE  SignedInv(SignWith(a)) /\ SignedInv(Appended(SignWith(a), S))
<1> DEFINE signed == SignWith(a)
           sent == Appended(SignWith(a), S)
<1>1. /\ a.innerTransactions \in Inners /\ a.deadline \in Deadlines /\ a.maxFee \in Nat /\ a.fee \in Fees
      /\ a.cosignatures \in Seq(Genuine) /\ FeeStands(a)
      BY DEF AggregateInv
<1>2. /\ signed.innerTransactions = a.innerTransactions /\ signed.deadline = a.deadline
      /\ signed.maxFee = a.maxFee /\ signed.fee = a.fee /\ signed.cosignatures = a.cosignatures
      /\ signed.hash = TransactionHash(a)
      /\ signed.size = SizeOf(a.innerTransactions, a.cosignatures)
      BY DEF SignWith
<1>3. /\ sent.innerTransactions = a.innerTransactions /\ sent.deadline = a.deadline
      /\ sent.maxFee = a.maxFee /\ sent.fee = a.fee /\ sent.cosignatures = a.cosignatures \o S
      /\ sent.hash = TransactionHash(a)
      /\ sent.size = SizeOf(a.innerTransactions, a.cosignatures) + SizePerCosignature * Len(S)
      BY DEF SignWith, Appended
<1> HIDE DEF signed, sent
<1>4. TransactionHash(signed) = TransactionHash(a) /\ TransactionHash(sent) = TransactionHash(a)
      BY <1>2, <1>3, SameHash
<1>5. FeeStands(signed) /\ FeeStands(sent)
      BY <1>1, <1>2, <1>3 DEF FeeStands
<1>6. /\ a.cosignatures \o S \in Seq(Genuine)
      /\ Len(a.cosignatures \o S) = Len(a.cosignatures) + Len(S)
      BY <1>1
<1>7. sent.size = SizeOf(a.innerTransactions, a.cosignatures \o S)
  <2> DEFINE length == Len(a.innerTransactions)
             n == Len(a.cosignatures)
             m == Len(S)
  <2>1. length \in Nat /\ n \in Nat /\ m \in Nat
        BY <1>1, OneOrTwo
  <2>2. SizeOf(a.innerTransactions, a.cosignatures) = Bytes(length, n)
        BY <1>1, Sizes
  <2>3. SizeOf(a.innerTransactions, a.cosignatures \o S) = Bytes(length, n + m)
        BY <1>1, <1>6, Sizes
  <2>4. Bytes(length, n + m) = Bytes(length, n) + SizePerCosignature * m
    <3> HIDE DEF length, n, m
    <3> QED BY <2>1, MoreBytes
  <2> QED BY <1>3, <2>2, <2>3, <2>4
<1>8. SignedInv(signed)
      BY <1>1, <1>2, <1>4, <1>5 DEF SignedInv
<1>9. SignedInv(sent)
      BY <1>1, <1>3, <1>4, <1>5, <1>6, <1>7 DEF SignedInv
<1> QED BY <1>8, <1>9 DEF signed, sent

\* An aggregate that is read from a payload or from REST is the payload's.
LEMMA ReadIsThePayloads ==
    ASSUME NEW p, SignedInv(p), NEW size \in Nat, NEW info \in SUBSET Announced
    PROVE  AggregateInv([innerTransactions |-> p.innerTransactions, cosignatures |-> p.cosignatures,
                         deadline |-> p.deadline, maxFee |-> p.maxFee, payloadSize |-> size,
                         transactionInfo |-> info, fee |-> p.fee])
BY DEF SignedInv, AggregateInv, FeeStands

\* What setMaxFeeForAggregate computes, of a size that is not a remembered one that no
\* longer holds, pays for the transactions and the cosignatures it foresees.
LEMMA FeeOfSize ==
    ASSUME NEW a, AggregateInv(a), NEW required \in Nat
    PROVE  /\ CalculatedSize(a, required) \in Nat
           /\ a.payloadSize \in {0, SizeOf(a.innerTransactions, a.cosignatures)} =>
                CalculatedSize(a, required)
                  >= HeaderSize + TransactionSize * Len(a.innerTransactions) + SizePerCosignature * required
<1> DEFINE n == Len(a.cosignatures)
           size == Size(a)
<1>1. a.innerTransactions \in Inners /\ a.cosignatures \in Seq(Genuine) /\ a.payloadSize \in Nat
      BY DEF AggregateInv
<1>2. n \in Nat /\ Len(a.innerTransactions) \in Nat
      BY <1>1, OneOrTwo
<1>3. /\ SizeOf(a.innerTransactions, a.cosignatures) = Bytes(Len(a.innerTransactions), n)
      /\ SizeOf(a.innerTransactions, a.cosignatures) \in Nat
      BY <1>1, Sizes
<1>4. size \in Nat
      BY <1>1, <1>3 DEF Size
<1>5. CalculatedSize(a, required) = size - n * 104 + 104 * (IF required > n THEN required ELSE n)
      BY DEF CalculatedSize, SizePerCosignature
<1>6. a.payloadSize \in {0, SizeOf(a.innerTransactions, a.cosignatures)} =>
        size = Bytes(Len(a.innerTransactions), n)
      BY <1>3 DEF Size
<1>7. HeaderSize + TransactionSize * Len(a.innerTransactions) + SizePerCosignature * required
        = Bytes(Len(a.innerTransactions), required)
      BY <1>2, MoreBytes
<1> HIDE DEF n, size
<1>8. CASE required > n
  <2>1. PICK more \in Nat : required = n + more
    <3>1. required - n \in Nat /\ required = n + (required - n)
          BY <1>2, <1>8
    <3> QED BY <3>1
  <2>2. CalculatedSize(a, required) = size + 104 * more
        BY <1>2, <1>4, <1>5, <1>8, <2>1
  <2>3. CalculatedSize(a, required) \in Nat
        BY <1>4, <2>1, <2>2
  <2>4. Bytes(Len(a.innerTransactions), required) = Bytes(Len(a.innerTransactions), n) + 104 * more
    <3>1. Bytes(Len(a.innerTransactions), n + more)
            = Bytes(Len(a.innerTransactions), n) + SizePerCosignature * more
      <4> DEFINE length == Len(a.innerTransactions)
      <4>1. length \in Nat /\ n \in Nat /\ more \in Nat
            BY <1>2, <2>1
      <4> HIDE DEF length
      <4>2. Bytes(length, n + more) = Bytes(length, n) + SizePerCosignature * more
            BY <4>1, MoreBytes
      <4> QED BY <4>2 DEF length
    <3>2. SizePerCosignature = 104
          BY DEF SizePerCosignature
    <3> QED BY <2>1, <3>1, <3>2
  <2>5. size = Bytes(Len(a.innerTransactions), n) =>
          CalculatedSize(a, required) = Bytes(Len(a.innerTransactions), required)
        BY <2>2, <2>4
  <2> QED BY <1>6, <1>7, <2>3, <2>5
<1>9. CASE ~(required > n)
  <2>1. CalculatedSize(a, required) = size
        BY <1>2, <1>4, <1>5, <1>9
  <2>2. Bytes(Len(a.innerTransactions), required) <= Bytes(Len(a.innerTransactions), n)
    <3>1. required <= n
          BY <1>2, <1>9
    <3> QED BY <3>1, <1>2, MoreBytes
  <2> QED BY <1>4, <1>6, <1>7, <2>1, <2>2
<1> QED BY <1>8, <1>9

-----------------------------------------------------------------------------
(* Every step keeps the invariant.                                          *)

LEMMA Initially == SigningInit => SigningInv
<1> SUFFICES ASSUME SigningInit PROVE SigningInv
      OBVIOUS
<1>1. PICK t \in Transactions, d \in Deadlines :
        aggregate = [innerTransactions |-> <<t>>, cosignatures |-> <<>>, deadline |-> d,
                     maxFee |-> 0, payloadSize |-> 0, transactionInfo |-> Unannounced, fee |-> NoFee]
      BY DEF SigningInit
<1>2. <<t>> \in Inners
  <2>1. <<t>> \in Seq(Transactions) /\ Len(<<t>>) = 1
        OBVIOUS
  <2>2. 1 \in 1..MaxInner
        BY SigningBoundsAssumption DEF SigningBoundsAssumption
  <2> QED BY <2>1, <2>2 DEF Inners
<1>3. NoFee \in Fees
      BY DEF NoFee, Fees
<1>4. FeeStands(aggregate)
      BY <1>1 DEF FeeStands, NoFee
<1>5. AggregateInv(aggregate)
      BY <1>1, <1>2, <1>3, <1>4 DEF AggregateInv, Unannounced
<1> QED BY <1>5 DEF SigningInv, SigningInit

\* A step that only makes another aggregate.
LEMMA OtherAggregate ==
    ASSUME SigningInv, AggregateInv(aggregate'), UNCHANGED <<payload, collected>>
    PROVE  SigningInv'
BY DEF SigningInv

\* A step that only signs another payload.
LEMMA OtherPayload ==
    ASSUME SigningInv, SignedInv(payload'), UNCHANGED <<aggregate, collected>>
    PROVE  SigningInv'
BY DEF SigningInv

\* A step in which a cosigner sends a cosignature.
LEMMA OneMoreCollected ==
    ASSUME SigningInv, NEW c \in Genuine, collected' = collected \union {c}, UNCHANGED <<aggregate, payload>>
    PROVE  SigningInv'
BY DEF SigningInv

LEMMA AddTransactionsKeeps ==
    ASSUME SigningInv, NEW t \in Transactions, AddTransactions(t)
    PROVE  SigningInv'
<1> DEFINE inner == aggregate.innerTransactions
<1>1. AggregateInv(aggregate)
      BY DEF SigningInv
<1>2. aggregate' = [aggregate EXCEPT !.innerTransactions = Append(inner, t)]
      BY DEF AddTransactions
<1>3. inner \in Seq(Transactions) /\ Len(inner) \in Nat /\ Len(inner) < MaxInner
      BY <1>1, OneOrTwo DEF AggregateInv, AddTransactions
<1>4. Append(inner, t) \in Seq(Transactions) /\ Len(Append(inner, t)) = Len(inner) + 1
      BY <1>3
<1>5. Append(inner, t) \in Inners
  <2>1. Len(inner) + 1 \in 1..MaxInner
        BY <1>3, SigningBoundsAssumption DEF SigningBoundsAssumption
  <2> QED BY <1>4, <2>1 DEF Inners
<1>6. /\ aggregate'.innerTransactions = Append(inner, t) /\ aggregate'.fee = aggregate.fee
      /\ aggregate'.fee.inner \in Nat /\ aggregate'.fee.inner <= Len(inner)
      BY <1>1, <1>2 DEF AggregateInv, Fees, FeeStands
<1>7. FeeStands(aggregate')
  <2>1. aggregate'.fee.inner < Len(aggregate'.innerTransactions)
        BY <1>3, <1>4, <1>6
  <2> QED BY <1>3, <1>4, <1>6, <2>1 DEF FeeStands
<1>8. AggregateInv(aggregate')
      BY <1>1, <1>2, <1>5, <1>7 DEF AggregateInv
<1> QED BY <1>8, OtherAggregate DEF AddTransactions

LEMMA AddCosignaturesKeeps ==
    ASSUME SigningInv, NEW c \in collected, AddCosignatures(c)
    PROVE  SigningInv'
<1>1. AggregateInv(aggregate) /\ c \in Genuine
      BY DEF SigningInv
<1>2. aggregate' = [aggregate EXCEPT !.cosignatures = Append(aggregate.cosignatures, c)]
      BY DEF AddCosignatures
<1>3. Append(aggregate.cosignatures, c) \in Seq(Genuine)
      BY <1>1 DEF AggregateInv
<1>4. AggregateInv(aggregate')
      BY <1>1, <1>2, <1>3 DEF AggregateInv, FeeStands
<1> QED BY <1>4, OtherAggregate DEF AddCosignatures

LEMMA SetMaxFeeKeeps ==
    ASSUME SigningInv, NEW required \in Nat, SetMaxFeeForAggregate(required)
    PROVE  SigningInv'
<1> DEFINE fee == [inner |-> Len(aggregate.innerTransactions), required |-> required,
                   stale |-> aggregate.payloadSize \notin
                               {0, SizeOf(aggregate.innerTransactions, aggregate.cosignatures)}]
<1>1. AggregateInv(aggregate)
      BY DEF SigningInv
<1>2. aggregate' = [aggregate EXCEPT !.maxFee = CalculatedSize(aggregate, required), !.fee = fee]
      BY DEF SetMaxFeeForAggregate
<1>3. CalculatedSize(aggregate, required) \in Nat
      BY <1>1, FeeOfSize
<1>4. Len(aggregate.innerTransactions) \in Nat
      BY <1>1, OneOrTwo DEF AggregateInv
<1>5. fee \in Fees
      BY <1>4 DEF Fees
<1>6. /\ aggregate'.innerTransactions = aggregate.innerTransactions
      /\ aggregate'.fee = fee /\ aggregate'.maxFee = CalculatedSize(aggregate, required)
      BY <1>1, <1>2 DEF AggregateInv
<1>7. FeeStands(aggregate')
  <2>1. aggregate'.fee.inner <= Len(aggregate'.innerTransactions)
        BY <1>4, <1>6
  <2>2. ~fee.stale => CalculatedSize(aggregate, required)
          >= HeaderSize + TransactionSize * Len(aggregate.innerTransactions) + SizePerCosignature * required
        BY <1>1, FeeOfSize
  <2> HIDE DEF fee
  <2>3. fee.required = required
        BY DEF fee
  <2> QED BY <1>6, <2>1, <2>2, <2>3 DEF FeeStands
<1>8. AggregateInv(aggregate')
      BY <1>1, <1>2, <1>3, <1>5, <1>7 DEF AggregateInv
<1> QED BY <1>8, OtherAggregate DEF SetMaxFeeForAggregate

LEMMA ReapplyKeeps ==
    ASSUME SigningInv, NEW d \in Deadlines, ReapplyGiven(d)
    PROVE  SigningInv'
<1>1. AggregateInv(aggregate) /\ aggregate' = [aggregate EXCEPT !.deadline = d]
      BY DEF SigningInv, ReapplyGiven
<1>2. AggregateInv(aggregate')
      BY <1>1 DEF AggregateInv, FeeStands
<1> QED BY <1>2, OtherAggregate DEF ReapplyGiven

LEMMA SignKeeps ==
    ASSUME SigningInv, SignForCosigners
    PROVE  SigningInv'
<1>1. AggregateInv(aggregate) /\ <<>> \in Seq(Genuine)
      BY DEF SigningInv
<1>2. SignedInv(payload')
      BY <1>1, SignedIsItsAggregate DEF SignForCosigners
<1> QED BY <1>2, OtherPayload DEF SignForCosigners

LEMMA CosignPayloadKeeps ==
    ASSUME SigningInv, NEW k \in Cosigners, SignTransactionPayload(k)
    PROVE  SigningInv'
<1>1. SignedInv(payload)
      BY DEF SigningInv, SignTransactionPayload
<1>2. CosignatureOf(k, payload) \in Genuine
      BY <1>1, CosignatureIsGenuine DEF SignedInv
<1> QED BY <1>2, OneMoreCollected DEF SignTransactionPayload

LEMMA CosignAnnouncedKeeps ==
    ASSUME SigningInv, NEW k \in Cosigners, CosignAnnounced(k)
    PROVE  SigningInv'
<1>1. PICK info \in aggregate.transactionInfo : collected' = collected \union {CosignatureWith(k, info)}
      BY DEF CosignAnnounced
<1>2. PICK of \in Read : info = [hash |-> TransactionHash(of), of |-> of]
      BY <1>1 DEF SigningInv, AggregateInv, Announced
<1>3. Contents(aggregate) \in Read
      BY ContentsAreRead DEF SigningInv, AggregateInv
<1>4. CosignatureWith(k, info) \in Genuine
      BY <1>2, <1>3 DEF CosignatureWith, Genuine
<1> QED BY <1>1, <1>4, OneMoreCollected DEF CosignAnnounced

LEMMA GivenSignaturesKeep ==
    ASSUME SigningInv, NEW S \in Seq(collected), SignTransactionGivenSignatures(S)
    PROVE  SigningInv'
<1>1. S \in Seq(Genuine) /\ AggregateInv(aggregate)
      BY DEF SigningInv
<1>2. SignedInv(payload')
      BY <1>1, SignedIsItsAggregate DEF SignTransactionGivenSignatures
<1> QED BY <1>2, OtherPayload DEF SignTransactionGivenSignatures

LEMMA WithCosignatoriesKeep ==
    ASSUME SigningInv, NEW K \in Seq(Cosigners), SignTransactionWithCosignatories(K)
    PROVE  SigningInv'
<1> DEFINE S == [i \in DOMAIN K |-> CosignatureOf(K[i], aggregate)]
<1>1. AggregateInv(aggregate)
      BY DEF SigningInv
<1>2. \A k \in Cosigners : CosignatureOf(k, aggregate) \in Genuine
      BY <1>1, CosignatureIsGenuine DEF AggregateInv
<1>3. S \in Seq(Genuine)
  <2>1. DOMAIN K = 1..Len(K) /\ Len(K) \in Nat /\ \A i \in 1..Len(K) : K[i] \in Cosigners
        OBVIOUS
  <2>2. S \in [1..Len(K) -> Genuine]
        BY <1>2, <2>1
  <2> QED BY <2>1, <2>2
<1>4. payload' = Appended(SignWith(aggregate), S)
      BY DEF SignTransactionWithCosignatories
<1> HIDE DEF S
<1>5. SignedInv(payload')
      BY <1>1, <1>3, <1>4, SignedIsItsAggregate
<1> QED BY <1>5, OtherPayload DEF SignTransactionWithCosignatories

LEMMA CreatedKeep ==
    ASSUME SigningInv, CreateFromPayload \/ CreateFromDTO
    PROVE  SigningInv'
<1>1. SignedInv(payload)
      BY DEF SigningInv, CreateFromPayload, CreateFromDTO
<1>2. payload.size \in Nat
      BY <1>1, Sizes DEF SignedInv
<1>a. Unannounced \subseteq Announced /\ AnnouncedAs(payload) \subseteq Announced
      BY <1>1, ContentsAreRead DEF SignedInv, Unannounced, AnnouncedAs, Announced
<1>3. AggregateInv(aggregate')
  <2>1. CASE CreateFromPayload
        BY <1>1, <1>a, <2>1, ReadIsThePayloads DEF CreateFromPayload
  <2>2. CASE CreateFromDTO
        BY <1>1, <1>2, <1>a, <2>2, ReadIsThePayloads DEF CreateFromDTO
  <2> QED BY <2>1, <2>2
<1> QED BY <1>3, OtherAggregate DEF CreateFromPayload, CreateFromDTO

\* SigningInv is inductive.
LEMMA StepsKeepIt == SigningInv /\ [SigningNext]_signingVars => SigningInv'
<1> SUFFICES ASSUME SigningInv, [SigningNext]_signingVars PROVE SigningInv'
      OBVIOUS
<1>1. ASSUME NEW t \in Transactions, AddTransactions(t) PROVE SigningInv'
      BY <1>1, AddTransactionsKeeps
<1>2. ASSUME NEW c \in collected, AddCosignatures(c) PROVE SigningInv'
      BY <1>2, AddCosignaturesKeeps
<1>3. ASSUME NEW required \in 1..Cardinality(Cosigners), SetMaxFeeForAggregate(required) PROVE SigningInv'
      BY <1>3, SetMaxFeeKeeps, CosignersAssumption, FS_CardinalityType DEF CosignersAssumption
<1>4. ASSUME NEW d \in Deadlines, ReapplyGiven(d) PROVE SigningInv'
      BY <1>4, ReapplyKeeps
<1>5. CASE SignForCosigners
      BY <1>5, SignKeeps
<1>6. ASSUME NEW k \in Cosigners, SignTransactionPayload(k) \/ CosignAnnounced(k) PROVE SigningInv'
      BY <1>6, CosignPayloadKeeps, CosignAnnouncedKeeps
<1>s. \A T : SeqOf(T, MaxAttached) \subseteq Seq(T)
      BY DEF SeqOf
<1>7. ASSUME NEW S \in SeqOf(collected, MaxAttached), SignTransactionGivenSignatures(S) PROVE SigningInv'
      BY <1>7, <1>s, GivenSignaturesKeep
<1>8. ASSUME NEW K \in SeqOf(Cosigners, MaxAttached), SignTransactionWithCosignatories(K) PROVE SigningInv'
      BY <1>8, <1>s, WithCosignatoriesKeep
<1>9. CASE CreateFromPayload \/ CreateFromDTO
      BY <1>9, CreatedKeep
<1>10. CASE UNCHANGED signingVars
      BY <1>10 DEF signingVars, SigningInv
<1> QED BY <1>1, <1>2, <1>3, <1>4, <1>5, <1>6, <1>7, <1>8, <1>9, <1>10 DEF SigningNext

LEMMA SigningInvHolds == SigningSpec => []SigningInv
BY Initially, StepsKeepIt, PTL DEF SigningSpec

-----------------------------------------------------------------------------
(* Results.                                                                 *)

LEMMA CosignedAreGenuine ==
    ASSUME SigningInv, NEW c \in Cosigned
    PROVE  SignedInv(payload) /\ c \in Genuine
<1>1. payload # NoPayload /\ c \in ToSet(payload.cosignatures)
      BY DEF Cosigned
<1>2. SignedInv(payload)
      BY <1>1 DEF SigningInv
<1> QED BY <1>1, <1>2 DEF SignedInv, ToSet

\* SigningTypeOK: a payload says its own size and hash, however its cosignatures came into it,
\* and all variables keep their types (signTransactionGivenSignatures,
\* signTransactionWithCosignatories).
THEOREM SigningTypeCorrect == SigningSpec => []SigningTypeOK
<1>1. SigningInv => SigningTypeOK
  <2> SUFFICES ASSUME SigningInv PROVE SigningTypeOK
        OBVIOUS
  <2>1. /\ aggregate.deadline \in Deadlines /\ aggregate.maxFee \in Nat
        /\ Len(aggregate.innerTransactions) \in 1..MaxInner
        BY DEF SigningInv, AggregateInv, Inners
  <2>2. \A c \in collected \union Cosigned : c.signer \in Cosigners
        BY PartsOfGenuine, CosignedAreGenuine DEF SigningInv
  <2>3. ASSUME payload # NoPayload
        PROVE  /\ payload.size = SizeOf(payload.innerTransactions, payload.cosignatures)
               /\ payload.hash = TransactionHash(payload)
        BY <2>3 DEF SigningInv, SignedInv
  <2> QED BY <2>1, <2>2, <2>3 DEF SigningTypeOK
<1> QED BY <1>1, SigningInvHolds, PTL

\* CosignaturesMatchContents: a cosignature that is sent is of the payload's hash exactly if
\* its signer saw what is sent, for contents of at most two transactions, unless what the
\* signer saw was changed after REST gave it with its hash (createTransactionHash,
\* calculateRootHash, CosignatureTransaction.signWith).
THEOREM OnlyWhatWasReadIsCosigned == SigningSpec => []CosignaturesMatchContents
<1>1. SigningInv => CosignaturesMatchContents
  <2> SUFFICES ASSUME SigningInv, NEW c \in Cosigned
               PROVE  /\ AsAnnounced(c) /\ c.saw = Contents(payload) => c.hash = payload.hash
                      /\ (/\ AsAnnounced(c) /\ c.hash = payload.hash
                          /\ Len(payload.innerTransactions) <= 2 /\ Len(c.saw.innerTransactions) <= 2)
                              => c.saw = Contents(payload)
        BY DEF CosignaturesMatchContents, CosignedContentsAreValid, ValidIsCosignedContents
  <2>1. SignedInv(payload) /\ c \in Genuine
        BY CosignedAreGenuine
  <2>2. /\ c.saw \in Read /\ payload.hash = TransactionHash(payload)
        /\ AsAnnounced(c) => c.hash = TransactionHash(c.saw)
        BY <2>1, PartsOfGenuine DEF SignedInv, AsAnnounced
  <2>3. c.saw = Contents(payload) => TransactionHash(c.saw) = TransactionHash(payload)
        BY SameHash DEF Contents
  <2>4. ASSUME TransactionHash(c.saw) = TransactionHash(payload),
               Len(payload.innerTransactions) <= 2, Len(c.saw.innerTransactions) <= 2
        PROVE  c.saw = Contents(payload)
    <3>1. /\ c.saw.deadline = payload.deadline /\ c.saw.maxFee = payload.maxFee
          /\ InnerTransactionHash(c.saw.innerTransactions) = InnerTransactionHash(payload.innerTransactions)
          BY <2>4 DEF TransactionHash
    <3>2. c.saw.innerTransactions \in Inners /\ payload.innerTransactions \in Inners
          BY <2>1, <2>2 DEF Read, SignedInv
    <3>3. c.saw.innerTransactions = payload.innerTransactions
          BY <2>4, <3>1, <3>2, InnerHashTellsApart
    <3> QED BY <2>2, <3>1, <3>3 DEF Read, Contents
  <2> QED BY <2>2, <2>3, <2>4
<1> QED BY <1>1, SigningInvHolds, PTL

\* FeeCovers: a fee that was set for the transactions of a payload, and of a size that still
\* held, pays for the payload with as many cosignatures as were foreseen
\* (setMaxFeeForAggregate).
THEOREM FeePays == SigningSpec => []FeeCovers
<1>1. SigningInv => FeeCovers
  <2> SUFFICES ASSUME SigningInv, payload # NoPayload,
                      payload.fee.inner = Len(payload.innerTransactions), ~payload.fee.stale,
                      Len(payload.cosignatures) <= payload.fee.required
               PROVE  payload.maxFee >= payload.size
        BY DEF FeeCovers
  <2>1. SignedInv(payload)
        BY DEF SigningInv
  <2>2. /\ payload.innerTransactions \in Inners /\ payload.maxFee \in Nat /\ payload.fee.required \in Nat
        /\ payload.cosignatures \in Seq(Genuine)
        BY <2>1 DEF SignedInv, Fees
  <2>3. Len(payload.innerTransactions) \in Nat /\ Len(payload.cosignatures) \in Nat
        BY <2>2, Sizes
  <2>4. payload.maxFee >= Bytes(Len(payload.innerTransactions), payload.fee.required)
    <3>1. HeaderSize + TransactionSize * Len(payload.innerTransactions)
            + SizePerCosignature * payload.fee.required
              = Bytes(Len(payload.innerTransactions), payload.fee.required)
          BY <2>2, <2>3, MoreBytes
    <3> QED BY <3>1, <2>1 DEF SignedInv, FeeStands
  <2>5. payload.size = Bytes(Len(payload.innerTransactions), Len(payload.cosignatures))
        BY <2>1, <2>2, Sizes DEF SignedInv
  <2>6. /\ payload.size \in Nat /\ Bytes(Len(payload.innerTransactions), payload.fee.required) \in Nat
        /\ payload.size <= Bytes(Len(payload.innerTransactions), payload.fee.required)
    <3> DEFINE length == Len(payload.innerTransactions)
               n == Len(payload.cosignatures)
               required == payload.fee.required
    <3>1. length \in Nat /\ n \in Nat /\ required \in Nat /\ n <= required
          BY <2>2, <2>3
    <3> HIDE DEF length, n, required
    <3>2. Bytes(length, n) \in Nat /\ Bytes(length, required) \in Nat /\ Bytes(length, n) <= Bytes(length, required)
          BY <3>1, MoreBytes
    <3> QED BY <2>5, <3>2 DEF length, n, required
  <2> QED BY <2>2, <2>4, <2>6
<1> QED BY <1>1, SigningInvHolds, PTL
=============================================================================
