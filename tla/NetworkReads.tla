------------------------------- MODULE NetworkReads -------------------------------
(***************************************************************************)
(* What RepositoryFactoryHttp                                              *)
(* (src/src/infrastructure/RepositoryFactoryHttp.ts) reads from the node   *)
(* once and keeps: the network type, the epoch adjustment, the generation  *)
(* hash and public key of the node, and the currencies that CurrencyService *)
(* (src/src/service/CurrencyService.ts) puts together from three reads.    *)
(* Several callers share one factory; the node may be set up anew between  *)
(* two reads, and reads fail.                                              *)
(***************************************************************************)
EXTENDS Integers

CONSTANTS Callers,
          Configurations,   \* sets of settings a factory may be created with
          WithoutEpoch,     \* the setups of the node whose properties lack the epoch adjustment
          MaxSetup,         \* bound: how often the node is set up anew
          MaxFailures       \* bound: how many reads fail

Settings == {"networkType", "generationHash", "nodePublicKey", "epochAdjustment",
             "networkCurrencies"}

ASSUME ConfigurationsAssumption == Configurations \subseteq SUBSET Settings
ASSUME BoundsAssumption == MaxSetup \in Nat /\ MaxFailures \in Nat

Getters == {"getNetworkType", "getGenerationHash", "getNodePublicKey", "getEpochAdjustment",
            "getCurrencies"}

\* The setting that stands for what a getter gives.
SettingOf == [getNetworkType |-> "networkType", getGenerationHash |-> "generationHash",
              getNodePublicKey |-> "nodePublicKey", getEpochAdjustment |-> "epochAdjustment",
              getCurrencies |-> "networkCurrencies"]

Sources == {"networkType", "networkProperties", "nodeInfo", "networkCurrencies"}
Cached == Sources \union {"epochAdjustment"}
Reads == {"nodeInfo", "networkProperties", "mosaics", "mosaicsNames"}

VARIABLES configured,  \* the settings of this factory
          setup,       \* how often the node has been set up anew: what its answers depend on
          failures,    \* how many reads have failed
          cache,       \* each cached observable: nothing, "asking" or the answer kept
          pending,     \* the reads in flight of each source
          seen,        \* the setup each answered read of it met
          call         \* each caller: the getter it called and what it was given

vars == <<configured, setup, failures, cache, pending, seen, call>>

Nothing == [state |-> "nothing", value |-> <<>>]
Asking == [state |-> "asking", value |-> <<>>]
Kept(value) == [state |-> "kept", value |-> value]

\* shareReplay(1): an answer is kept, an error makes the next subscriber ask again.  The
\* slips are plausible bugs of these; no specification uses them.
SlipShared(value) == Nothing
AfterAnswer(value) == Kept(value)
SlipSubjectKept == Asking
AfterError == Nothing

-----------------------------------------------------------------------------
\* Both settings have to be given for either of them to be used.
Needs(getter) == IF getter \in {"getGenerationHash", "getNodePublicKey"}
                 THEN {"generationHash", "nodePublicKey"}
                 ELSE {SettingOf[getter]}

\* The node's information is read once for both of its getters.
CachedBy(getter) == IF getter \in {"getGenerationHash", "getNodePublicKey"} THEN "nodeInfo"
                    ELSE SettingOf[getter]

\* The epoch adjustment is taken from the network properties, themselves cached.
SourceOf(name) == IF name = "epochAdjustment" THEN "networkProperties" ELSE name

FirstRead(source) == IF source \in {"networkType", "nodeInfo"} THEN "nodeInfo"
                     ELSE "networkProperties"

\* getNetworkCurrencies reads the properties, then the two mosaics and their names at once.
After(source, read) == IF source = "networkCurrencies" /\ read = "networkProperties"
                       THEN {"mosaics", "mosaicsNames"} ELSE {}

\* parseServerDuration refuses properties without an epoch adjustment.
HasEpoch(value) == value["networkProperties"] \notin WithoutEpoch

Given(c, getter, value) == [call EXCEPT ![c] = [getter |-> getter, state |-> "given",
                                                value |-> value]]

\* The answers so far, and what read met.
Told(answers, read, met) == [r \in DOMAIN answers \union {read} |->
                                IF r = read THEN met ELSE answers[r]]

\* The callers that wait for one of names.
Settled(names, state, value) ==
    [c \in Callers |-> IF call[c].state = "waiting" /\ CachedBy(call[c].getter) \in names
                       THEN [call[c] EXCEPT !.state = state, !.value = value] ELSE call[c]]

-----------------------------------------------------------------------------
Init == /\ configured \in Configurations
        /\ setup = 0
        /\ failures = 0
        /\ cache = [name \in Cached |-> Nothing]
        /\ pending = [source \in Sources |-> {}]
        /\ seen = [source \in Sources |-> <<>>]
        /\ call \in [Callers -> [getter : Getters, state : {"idle"}, value : {<<>>}]]

(* A caller subscribes to the observable a getter returns: one whose value  *)
(* was configured,                                                          *)
GetConfigured(c) ==
    LET getter == call[c].getter
    IN  /\ call[c].state \in {"idle", "refused"}
        /\ Needs(getter) \subseteq configured
        /\ call' = Given(c, getter, <<>>)
        /\ UNCHANGED <<configured, setup, failures, cache, pending, seen>>

(* one that keeps an answer,                                                *)
GetKept(c) ==
    LET getter == call[c].getter
    IN  /\ call[c].state \in {"idle", "refused"}
        /\ ~ Needs(getter) \subseteq configured
        /\ cache[CachedBy(getter)].state = "kept"
        /\ call' = Given(c, getter, cache[CachedBy(getter)].value)
        /\ UNCHANGED <<configured, setup, failures, cache, pending, seen>>

(* the epoch adjustment of kept properties that lack it: the mapper throws  *)
(* again, and nothing is read,                                              *)
GetUnmapped(c) ==
    /\ call[c].state \in {"idle", "refused"}
    /\ call[c].getter = "getEpochAdjustment"
    /\ ~ Needs("getEpochAdjustment") \subseteq configured
    /\ cache["epochAdjustment"].state = "nothing"
    /\ cache["networkProperties"].state = "kept"
    /\ call' = [call EXCEPT ![c].state = "refused"]
    /\ UNCHANGED <<configured, setup, failures, cache, pending, seen>>

(* or one that has to ask, or is asking already.                            *)
GetAsked(c) ==
    LET name == CachedBy(call[c].getter)
        source == SourceOf(name)
    IN  /\ call[c].state \in {"idle", "refused"}
        /\ ~ Needs(call[c].getter) \subseteq configured
        /\ cache[name].state # "kept"
        /\ cache[source].state # "kept"
        /\ call' = [call EXCEPT ![c].state = "waiting"]
        /\ IF cache[source].state = "asking"
           THEN UNCHANGED <<cache, pending, seen>>
           ELSE /\ cache' = [cache EXCEPT ![name] = Asking, ![source] = Asking]
                /\ pending' = [pending EXCEPT ![source] = {FirstRead(source)}]
                /\ seen' = [seen EXCEPT ![source] = <<>>]
        /\ UNCHANGED <<configured, setup, failures>>

Get(c) == GetConfigured(c) \/ GetKept(c) \/ GetUnmapped(c) \/ GetAsked(c)

(* The node answers a read.  The last one of a source settles it, and the   *)
(* epoch adjustment with the properties it is taken from.                   *)
Answered(source, read) ==
    LET value == Told(seen[source], read, setup)
        names == IF source = "networkProperties" THEN {source, "epochAdjustment"} ELSE {source}
        reads == (pending[source] \ {read}) \union After(source, read)
    IN  /\ read \in pending[source]
        /\ pending' = [pending EXCEPT ![source] = reads]
        /\ IF reads # {}
           THEN /\ seen' = [seen EXCEPT ![source] = value]
                /\ UNCHANGED <<cache, call>>
           ELSE /\ seen' = [seen EXCEPT ![source] = <<>>]
                /\ IF source = "networkProperties" /\ ~HasEpoch(value)
                   THEN /\ cache' = [cache EXCEPT ![source] = AfterAnswer(value),
                                                  !["epochAdjustment"] = AfterError]
                        /\ call' = Settled(names, "refused", <<>>)
                   ELSE /\ cache' = [name \in Cached |-> IF name \in names THEN AfterAnswer(value)
                                                         ELSE cache[name]]
                        /\ call' = Settled(names, "given", value)
        /\ UNCHANGED <<configured, setup, failures>>

(* A read fails, or the SDK refuses what was read; the other reads of the   *)
(* source are given up.                                                     *)
Fails(source, read) ==
    LET names == IF source = "networkProperties" THEN {source, "epochAdjustment"} ELSE {source}
    IN  /\ read \in pending[source]
        /\ failures < MaxFailures
        /\ failures' = failures + 1
        /\ pending' = [pending EXCEPT ![source] = {}]
        /\ seen' = [seen EXCEPT ![source] = <<>>]
        /\ cache' = [name \in Cached |-> IF name \in names THEN AfterError ELSE cache[name]]
        /\ call' = Settled(names, "refused", <<>>)
        /\ UNCHANGED <<configured, setup>>

(* The node restarts with other properties, keys or currencies.             *)
SetUpAnew == /\ setup < MaxSetup
             /\ setup' = setup + 1
             /\ UNCHANGED <<configured, failures, cache, pending, seen, call>>

Replied(source, read) == Answered(source, read) \/ Fails(source, read)

Next == \/ \E c \in Callers : Get(c)
        \/ \E source \in Sources, read \in Reads : Replied(source, read)
        \/ SetUpAnew

\* A caller that was refused calls again; every request is answered or fails, as fetch
\* settles its promises.
Fairness == /\ \A c \in Callers : WF_vars(Get(c))
            /\ \A source \in Sources, read \in Reads : WF_vars(Replied(source, read))

Spec == Init /\ [][Next]_vars /\ Fairness

-----------------------------------------------------------------------------
Answers == UNION {[reads -> 0..MaxSetup] : reads \in SUBSET Reads}
Observable == {Nothing, Asking} \union {Kept(value) : value \in Answers}

\* Every variable has its type; a source asks exactly while a read of it is in flight, and
\* a caller waits only for what is being asked (cache, shareReplay).
TypeOK ==
    /\ configured \in Configurations
    /\ setup \in 0..MaxSetup
    /\ failures \in 0..MaxFailures
    /\ cache \in [Cached -> Observable]
    /\ pending \in [Sources -> SUBSET Reads]
    /\ seen \in [Sources -> Answers]
    /\ call \in [Callers -> [getter : Getters, state : {"idle", "waiting", "given", "refused"},
                             value : Answers]]
    /\ \A source \in Sources : pending[source] # {} <=> cache[source].state = "asking"
    /\ \A c \in Callers : call[c].state = "waiting" => cache[CachedBy(call[c].getter)].state = "asking"

\* Whatever two callers were given at any two times, out of the same read of the node they
\* were given the same: one generation hash, and a public key of the same node, however
\* often the node was set up anew in between (cache; nodeInfoObservable).
CallersAgree ==
    \A c, d \in Callers :
       (/\ call[c].state = "given" /\ call[d].state = "given"
        /\ CachedBy(call[c].getter) = CachedBy(call[d].getter))
          => call[c].value = call[d].value

\* The kept properties lack the epoch adjustment, which no later call can repair.
EpochIsLost == /\ cache["networkProperties"].state = "kept"
               /\ ~HasEpoch(cache["networkProperties"].value)

\* A failed read is not remembered: a caller that calls again is given its answer in the
\* end, unless the properties that were kept lack what it asks for (cache).
AnsweredInTheEnd ==
    \A c \in Callers : <>(\/ call[c].state = "given"
                          \/ call[c].getter = "getEpochAdjustment" /\ EpochIsLost)

\* "optional node generation hash if you don't want to load it from the server"
\* (RepositoryFactoryConfig.ts:26): it is loaded, unless the public key is given as well.
ConfiguredIsNotLoaded ==
    \A c \in Callers : SettingOf[call[c].getter] \in configured => call[c].state # "waiting"
=============================================================================
