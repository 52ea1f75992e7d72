------------------------------ MODULE DeadlineService ------------------------------
(***************************************************************************)
(* DeadlineService (src/src/service/DeadlineService.ts) with Deadline      *)
(* (src/src/model/transaction/Deadline.ts), over the factory of            *)
(* NetworkReads: the service takes the epoch adjustment from the factory,  *)
(* asks the node for its time once, and from then on makes deadlines from  *)
(* the local clock and the difference it found.  Clocks run alike, the     *)
(* local one Skew ahead of the node's; a request takes time, and the node  *)
(* stamps it when it receives it.                                          *)
(***************************************************************************)
EXTENDS NetworkReads

CONSTANTS Service,           \* a caller; it creates the service if it asks for the epoch
          EpochAdjustment,   \* of the network, in seconds
          MillisPerSecond,   \* a second is this many units of time
          Skews,             \* how far the local clock may be ahead of the node's
          Durations,         \* what deadlines are asked for
          MaxTime            \* bound: the units of time that pass

ASSUME ServiceAssumption == Service \in Callers
ASSUME TimeAssumption == /\ EpochAdjustment \in Nat /\ MillisPerSecond \in Nat \ {0}
                         /\ Skews \subseteq Int /\ Durations \subseteq Int /\ MaxTime \in Nat

VARIABLES now,       \* the node's time since 1970, from where the model starts
          skew,      \* how far the local clock is ahead
          stage,     \* of the service: "none", "asking", "ready"
          offset,    \* localTimeOffset
          delay,     \* how long the answer that gave it took, a history variable
          request,   \* the getNodeTime call in flight
          deadline   \* the deadline made; bound: one, at any time

factory == vars
clock == <<now, skew>>
service == <<stage, offset, delay>>
allVars == <<factory, clock, service, request, deadline>>

Millis(seconds) == seconds * MillisPerSecond
NodeTime == now - Millis(EpochAdjustment)       \* what getNodeTime gives
LocalTime == now + skew                         \* Instant.now()

NoRequest == [state |-> "none", asked |-> 0, stamp |-> 0, duration |-> 0]
Request(duration) == [state |-> "sent", asked |-> NodeTime, stamp |-> 0, duration |-> duration]
NoDeadline == [by |-> "none", adjustedValue |-> 0, from |-> 0, to |-> 0, duration |-> 0]

\* The difference between the two clocks, as if the answer had taken no time.  The slips
\* are plausible bugs; no specification uses them.
SlipEpochForgotten(stamp) == LocalTime - stamp
LocalTimeOffset(stamp) == LocalTime - Millis(EpochAdjustment) - stamp

SlipOffsetAdded(duration) == LocalTime + duration + offset - Millis(EpochAdjustment)
UsingOffset(duration) == LocalTime + duration - offset - Millis(EpochAdjustment)

-----------------------------------------------------------------------------
ServiceInit ==
    /\ Init
    /\ now = Millis(EpochAdjustment)
    /\ skew \in Skews
    /\ stage = "none" /\ offset = 0 /\ delay = 0
    /\ request = NoRequest
    /\ deadline = NoDeadline

FactoryStep == Next /\ UNCHANGED <<clock, service, request, deadline>>

Tick == /\ now < Millis(EpochAdjustment) + MaxTime
        /\ stage # "none"
        /\ now' = now + 1
        /\ UNCHANGED <<factory, skew, service, request, deadline>>

(* create(), once the factory has given the epoch adjustment.               *)
Create == /\ stage = "none"
          /\ call[Service].getter = "getEpochAdjustment"
          /\ call[Service].state = "given"
          /\ stage' = "asking"
          /\ request' = Request(0)
          /\ UNCHANGED <<factory, clock, offset, delay, deadline>>

(* The node receives a getNodeTime request.                                 *)
NodeStamps == /\ request.state = "sent"
              /\ request' = [request EXCEPT !.state = "stamped", !.stamp = NodeTime]
              /\ UNCHANGED <<factory, clock, service, deadline>>

(* The answer of create() arrives: the constructor runs.                    *)
Created == /\ stage = "asking"
           /\ request.state = "stamped"
           /\ stage' = "ready"
           /\ offset' = LocalTimeOffset(request.stamp)
           /\ delay' = NodeTime - request.stamp
           /\ request' = NoRequest
           /\ UNCHANGED <<factory, clock, deadline>>

(* A getNodeTime request fails; create() or createDeadlineUsingServerTime() *)
(* rejects, and create() is called again.                                   *)
TimeFails == /\ request.state # "none"
             /\ failures < MaxFailures
             /\ failures' = failures + 1
             /\ stage' = IF stage = "asking" THEN "none" ELSE stage
             /\ request' = NoRequest
             /\ UNCHANGED <<configured, setup, cache, pending, seen, call, clock, offset, delay,
                            deadline>>

CreateDeadlineUsingOffset(duration) ==
    /\ stage = "ready"
    /\ deadline = NoDeadline
    /\ deadline' = [by |-> "offset", adjustedValue |-> UsingOffset(duration),
                    from |-> NodeTime, to |-> NodeTime, duration |-> duration]
    /\ UNCHANGED <<factory, clock, service, request>>

(* Only this one refuses a duration that is not positive.                   *)
CreateDeadlineUsingLocalTime(duration) ==
    /\ stage = "ready"
    /\ deadline = NoDeadline
    /\ duration > 0
    /\ deadline' = [by |-> "local",
                    adjustedValue |-> LocalTime + duration - Millis(EpochAdjustment),
                    from |-> NodeTime, to |-> NodeTime, duration |-> duration]
    /\ UNCHANGED <<factory, clock, service, request>>

CreateDeadlineUsingServerTime(duration) ==
    /\ stage = "ready"
    /\ deadline = NoDeadline
    /\ request.state = "none"
    /\ request' = Request(duration)
    /\ UNCHANGED <<factory, clock, service, deadline>>

ServerTimeArrives ==
    /\ stage = "ready"
    /\ request.state = "stamped"
    /\ deadline' = [by |-> "server", adjustedValue |-> request.stamp + request.duration,
                    from |-> request.asked, to |-> NodeTime, duration |-> request.duration]
    /\ request' = NoRequest
    /\ UNCHANGED <<factory, clock, service>>

ServiceNext == \/ FactoryStep
               \/ Tick \/ Create \/ NodeStamps \/ Created \/ TimeFails \/ ServerTimeArrives
               \/ \E duration \in Durations : \/ CreateDeadlineUsingOffset(duration)
                                              \/ CreateDeadlineUsingLocalTime(duration)
                                              \/ CreateDeadlineUsingServerTime(duration)

ServiceSpec == ServiceInit /\ [][ServiceNext]_allVars /\ Fairness

-----------------------------------------------------------------------------
\* Every variable has its type; the request in flight is create()'s until the service is
\* there, and no answer takes longer than the time that passes.
ServiceTypeOK ==
    /\ TypeOK
    /\ now \in Millis(EpochAdjustment)..(Millis(EpochAdjustment) + MaxTime)
    /\ skew \in Skews
    /\ stage \in {"none", "asking", "ready"}
    /\ offset \in Int
    /\ delay \in 0..MaxTime
    /\ request \in [state : {"none", "sent", "stamped"}, asked : 0..MaxTime, stamp : 0..MaxTime,
                    duration : Durations \union {0}]
    /\ stage = "asking" => request.state # "none"
    /\ deadline.by \in {"none", "offset", "local", "server"}

\* A deadline is the node's time plus the duration asked for: made with the offset, it is
\* early by what the answer to create() took and never late, whatever the local clock
\* shows; made with the node's time, it counts from a time within its own request; made
\* with the local time, it is off by as much as the local clock is
\* (DeadlineService.constructor, createDeadlineUsing...).
DeadlineFollowsServer ==
    LET start == deadline.adjustedValue - deadline.duration
    IN  /\ deadline.by = "offset" => start = deadline.from - delay
        /\ deadline.by = "server" => start \in deadline.from..deadline.to
        /\ deadline.by = "local" => start = deadline.from + skew
=============================================================================
