---------------------------- MODULE NotificationFeed ----------------------------
(***************************************************************************)
(* What the documentation of the Listener's streams promises               *)
(* (src/src/infrastructure/IListener.ts): a stream emits transactions that *)
(* concern its account and match its hash, each at most as often as the    *)
(* node reported it, and never one that was not reported.                  *)
(***************************************************************************)
EXTENDS Naturals

CONSTANTS Streams,            \* the streams of one Listener
          Notifications,      \* what the node reports: a transaction on a channel
          Concerns(_, _)      \* Concerns(s, n): stream s asked for notification n

VARIABLES reported,           \* how often the node has reported each notification
          emitted             \* how often each stream has emitted it

Init == /\ reported = [n \in Notifications |-> 0]
        /\ emitted = [s \in Streams |-> [n \in Notifications |-> 0]]

Report(n) == /\ reported' = [reported EXCEPT ![n] = @ + 1]
             /\ UNCHANGED emitted

\* One message from the gateway may make any number of streams emit.
Emit(n) == /\ emitted' \in [Streams -> [Notifications -> Nat]]
           /\ \A s \in Streams :
                \/ emitted'[s] = emitted[s]
                \/ /\ Concerns(s, n) /\ emitted[s][n] < reported[n]
                   /\ emitted'[s] = [emitted[s] EXCEPT ![n] = @ + 1]
           /\ UNCHANGED reported

Next == \E n \in Notifications : Report(n) \/ Emit(n)

Spec == Init /\ [][Next]_<<reported, emitted>>
=============================================================================
