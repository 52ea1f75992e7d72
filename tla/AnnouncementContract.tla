-------------------------- MODULE AnnouncementContract --------------------------
(***************************************************************************)
(* What announcing a transaction promises                                  *)
(* (src/src/service/interfaces/ITransactionService.ts): the observable     *)
(* yields the transaction once the node has added it, or the status error  *)
(* the node rejected it with; and the aggregate bonded transaction of      *)
(* announceHashLockAggregateBonded has no fate before its hash lock        *)
(* yielded.                                                                *)
(***************************************************************************)
VARIABLES flow,      \* which announcement the client makes; never changes
          fate,      \* what the node has decided of each transaction
          outcome    \* what the client has been given for it

Legs  == {"plain", "bonded"}
Flows == {"announce", "announceAggregateBonded", "announceHashLockAggregateBonded"}

Init == /\ flow \in Flows
        /\ fate = [l \in Legs |-> "open"]
        /\ outcome = [l \in Legs |-> "none"]

Decide(l) == /\ fate[l] = "open"
             /\ l = "bonded" /\ flow = "announceHashLockAggregateBonded"
                  => fate["plain"] = "added" /\ outcome["plain"] = "transaction"
             /\ \E f \in {"added", "rejected"} : fate' = [fate EXCEPT ![l] = f]
             /\ UNCHANGED <<flow, outcome>>

Yield(l) == /\ outcome[l] = "none"
            /\ \/ fate[l] = "added" /\ outcome' = [outcome EXCEPT ![l] = "transaction"]
               \/ fate[l] = "rejected" /\ outcome' = [outcome EXCEPT ![l] = "statusError"]
            /\ UNCHANGED <<flow, fate>>

\* Only announceAggregateBonded looks at the answer of the REST call.
Fail == /\ outcome["bonded"] = "none"
        /\ outcome' = [outcome EXCEPT !["bonded"] = "httpError"]
        /\ UNCHANGED <<flow, fate>>

Next == Fail \/ \E l \in Legs : Decide(l) \/ Yield(l)

Spec == Init /\ [][Next]_<<flow, fate, outcome>>
=============================================================================
