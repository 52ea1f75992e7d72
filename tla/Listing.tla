--------------------------------- MODULE Listing ---------------------------------
(***************************************************************************)
(* What a paginated stream promises                                        *)
(* (src/src/infrastructure/paginationStreamer/PaginationStreamer.ts): its  *)
(* elements are those of the repository in order, none twice, and when it  *)
(* completes it has given every element there was when it was subscribed,  *)
(* or the first Limit[s] the consumer takes.  Elements are positions of a  *)
(* list that only grows at its end.                                        *)
(***************************************************************************)
EXTENDS Integers, Sequences

CONSTANTS Streams, Limit

VARIABLES size,      \* number of elements in the repository
          wanted,    \* of each stream: the size when it was subscribed, -1 before
          emitted,   \* the elements it gave
          complete   \* whether it has completed

Least(m, n) == IF m < n THEN m ELSE n

Init == /\ size \in Nat
        /\ wanted = [s \in Streams |-> -1]
        /\ emitted = [s \in Streams |-> <<>>]
        /\ complete = [s \in Streams |-> FALSE]

Grow == size' = size + 1 /\ UNCHANGED <<wanted, emitted, complete>>

Subscribe(s) == /\ wanted[s] = -1
                /\ wanted' = [wanted EXCEPT ![s] = size]
                /\ UNCHANGED <<size, emitted, complete>>

\* The consumer may subscribe to other streams as it is handed the elements.
Emit(s) == /\ wanted[s] # -1 /\ ~complete[s]
           /\ \E started \in SUBSET {t \in Streams : wanted[t] = -1} :
                wanted' = [t \in Streams |-> IF t \in started THEN size ELSE wanted[t]]
           /\ \E n \in Len(emitted[s])..Least(size, Limit[s]) :
                /\ emitted' = [emitted EXCEPT ![s] = [i \in 1..n |-> i]]
                /\ \/ UNCHANGED complete
                   \/ /\ n >= Least(wanted[s], Limit[s])
                      /\ complete' = [complete EXCEPT ![s] = TRUE]
           /\ UNCHANGED size

Next == Grow \/ \E s \in Streams : Subscribe(s) \/ Emit(s)

Spec == Init /\ [][Next]_<<size, wanted, emitted, complete>>
=============================================================================
