--------------------------- MODULE PaginationStreamer ---------------------------
(***************************************************************************)
(* PaginationStreamer.search()                                             *)
(* (src/src/infrastructure/paginationStreamer/PaginationStreamer.ts): each *)
(* stream asks the repository for a page after the other, through the      *)
(* criteria object the caller passed in, whose pageNumber it overwrites.   *)
(* Streams that were given the same object share that field.               *)
(*                                                                         *)
(* The repository is a list that grows at its end; its elements are their  *)
(* positions.                                                              *)
(***************************************************************************)
EXTENDS Integers, Sequences

CONSTANTS Streams,        \* calls of search(), each subscribed once
          Criteria,       \* criteria objects
          Setups,         \* how callers may use search(), see Setup
          Limit,          \* [Streams -> Nat]: what the consumer takes, Unlimited for all
          Unlimited,      \* more than any stream can give
          PageSize,
          Sizes,          \* how many elements there may be at first
          MaxSize         \* bound on the growth of the repository

(* Which criteria object each call is given, and what the callers do: a     *)
(* "prompt" caller subscribes to search() in the turn it calls it, a "late" *)
(* one in a later turn, and a "reentrant" one calls and subscribes search() *)
(* with some criteria while it is handed the elements of another stream.    *)
Setup == [criteriaOf : [Streams -> Criteria],
          consumers : SUBSET {"prompt", "late", "reentrant"}]

ASSUME StreamsAssumption == Setups \subseteq Setup /\ Limit \in [Streams -> Nat \ {0}]
ASSUME SizesAssumption == /\ PageSize \in Nat \ {0} /\ MaxSize \in Nat
                          /\ Sizes \subseteq 0..MaxSize /\ Unlimited > MaxSize + PageSize

VARIABLES setup,       \* how search() is used; never changes
          size,        \* number of elements in the repository
          pageNumber,  \* pageNumber of each criteria object
          stage,       \* each stream: "idle", "created", "asking", "answered", "done", "failed"
          own,         \* the pageNumber argument of the stream's searchInternal
          page,        \* the page number it has asked for, then
          answer,      \* the elements it was answered
          requests,    \* history: how many pages it has asked for
          wanted,      \* history: size when it was subscribed, -1 before
          emitted      \* history: what it has given

caller == <<setup, pageNumber, stage, own, page, requests, wanted, emitted>>
vars == <<size, caller, answer>>

Least(m, n) == IF m < n THEN m ELSE n

\* Elements first..last of a sequence of positions.
Run(first, last) == [i \in 1..(last - first + 1) |-> first + i - 1]

-----------------------------------------------------------------------------
(* Pieces of the streamer.  The slips (Slip...) are plausible bugs of them; *)
(* no specification uses them.                                              *)

\* The page of the repository with a number, as it is when the request arrives.
PageOf(n) == Run((n - 1) * PageSize + 1, Least(n * PageSize, size))

\* Page.isLastPage
SlipLastWhenEmpty(data) == data = <<>> \/ PageSize > Len(data) + 1
IsLastPage(data) == data = <<>> \/ PageSize > Len(data)

\* searchInternal(criteria, n) leaves n in the criteria before anything is asked.
SlipPageKept(s, n) == pageNumber
PageLeft(s, n) == [pageNumber EXCEPT ![setup.criteriaOf[s]] = n]

\* The pages after the first are asked for when the elements before are taken.
SlipAsksAhead(s, data) == ~IsLastPage(data)
AsksNext(s, data) == ~IsLastPage(data) /\ Len(emitted[s]) + Len(data) < Limit[s]

\* Else the stream completes, after the elements if there are any.
SlipEndsOnData(s, data) == ~AsksNext(s, data) /\ data # <<>>
Completes(s, data) == ~AsksNext(s, data)

\* What the stream still lets through of the answered elements.
Taken(s, data) == SubSeq(data, 1, Least(Len(data), Limit[s] - Len(emitted[s])))

-----------------------------------------------------------------------------
Init == /\ setup \in Setups
        /\ size \in Sizes
        /\ pageNumber = [c \in Criteria |-> 1]
        /\ stage = [s \in Streams |-> "idle"]
        /\ own = [s \in Streams |-> 1]
        /\ page = [s \in Streams |-> 0]
        /\ answer = [s \in Streams |-> <<>>]
        /\ requests = [s \in Streams |-> 0]
        /\ wanted = [s \in Streams |-> -1]
        /\ emitted = [s \in Streams |-> <<>>]

(* search(criteria) without a subscription.                                 *)
Search(s) ==
    /\ "late" \in setup.consumers
    /\ stage[s] = "idle"
    /\ stage' = [stage EXCEPT ![s] = "created"]
    /\ pageNumber' = PageLeft(s, 1)
    /\ UNCHANGED <<setup, size, own, page, answer, requests, wanted, emitted>>

(* defer: the request reads the criteria now.                               *)
Subscribe(s) ==
    /\ stage[s] = "created"
    /\ stage' = [stage EXCEPT ![s] = "asking"]
    /\ page' = [page EXCEPT ![s] = pageNumber[setup.criteriaOf[s]]]
    /\ requests' = [requests EXCEPT ![s] = @ + 1]
    /\ wanted' = [wanted EXCEPT ![s] = size]
    /\ UNCHANGED <<setup, size, pageNumber, own, answer, emitted>>

(* search(criteria).subscribe(...)                                          *)
SearchNow(s) ==
    /\ "prompt" \in setup.consumers
    /\ stage[s] = "idle"
    /\ stage' = [stage EXCEPT ![s] = "asking"]
    /\ pageNumber' = PageLeft(s, 1)
    /\ page' = [page EXCEPT ![s] = pageNumber'[setup.criteriaOf[s]]]
    /\ requests' = [requests EXCEPT ![s] = @ + 1]
    /\ wanted' = [wanted EXCEPT ![s] = size]
    /\ UNCHANGED <<setup, size, own, answer, emitted>>

(* The page arrives and is not the last: the criteria gets the next number, *)
(* the elements go to the consumer, then the next page is asked for.        *)
NextPage(s) ==
    /\ stage[s] = "answered"
    /\ AsksNext(s, answer[s])
    /\ own' = [own EXCEPT ![s] = @ + 1]
    /\ pageNumber' = PageLeft(s, own[s] + 1)
    /\ emitted' = [emitted EXCEPT ![s] = @ \o Taken(s, answer[s])]
    /\ stage' = [stage EXCEPT ![s] = "asking"]
    /\ page' = [page EXCEPT ![s] = pageNumber'[setup.criteriaOf[s]]]
    /\ requests' = [requests EXCEPT ![s] = @ + 1]
    /\ UNCHANGED <<setup, size, answer, wanted>>

(* The same with a consumer that starts stream t when it is given elements. *)
NextPageReentrant(s, t) ==
    /\ "reentrant" \in setup.consumers
    /\ stage[s] = "answered" /\ stage[t] = "idle"
    /\ AsksNext(s, answer[s])
    /\ own' = [own EXCEPT ![s] = @ + 1]
    /\ pageNumber' = [PageLeft(s, own[s] + 1) EXCEPT ![setup.criteriaOf[t]] = 1]
    /\ emitted' = [emitted EXCEPT ![s] = @ \o Taken(s, answer[s])]
    /\ stage' = [stage EXCEPT ![s] = "asking", ![t] = "asking"]
    /\ page' = [page EXCEPT ![s] = pageNumber'[setup.criteriaOf[s]], ![t] = 1]
    /\ requests' = [requests EXCEPT ![s] = @ + 1, ![t] = @ + 1]
    /\ wanted' = [wanted EXCEPT ![t] = size]
    /\ UNCHANGED <<setup, size, answer>>

(* The last page, or the last element the consumer takes.  A page that is   *)
(* not the last still leaves its successor's number in the criteria.        *)
LastPage(s) ==
    /\ stage[s] = "answered"
    /\ Completes(s, answer[s])
    /\ emitted' = [emitted EXCEPT ![s] = @ \o Taken(s, answer[s])]
    /\ stage' = [stage EXCEPT ![s] = "done"]
    /\ pageNumber' = IF IsLastPage(answer[s]) THEN pageNumber ELSE PageLeft(s, own[s] + 1)
    /\ UNCHANGED <<setup, size, own, page, answer, requests, wanted>>

-----------------------------------------------------------------------------
(* The repository.                                                          *)

Answer(s) ==
    /\ stage[s] = "asking"
    /\ stage' = [stage EXCEPT ![s] = "answered"]
    /\ answer' = [answer EXCEPT ![s] = PageOf(page[s])]
    /\ UNCHANGED <<setup, size, pageNumber, own, page, requests, wanted, emitted>>

(* A failed request ends the stream with an error.                          *)
Fail(s) ==
    /\ stage[s] = "asking"
    /\ stage' = [stage EXCEPT ![s] = "failed"]
    /\ UNCHANGED <<setup, size, pageNumber, own, page, answer, requests, wanted, emitted>>

Grow == /\ size < MaxSize
        /\ size' = size + 1
        /\ UNCHANGED <<caller, answer>>

Next == \/ \E s \in Streams : \/ Search(s) \/ Subscribe(s) \/ SearchNow(s)
                              \/ NextPage(s) \/ LastPage(s) \/ Answer(s) \/ Fail(s)
        \/ \E s, t \in Streams : NextPageReentrant(s, t)
        \/ Grow

(* Requests are answered and answers handled.                               *)
Fairness == \A s \in Streams : /\ WF_vars(Answer(s) \/ Fail(s))
                               /\ WF_vars(NextPage(s) \/ LastPage(s))

Spec     == Init /\ [][Next]_vars
FairSpec == Spec /\ Fairness

-----------------------------------------------------------------------------
\* Every variable has its type, and a stream asks for pages that may exist.
TypeOK ==
    /\ setup \in Setups
    /\ size \in 0..MaxSize
    /\ pageNumber \in [Criteria -> 1..(MaxSize + 2)]
    /\ stage \in [Streams -> {"idle", "created", "asking", "answered", "done", "failed"}]
    /\ own \in [Streams -> 1..(MaxSize + 2)]
    /\ page \in [Streams -> 0..(MaxSize + 2)]
    /\ \A s \in Streams : answer[s] \in Seq(1..MaxSize) /\ Len(answer[s]) <= PageSize
    /\ requests \in [Streams -> 0..(MaxSize + 2)]
    /\ wanted \in [Streams -> -1..MaxSize]
    /\ emitted \in [Streams -> Seq(1..MaxSize)]

List == INSTANCE Listing
            WITH complete <- [s \in Streams |-> stage[s] = "done"]

\* Streams implement Listing: in order, nothing twice, nothing left out, also when
\* the last page is full and when the repository grows between two pages (search,
\* Page).  Holds of streams that share criteria too, when callers are prompt.
ImplementsListing == List!Spec

\* A stream asks for no page beyond the one that completes what the consumer takes
\* ("only loading the pages when necessary", PaginationStreamer.ts:43).
NoPageTooMany ==
    \A s \in Streams :
        stage[s] = "done" /\ Len(emitted[s]) = Limit[s]
            => requests[s] * PageSize < Limit[s] + PageSize

\* A subscribed stream completes or fails, however the repository grows.
StreamEnds ==
    \A s \in Streams : stage[s] = "asking" ~> stage[s] \in {"done", "failed"}
=============================================================================
