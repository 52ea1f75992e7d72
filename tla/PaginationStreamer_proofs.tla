----------------------- MODULE PaginationStreamer_proofs -----------------------
(* Proofs, for any streams, criteria, page size and repository, that a       *)
(* stream asks for no page too many, and that streams implement Listing when *)
(* callers that are not prompt share no criteria.                            *)
EXTENDS PaginationStreamer, TLAPS

LEMMA PagesAdd ==
    ASSUME NEW r \in Int, NEW p \in Int
    PROVE  (r + 1) * p = r * p + p
OBVIOUS

LEMMA NumberSet ==
    ASSUME NEW f \in [Criteria -> Int], NEW c, NEW n \in Int
    PROVE  [f EXCEPT ![c] = n] \in [Criteria -> Int]
OBVIOUS

LEMMA RunLength ==
    ASSUME NEW first \in Int, NEW last \in Int
    PROVE  /\ Run(first, last) \in Seq(Int)
           /\ Len(Run(first, last)) = IF last - first + 1 > 0 THEN last - first + 1 ELSE 0
<1> DEFINE k == IF last - first + 1 > 0 THEN last - first + 1 ELSE 0
<1>1. k \in Nat /\ 1..(last - first + 1) = 1..k
  OBVIOUS
<1>2. Run(first, last) = [i \in 1..k |-> first + i - 1]
  BY <1>1 DEF Run
<1> HIDE DEF k
<1>3. Run(first, last) \in Seq(Int) /\ Len(Run(first, last)) = k
  BY <1>1, <1>2
<1> QED
  BY <1>3 DEF k

LEMMA LeastIs ==
    ASSUME NEW m \in Int, NEW n \in Int
    PROVE  Least(m, n) \in {m, n} /\ Least(m, n) <= m /\ Least(m, n) <= n
BY DEF Least

(* A page has at most PageSize elements.                                     *)
LEMMA PageLength ==
    ASSUME NEW n \in Int, size \in Nat
    PROVE  PageOf(n) \in Seq(Int) /\ Len(PageOf(n)) <= PageSize
<1> DEFINE first == (n - 1) * PageSize + 1
           last == Least(n * PageSize, size)
<1>1. PageSize \in Nat \ {0}
  BY SizesAssumption
<1>2. (n - 1) * PageSize \in Int /\ n * PageSize \in Int /\ n * PageSize = (n - 1) * PageSize + PageSize
  <2>1. n - 1 \in Int /\ PageSize \in Int /\ (n - 1) + 1 = n
    BY <1>1
  <2> QED
    BY <2>1, PagesAdd
<1>3. first \in Int /\ last \in Int /\ last <= n * PageSize
  BY <1>1, <1>2, LeastIs
<1>4. PageOf(n) = Run(first, last)
  BY DEF PageOf
<1>5. last - first + 1 <= PageSize
  BY <1>1, <1>2, <1>3
<1> HIDE DEF first, last
<1>6. /\ Run(first, last) \in Seq(Int)
      /\ Len(Run(first, last)) = IF last - first + 1 > 0 THEN last - first + 1 ELSE 0
  BY <1>3, RunLength
<1> QED
  BY <1>1, <1>3, <1>4, <1>5, <1>6

(* What the argument needs of the types.                                     *)
Sized ==
    /\ setup \in Setups
    /\ size \in Nat
    /\ pageNumber \in [Criteria -> Int]
    /\ stage \in [Streams -> {"idle", "created", "asking", "answered", "done", "failed"}]
    /\ own \in [Streams -> Int]
    /\ page \in [Streams -> Int]
    /\ answer \in [Streams -> Seq(Int)]
    /\ \A s \in Streams : Len(answer[s]) <= PageSize
    /\ requests \in [Streams -> Nat]
    /\ emitted \in [Streams -> Seq(Int)]

(* A stream that asks has emitted the pages before, all of them full, and   *)
(* its consumer takes more.                                                  *)
FullBefore ==
    \A s \in Streams :
        /\ stage[s] \in {"idle", "created"} => requests[s] = 0 /\ emitted[s] = <<>>
        /\ stage[s] \in {"asking", "answered"} =>
               /\ requests[s] >= 1
               /\ Len(emitted[s]) = (requests[s] - 1) * PageSize
               /\ Len(emitted[s]) < Limit[s]

PageInv == Sized /\ FullBefore /\ NoPageTooMany

LEMMA Constants ==
    /\ PageSize \in Nat \ {0} /\ Limit \in [Streams -> Nat \ {0}]
    /\ \A u \in Setups : \A s \in Streams : u.criteriaOf[s] \in Criteria
BY StreamsAssumption, SizesAssumption DEF Setup

LEMMA PageInit == Init => PageInv
<1> SUFFICES ASSUME Init PROVE PageInv
  OBVIOUS
<1>1. Sized
  BY Constants, SizesAssumption DEF Init, Sized
<1>2. FullBefore /\ NoPageTooMany
  BY DEF Init, FullBefore, NoPageTooMany
<1> QED
  BY <1>1, <1>2 DEF PageInv

(* A stream starts.                                                          *)
LEMMA Begins ==
    ASSUME PageInv, NEW s \in Streams, stage[s] \in {"idle", "created"},
           stage' = [stage EXCEPT ![s] = "asking"],
           requests' = [requests EXCEPT ![s] = @ + 1], emitted' = emitted
    PROVE  FullBefore' /\ NoPageTooMany'
<1> USE DEF PageInv, Sized, FullBefore, NoPageTooMany
<1>1. /\ stage'[s] = "asking" /\ requests'[s] = 1 /\ Len(emitted'[s]) = 0
      /\ \A t \in Streams \ {s} : stage'[t] = stage[t] /\ requests'[t] = requests[t] /\ emitted'[t] = emitted[t]
  OBVIOUS
<1>2. 0 = (1 - 1) * PageSize /\ 0 < Limit[s]
  <2>1. PageSize \in Nat \ {0} /\ Limit[s] \in Nat \ {0}
    BY Constants
  <2>2. 1 - 1 = 0 /\ 0 * PageSize = 0 /\ 0 < Limit[s]
    BY <2>1
  <2> QED
    BY <2>2
<1> QED
  BY <1>1, <1>2

(* The elements of a full page that the consumer takes whole.                *)
LEMMA TakenWhole ==
    ASSUME PageInv, NEW s \in Streams, stage[s] = "answered", AsksNext(s, answer[s])
    PROVE  /\ Taken(s, answer[s]) = answer[s]
           /\ Len(answer[s]) = PageSize
           /\ emitted[s] \o answer[s] \in Seq(Int)
           /\ Len(emitted[s] \o answer[s]) = ((requests[s] + 1) - 1) * PageSize
           /\ Len(emitted[s] \o answer[s]) < Limit[s]
<1>1. /\ emitted[s] \in Seq(Int) /\ answer[s] \in Seq(Int) /\ requests[s] \in Nat
      /\ PageSize \in Nat \ {0} /\ Limit[s] \in Nat /\ Len(answer[s]) <= PageSize
  BY Constants DEF PageInv, Sized
<1>2. Len(emitted[s]) = (requests[s] - 1) * PageSize
  BY DEF PageInv, FullBefore
<1>3. Len(answer[s]) = PageSize /\ Len(emitted[s]) + Len(answer[s]) < Limit[s]
  <2>1. Len(answer[s]) \in Nat /\ ~(PageSize > Len(answer[s]))
    BY <1>1 DEF AsksNext, IsLastPage
  <2>2. Len(emitted[s]) + Len(answer[s]) < Limit[s]
    BY DEF AsksNext
  <2>3. PageSize \in Nat /\ Len(answer[s]) <= PageSize
    BY <1>1
  <2>4. Len(answer[s]) = PageSize
    BY <2>1, <2>3
  <2> QED
    BY <2>2, <2>4
<1>4. Len(answer[s]) \in Nat /\ Len(emitted[s]) \in Nat
  BY <1>1
<1>5. Least(Len(answer[s]), Limit[s] - Len(emitted[s])) = Len(answer[s])
  BY <1>1, <1>3, <1>4 DEF Least
<1>6. Taken(s, answer[s]) = answer[s]
  BY <1>1, <1>4, <1>5 DEF Taken
<1>7. emitted[s] \o answer[s] \in Seq(Int) /\ Len(emitted[s] \o answer[s]) = Len(emitted[s]) + PageSize
  <2>1. emitted[s] \in Seq(Int) /\ answer[s] \in Seq(Int)
    BY <1>1
  <2>2. emitted[s] \o answer[s] \in Seq(Int)
        /\ Len(emitted[s] \o answer[s]) = Len(emitted[s]) + Len(answer[s])
    BY <2>1
  <2> QED
    BY <2>2, <1>3
<1>8. ((requests[s] + 1) - 1) * PageSize = (requests[s] - 1) * PageSize + PageSize
  <2>1. requests[s] - 1 \in Int /\ PageSize \in Int
    BY <1>1
  <2>2. ((requests[s] - 1) + 1) * PageSize = (requests[s] - 1) * PageSize + PageSize
    BY <2>1, PagesAdd
  <2>3. (requests[s] - 1) + 1 = (requests[s] + 1) - 1
    BY <1>1
  <2> QED
    BY <2>2, <2>3
<1> QED
  BY <1>2, <1>3, <1>6, <1>7, <1>8

(* A stream that a step leaves alone.                                        *)
Keeps(s) == stage'[s] = stage[s] /\ requests'[s] = requests[s] /\ emitted'[s] = emitted[s]

LEMMA NextStep ==
    ASSUME PageInv, NEW s \in Streams, stage[s] = "answered", AsksNext(s, answer[s]),
           emitted' = [emitted EXCEPT ![s] = @ \o Taken(s, answer[s])],
           stage'[s] = "asking", requests'[s] = requests[s] + 1
    PROVE  /\ emitted' \in [Streams -> Seq(Int)]
           /\ requests'[s] >= 1
           /\ Len(emitted'[s]) = (requests'[s] - 1) * PageSize
           /\ Len(emitted'[s]) < Limit[s]
<1>1. /\ emitted \in [Streams -> Seq(Int)] /\ requests[s] \in Nat
  BY DEF PageInv, Sized
<1>2. emitted'[s] = emitted[s] \o answer[s] /\ emitted[s] \o answer[s] \in Seq(Int)
  BY <1>1, TakenWhole
<1>3. emitted' \in [Streams -> Seq(Int)]
  BY <1>1, <1>2, TakenWhole
<1>4. requests'[s] >= 1
  BY <1>1
<1> QED
  BY <1>2, <1>3, <1>4, TakenWhole

LEMMA LastStep ==
    ASSUME PageInv, NEW s \in Streams, stage[s] = "answered",
           emitted'[s] = emitted[s] \o Taken(s, answer[s])
    PROVE  /\ emitted'[s] \in Seq(Int)
           /\ requests[s] * PageSize < Limit[s] + PageSize
<1>1. /\ emitted[s] \in Seq(Int) /\ answer[s] \in Seq(Int) /\ requests[s] \in Nat
      /\ PageSize \in Nat \ {0} /\ Limit[s] \in Nat
  BY Constants DEF PageInv, Sized
<1>2. Len(emitted[s]) = (requests[s] - 1) * PageSize /\ Len(emitted[s]) < Limit[s]
  BY DEF PageInv, FullBefore
<1>3. requests[s] * PageSize = (requests[s] - 1) * PageSize + PageSize
  <2>1. requests[s] - 1 \in Int /\ PageSize \in Int /\ (requests[s] - 1) + 1 = requests[s]
    BY <1>1
  <2> QED
    BY <2>1, PagesAdd
<1>4. requests[s] * PageSize < Limit[s] + PageSize
  <2>1. Len(emitted[s]) \in Nat /\ PageSize \in Nat /\ Limit[s] \in Nat
    BY <1>1
  <2>2. requests[s] * PageSize = Len(emitted[s]) + PageSize /\ Len(emitted[s]) < Limit[s]
    BY <1>2, <1>3
  <2> QED
    BY <2>1, <2>2
<1>5. Least(Len(answer[s]), Limit[s] - Len(emitted[s])) \in Int
      /\ Least(Len(answer[s]), Limit[s] - Len(emitted[s])) <= Len(answer[s])
  <2>1. Len(answer[s]) \in Int /\ Len(emitted[s]) \in Int /\ Limit[s] - Len(emitted[s]) \in Int
    BY <1>1
  <2> QED
    BY <2>1, LeastIs
<1>6. Taken(s, answer[s]) \in Seq(Int)
  BY <1>1, <1>5 DEF Taken
<1>7. emitted'[s] \in Seq(Int)
  BY <1>1, <1>6
<1> QED
  BY <1>4, <1>7

(* What is kept is kept.                                                     *)
LEMMA Others ==
    ASSUME PageInv, NEW s \in Streams, Keeps(s)
    PROVE  /\ stage'[s] \in {"idle", "created"} => requests'[s] = 0 /\ emitted'[s] = <<>>
           /\ stage'[s] \in {"asking", "answered"} =>
                  /\ requests'[s] >= 1
                  /\ Len(emitted'[s]) = (requests'[s] - 1) * PageSize
                  /\ Len(emitted'[s]) < Limit[s]
           /\ stage'[s] = "done" /\ Len(emitted'[s]) = Limit[s]
                  => requests'[s] * PageSize < Limit[s] + PageSize
BY DEF PageInv, FullBefore, NoPageTooMany, Keeps

LEMMA PageStep == PageInv /\ [Next]_vars => PageInv'
<1> SUFFICES ASSUME PageInv, [Next]_vars PROVE PageInv'
  OBVIOUS
<1> USE DEF PageInv
<1>1. ASSUME NEW s \in Streams, Search(s) PROVE PageInv'
  <2>1. Sized'
    BY <1>1, Constants DEF Search, Sized, PageLeft
  <2>2. FullBefore' /\ NoPageTooMany'
    BY <1>1 DEF Search, Sized, FullBefore, NoPageTooMany
  <2> QED
    BY <2>1, <2>2
<1>2. ASSUME NEW s \in Streams, Subscribe(s) PROVE PageInv'
  <2>1. Sized'
    <3>1. setup.criteriaOf[s] \in Criteria /\ pageNumber[setup.criteriaOf[s]] \in Int
      BY Constants DEF Sized
    <3>2. page' \in [Streams -> Int] /\ requests' \in [Streams -> Nat]
      BY <1>2, <3>1 DEF Subscribe, Sized
    <3>3. stage' \in [Streams -> {"idle", "created", "asking", "answered", "done", "failed"}]
      BY <1>2 DEF Subscribe, Sized
    <3> QED
      BY <3>2, <3>3, <1>2 DEF Subscribe, Sized
  <2>2. FullBefore' /\ NoPageTooMany'
    BY <1>2, Begins DEF Subscribe
  <2> QED
    BY <2>1, <2>2
<1>3. ASSUME NEW s \in Streams, SearchNow(s) PROVE PageInv'
  <2>1. Sized'
    <3>1. own' \in [Streams -> Int] /\ requests' \in [Streams -> Nat]
      BY <1>3 DEF SearchNow, Sized
    <3>2. pageNumber' \in [Criteria -> Int]
      BY <1>3, Constants DEF SearchNow, Sized, PageLeft
    <3>3. page' \in [Streams -> Int]
      <4>1. setup.criteriaOf[s] \in Criteria /\ pageNumber'[setup.criteriaOf[s]] \in Int
        BY <3>2, Constants DEF Sized
      <4> QED
        BY <1>3, <4>1 DEF SearchNow, Sized
    <3>4. stage' \in [Streams -> {"idle", "created", "asking", "answered", "done", "failed"}]
      BY <1>3 DEF SearchNow, Sized
    <3>5. UNCHANGED <<emitted, answer>>
      BY <1>3 DEF SearchNow
    <3> QED
      BY <3>1, <3>2, <3>3, <3>4, <3>5, <1>3 DEF SearchNow, Sized
  <2>2. FullBefore' /\ NoPageTooMany'
    BY <1>3, Begins DEF SearchNow
  <2> QED
    BY <2>1, <2>2
<1>4. ASSUME NEW s \in Streams, NextPage(s) PROVE PageInv'
  <2>1. /\ stage[s] = "answered" /\ AsksNext(s, answer[s])
        /\ stage'[s] = "asking" /\ requests'[s] = requests[s] + 1
        /\ emitted' = [emitted EXCEPT ![s] = @ \o Taken(s, answer[s])]
    BY <1>4 DEF NextPage, Sized
  <2>2. /\ emitted' \in [Streams -> Seq(Int)] /\ requests'[s] >= 1
        /\ Len(emitted'[s]) = (requests'[s] - 1) * PageSize /\ Len(emitted'[s]) < Limit[s]
    BY <2>1, NextStep
  <2>3. Sized'
    <3>1. own' \in [Streams -> Int] /\ requests' \in [Streams -> Nat]
      BY <1>4 DEF NextPage, Sized
    <3>2. pageNumber' \in [Criteria -> Int]
      BY <1>4, Constants DEF NextPage, Sized, PageLeft
    <3>3. page' \in [Streams -> Int]
      <4>1. setup.criteriaOf[s] \in Criteria /\ pageNumber'[setup.criteriaOf[s]] \in Int
        BY <3>2, Constants DEF Sized
      <4> QED
        BY <1>4, <4>1 DEF NextPage, Sized
    <3>4. stage' \in [Streams -> {"idle", "created", "asking", "answered", "done", "failed"}]
      BY <1>4 DEF NextPage, Sized
    <3>5. UNCHANGED <<setup, size, answer>>
      BY <1>4 DEF NextPage
    <3> QED
      BY <2>2, <3>1, <3>2, <3>3, <3>4, <3>5 DEF Sized
  <2>4. ASSUME NEW u \in Streams, u # s PROVE Keeps(u)
    BY <1>4, <2>4 DEF NextPage, Sized, Keeps
  <2>5. FullBefore'
    BY <2>1, <2>2, <2>4, Others DEF FullBefore
  <2>6. NoPageTooMany'
    BY <2>1, <2>4, Others DEF NoPageTooMany
  <2> QED
    BY <2>3, <2>5, <2>6
<1>5. ASSUME NEW s \in Streams, NEW t \in Streams, NextPageReentrant(s, t) PROVE PageInv'
  <2>1. /\ stage[s] = "answered" /\ AsksNext(s, answer[s]) /\ stage[t] = "idle" /\ s # t
        /\ stage'[s] = "asking" /\ requests'[s] = requests[s] + 1
        /\ stage'[t] = "asking" /\ requests'[t] = requests[t] + 1 /\ emitted'[t] = emitted[t]
        /\ emitted' = [emitted EXCEPT ![s] = @ \o Taken(s, answer[s])]
    BY <1>5 DEF NextPageReentrant, Sized
  <2>2. /\ emitted' \in [Streams -> Seq(Int)] /\ requests'[s] >= 1
        /\ Len(emitted'[s]) = (requests'[s] - 1) * PageSize /\ Len(emitted'[s]) < Limit[s]
    BY <2>1, NextStep
  <2>3. Sized'
    <3>1. own' \in [Streams -> Int] /\ requests' \in [Streams -> Nat]
      <4>1. own' = [own EXCEPT ![s] = own[s] + 1] /\ own[s] + 1 \in Int
        BY <1>5 DEF NextPageReentrant, Sized
      <4>2. requests' = [requests EXCEPT ![s] = requests[s] + 1, ![t] = requests[t] + 1]
        BY <1>5, <2>1 DEF NextPageReentrant
      <4>3. requests[s] + 1 \in Nat /\ requests[t] + 1 \in Nat
        BY DEF Sized
      <4> QED
        BY <4>1, <4>2, <4>3 DEF Sized
    <3>2. pageNumber' \in [Criteria -> Int]
      <4>1. pageNumber' = [[pageNumber EXCEPT ![setup.criteriaOf[s]] = own[s] + 1]
                              EXCEPT ![setup.criteriaOf[t]] = 1]
        BY <1>5 DEF NextPageReentrant, PageLeft
      <4>2. own[s] + 1 \in Int
        BY DEF Sized
      <4>3. [pageNumber EXCEPT ![setup.criteriaOf[s]] = own[s] + 1] \in [Criteria -> Int]
        BY <4>2, NumberSet DEF Sized
      <4>4. \A f \in [Criteria -> Int] : [f EXCEPT ![setup.criteriaOf[t]] = 1] \in [Criteria -> Int]
        BY NumberSet
      <4> QED
        BY <4>1, <4>3, <4>4
    <3>3. page' \in [Streams -> Int]
      <4>1. setup.criteriaOf[s] \in Criteria /\ pageNumber'[setup.criteriaOf[s]] \in Int
        BY <3>2, Constants DEF Sized
      <4>2. page' = [[page EXCEPT ![s] = pageNumber'[setup.criteriaOf[s]]] EXCEPT ![t] = 1]
        BY <1>5 DEF NextPageReentrant
      <4>3. [page EXCEPT ![s] = pageNumber'[setup.criteriaOf[s]]] \in [Streams -> Int]
        BY <4>1 DEF Sized
      <4>4. \A f \in [Streams -> Int] : [f EXCEPT ![t] = 1] \in [Streams -> Int]
        OBVIOUS
      <4> QED
        BY <4>2, <4>3, <4>4
    <3>4. stage' \in [Streams -> {"idle", "created", "asking", "answered", "done", "failed"}]
      BY <1>5 DEF NextPageReentrant, Sized
    <3>5. UNCHANGED <<setup, size, answer>>
      BY <1>5 DEF NextPageReentrant
    <3> QED
      BY <2>2, <3>1, <3>2, <3>3, <3>4, <3>5 DEF Sized
  <2>4. ASSUME NEW u \in Streams, u # s, u # t PROVE Keeps(u)
    BY <1>5, <2>4 DEF NextPageReentrant, Sized, Keeps
  <2>5. requests'[t] = 1 /\ Len(emitted'[t]) = 0
    BY <2>1 DEF FullBefore
  <2>6. 0 = (1 - 1) * PageSize /\ 0 < Limit[t]
    <3>1. PageSize \in Nat \ {0} /\ Limit[t] \in Nat \ {0}
      BY Constants
    <3>2. 1 - 1 = 0 /\ 0 * PageSize = 0 /\ 0 < Limit[t]
      BY <3>1
    <3> QED
      BY <3>2
  <2>7. FullBefore'
    <3>1. \A u \in Streams \ {s, t} :
            /\ stage'[u] \in {"idle", "created"} => requests'[u] = 0 /\ emitted'[u] = <<>>
            /\ stage'[u] \in {"asking", "answered"} =>
                   /\ requests'[u] >= 1
                   /\ Len(emitted'[u]) = (requests'[u] - 1) * PageSize
                   /\ Len(emitted'[u]) < Limit[u]
      BY <2>4, Others
    <3>2. /\ requests'[t] >= 1 /\ Len(emitted'[t]) = (requests'[t] - 1) * PageSize
          /\ Len(emitted'[t]) < Limit[t]
      BY <2>5, <2>6
    <3>3. stage'[s] = "asking" /\ stage'[t] = "asking"
      BY <2>1
    <3> QED
      BY <2>2, <3>1, <3>2, <3>3 DEF FullBefore
  <2>8. NoPageTooMany'
    BY <2>1, <2>4, Others DEF NoPageTooMany
  <2> QED
    BY <2>3, <2>7, <2>8
<1>6. ASSUME NEW s \in Streams, LastPage(s) PROVE PageInv'
  <2>1. /\ stage[s] = "answered" /\ stage'[s] = "done" /\ requests'[s] = requests[s]
        /\ emitted'[s] = emitted[s] \o Taken(s, answer[s])
    BY <1>6 DEF LastPage, Sized
  <2>2. emitted'[s] \in Seq(Int) /\ requests[s] * PageSize < Limit[s] + PageSize
    BY <2>1, LastStep
  <2>3. Sized'
    <3>1. stage' \in [Streams -> {"idle", "created", "asking", "answered", "done", "failed"}]
      BY <1>6 DEF LastPage, Sized
    <3>2. emitted' \in [Streams -> Seq(Int)]
      <4>1. emitted' = [emitted EXCEPT ![s] = emitted[s] \o Taken(s, answer[s])]
        BY <1>6 DEF LastPage
      <4>2. emitted[s] \o Taken(s, answer[s]) \in Seq(Int)
        BY <4>1, <2>2 DEF Sized
      <4> QED
        BY <4>1, <4>2 DEF Sized
    <3>3. pageNumber' \in [Criteria -> Int]
      <4>1. pageNumber' \in {pageNumber, [pageNumber EXCEPT ![setup.criteriaOf[s]] = own[s] + 1]}
        BY <1>6 DEF LastPage, PageLeft
      <4>2. own[s] + 1 \in Int
        BY DEF Sized
      <4> QED
        BY <4>1, <4>2, NumberSet DEF Sized
    <3>4. UNCHANGED <<setup, size, own, page, answer, requests>>
      BY <1>6 DEF LastPage
    <3> QED
      BY <3>1, <3>2, <3>3, <3>4 DEF Sized
  <2>4. ASSUME NEW u \in Streams, u # s PROVE Keeps(u)
    BY <1>6, <2>4 DEF LastPage, Sized, Keeps
  <2>5. FullBefore'
    BY <2>1, <2>4, Others DEF FullBefore
  <2>6. NoPageTooMany'
    BY <2>1, <2>2, <2>4, Others DEF NoPageTooMany
  <2> QED
    BY <2>3, <2>5, <2>6
<1>7. ASSUME NEW s \in Streams, Answer(s) PROVE PageInv'
  <2>1. PageOf(page[s]) \in Seq(Int) /\ Len(PageOf(page[s])) <= PageSize
    BY PageLength DEF Sized
  <2>2. Sized'
    BY <1>7, <2>1 DEF Answer, Sized
  <2>3. FullBefore' /\ NoPageTooMany'
    BY <1>7 DEF Answer, Sized, FullBefore, NoPageTooMany
  <2> QED
    BY <2>2, <2>3
<1>8. ASSUME NEW s \in Streams, Fail(s) PROVE PageInv'
  <2>1. Sized'
    BY <1>8 DEF Fail, Sized
  <2>2. FullBefore' /\ NoPageTooMany'
    BY <1>8 DEF Fail, Sized, FullBefore, NoPageTooMany
  <2> QED
    BY <2>1, <2>2
<1>9. CASE Grow
  BY <1>9 DEF Grow, caller, Sized, FullBefore, NoPageTooMany
<1>10. CASE UNCHANGED vars
  BY <1>10 DEF vars, caller, Sized, FullBefore, NoPageTooMany
<1> QED
  BY <1>1, <1>2, <1>3, <1>4, <1>5, <1>6, <1>7, <1>8, <1>9, <1>10 DEF Next

(* A stream asks for no page beyond the one that completes what its consumer *)
(* takes, whoever shares its criteria object and however the repository     *)
(* grows ("only loading the pages when necessary",                          *)
(* PaginationStreamer.ts:43).                                               *)
THEOREM AsksNoPageTooMany == Spec => []NoPageTooMany
<1>1. PageInv => NoPageTooMany
  BY DEF PageInv
<1> QED
  BY PageInit, PageStep, <1>1, PTL DEF Spec

(* ----------------------------------------------------------------------- *)
(* The refinement.  Callers share criteria only if all of them are prompt.   *)
SafeUse(u) ==
    \/ u.consumers \subseteq {"prompt"}
    \/ \A s, t \in Streams : u.criteriaOf[s] = u.criteriaOf[t] => s = t
SafeSetup == \A u \in Setups : SafeUse(u)

(* The page of a repository of k elements with a number, and the elements    *)
(* before it.                                                                *)
Before(n) == (n - 1) * PageSize
PageAt(n, k) == Run(Before(n) + 1, Least(Before(n) + PageSize, k))

(* What a stream asks for and has given depends on it alone: its page number *)
(* is the one it left in the criteria, and what it gave are the pages before. *)
(* The page it was answered was so when the repository had k elements, no    *)
(* fewer than when it was subscribed.                                        *)
InTurn(s) ==
    /\ stage[s] \in {"idle", "created"} => wanted[s] = -1 /\ own[s] = 1
    /\ stage[s] = "created" => "late" \in setup.consumers /\ pageNumber[setup.criteriaOf[s]] = 1
    /\ stage[s] \in {"asking", "answered"} =>
         /\ own[s] = requests[s] /\ page[s] = own[s]
         /\ Before(own[s]) <= size /\ emitted[s] = Run(1, Before(own[s]))
    /\ stage[s] = "answered" =>
         \E k \in Nat : wanted[s] <= k /\ Before(own[s]) <= k /\ k <= size /\ answer[s] = PageAt(own[s], k)
    /\ stage[s] \notin {"idle", "created"} => wanted[s] \in Nat /\ wanted[s] <= size

ListingInv == PageInv /\ TypeOK /\ \A s \in Streams : InTurn(s)

(* ----------------------------------------------------------------------- *)
(* Runs of positions, and where pages begin.                                 *)
After(e, m) == Run(e + 1, m)

LEMMA AfterIs ==
    ASSUME NEW e \in Nat, NEW m \in Nat, e <= m
    PROVE  /\ After(e, m) \in Seq(Int)
           /\ Len(After(e, m)) = m - e
           /\ \A i \in 1..(m - e) : After(e, m)[i] = e + i
           /\ m <= MaxSize => After(e, m) \in Seq(1..MaxSize)
<1>1. PICK k \in Nat : k = m - e
  OBVIOUS
<1>2. 1..(m - (e + 1) + 1) = 1..k /\ \A i \in 1..k : (e + 1) + i - 1 = e + i
  BY <1>1
<1>3. After(e, m) = [i \in 1..k |-> e + i]
  BY <1>2 DEF After, Run
<1>4. m <= MaxSize => \A i \in 1..k : e + i \in 1..MaxSize
  BY <1>1, SizesAssumption
<1> QED
  BY <1>1, <1>3, <1>4

LEMMA RunFromOne ==
    ASSUME NEW n \in Nat
    PROVE  /\ Run(1, n) = [i \in 1..n |-> i] /\ Run(1, n) \in Seq(Int) /\ Len(Run(1, n)) = n
           /\ n <= MaxSize => Run(1, n) \in Seq(1..MaxSize)
<1>1. 1..(n - 1 + 1) = 1..n /\ \A i \in 1..n : 1 + i - 1 = i
  OBVIOUS
<1>2. Run(1, n) = [i \in 1..n |-> i]
  BY <1>1 DEF Run
<1>3. n <= MaxSize => \A i \in 1..n : i \in 1..MaxSize
  BY SizesAssumption
<1>4. n <= MaxSize => Run(1, n) \in Seq(1..MaxSize)
  <2> HAVE n <= MaxSize
  <2> DEFINE T == 1..MaxSize
  <2>1. \A i \in 1..n : i \in T
    BY <1>3
  <2> HIDE DEF T
  <2>2. [i \in 1..n |-> i] \in Seq(T)
    BY <2>1
  <2> QED
    BY <2>2, <1>2 DEF T
<1>5. Run(1, n) \in Seq(Int) /\ Len(Run(1, n)) = n
  BY <1>2
<1> QED
  BY <1>2, <1>4, <1>5

LEMMA RunsJoin ==
    ASSUME NEW e \in Nat, NEW m \in Nat, NEW j \in Nat, e + j <= m
    PROVE  Run(1, e) \o SubSeq(After(e, m), 1, j) = Run(1, e + j)
<1> DEFINE a == Run(1, e)
           r == After(e, m)
           b == SubSeq(r, 1, j)
           c == Run(1, e + j)
<1>1. /\ a \in Seq(Int) /\ Len(a) = e /\ \A i \in 1..e : a[i] = i
      /\ c \in Seq(Int) /\ Len(c) = e + j /\ \A i \in 1..(e + j) : c[i] = i
  BY RunFromOne
<1>2. r \in Seq(Int) /\ Len(r) = m - e /\ \A i \in 1..(m - e) : r[i] = e + i
  BY AfterIs
<1> HIDE DEF a, r, c
<1>3. b \in Seq(Int) /\ Len(b) = j /\ \A i \in 1..j : b[i] = e + i
  BY <1>2
<1> HIDE DEF b
<1>4. a \o b \in Seq(Int) /\ Len(a \o b) = e + j
  BY <1>1, <1>3
<1>5. ASSUME NEW i \in 1..(e + j) PROVE (a \o b)[i] = c[i]
  <2>1. CASE i \in 1..e
    BY <2>1, <1>1, <1>3
  <2>2. CASE i \notin 1..e
    <3>1. i \in Int /\ i > e /\ i - e \in 1..j /\ e + (i - e) = i
      BY <2>2
    <3>2. (a \o b)[i] = b[i - e]
      BY <3>1, <1>1, <1>3
    <3> QED
      BY <3>1, <3>2, <1>1, <1>3
  <2> QED
    BY <2>1, <2>2
<1>6. a \o b = c
  <2> DEFINE d == a \o b
  <2>1. d \in Seq(Int) /\ Len(d) = e + j /\ c \in Seq(Int) /\ Len(c) = e + j
    BY <1>1, <1>4
  <2> HIDE DEF d
  <2>2. d = [i \in 1..(e + j) |-> d[i]] /\ c = [i \in 1..(e + j) |-> c[i]]
    BY <2>1
  <2>3. [i \in 1..(e + j) |-> (a \o b)[i]] = [i \in 1..(e + j) |-> c[i]]
    BY <1>5
  <2> QED
    BY <2>2, <2>3 DEF d
<1> QED
  BY <1>6 DEF a, b, r, c

LEMMA PagesBegin ==
    ASSUME NEW n \in Nat, n >= 1
    PROVE  /\ Before(n) \in Nat /\ Before(n + 1) = Before(n) + PageSize
           /\ n - 1 <= Before(n)
           /\ PageOf(n) = PageAt(n, size)
<1>1. PageSize \in Nat /\ PageSize >= 1 /\ n - 1 \in Nat
  BY SizesAssumption
<1>2. (n - 1) * PageSize \in Nat
  BY <1>1
<1>3. n * PageSize = (n - 1) * PageSize + PageSize
  <2>1. (n - 1) + 1 = n
    OBVIOUS
  <2> QED
    BY <2>1, <1>1, PagesAdd
<1>4. n - 1 <= (n - 1) * PageSize
  <2>1. (PageSize - 1) * (n - 1) \in Nat
    BY <1>1
  <2>2. ((PageSize - 1) + 1) * (n - 1) = (PageSize - 1) * (n - 1) + (n - 1)
    BY <1>1, PagesAdd
  <2>3. (n - 1) * PageSize = ((PageSize - 1) + 1) * (n - 1)
    BY <1>1
  <2> QED
    BY <2>1, <2>2, <2>3, <1>1
<1>5. (n + 1) - 1 = n
  OBVIOUS
<1> QED
  BY <1>2, <1>3, <1>4, <1>5 DEF Before, PageOf, PageAt

LEMMA FirstPage == Before(1) = 0 /\ Run(1, Before(1)) = <<>>
<1>1. Before(1) = 0
  <2>1. PageSize \in Nat /\ 1 - 1 = 0
    BY SizesAssumption
  <2>2. 0 * PageSize = 0
    BY <2>1
  <2> QED
    BY <2>1, <2>2 DEF Before
<1>2. Run(1, 0) \in Seq(Int) /\ Len(Run(1, 0)) = 0
  BY RunFromOne
<1> QED
  BY <1>1, <1>2

(* What a page holds.                                                        *)
LEMMA PageHolds ==
    ASSUME NEW n \in Nat, n >= 1, NEW k \in Nat, Before(n) <= k
    PROVE  /\ PageAt(n, k) = After(Before(n), Least(Before(n) + PageSize, k))
           /\ Least(Before(n) + PageSize, k) \in Nat /\ Before(n) <= Least(Before(n) + PageSize, k)
           /\ Least(Before(n) + PageSize, k) <= k
           /\ Least(Before(n) + PageSize, k) <= Before(n) + PageSize
           /\ Least(Before(n) + PageSize, k) \in {Before(n) + PageSize, k}
           /\ PageAt(n, k) \in Seq(Int)
           /\ Len(PageAt(n, k)) = Least(Before(n) + PageSize, k) - Before(n)
           /\ k <= MaxSize => PageAt(n, k) \in Seq(1..MaxSize)
<1> DEFINE e == Before(n)
           m == Least(e + PageSize, k)
<1>1. e \in Nat /\ PageSize \in Nat /\ MaxSize \in Nat
  BY PagesBegin, SizesAssumption
<1> HIDE DEF e
<1>2. m \in Nat /\ e <= m /\ m <= k /\ m <= e + PageSize /\ m \in {e + PageSize, k}
  BY <1>1 DEF Least, e
<1> HIDE DEF m
<1>3. /\ After(e, m) \in Seq(Int) /\ Len(After(e, m)) = m - e
      /\ m <= MaxSize => After(e, m) \in Seq(1..MaxSize)
  BY <1>1, <1>2, AfterIs
<1>4. k <= MaxSize => m <= MaxSize
  BY <1>1, <1>2
<1>5. PageAt(n, k) = After(e, m)
  BY DEF PageAt, After, e, m
<1> QED
  BY <1>2, <1>3, <1>4, <1>5 DEF e, m

(* ----------------------------------------------------------------------- *)
(* What a stream gives of an answer: the positions up to some n.            *)
Gives(s, n) ==
    /\ emitted[s] \o Taken(s, answer[s]) = Run(1, n)
    /\ Len(emitted[s]) <= n /\ n <= size /\ n <= Limit[s]
    /\ AsksNext(s, answer[s]) => n = Before(own[s] + 1)
    /\ Completes(s, answer[s]) => wanted[s] <= n \/ Limit[s] <= n

LEMMA StreamGives ==
    ASSUME ListingInv, NEW s \in Streams, stage[s] = "answered"
    PROVE  \E n \in Nat : Gives(s, n)
<1>1. /\ own[s] \in Nat /\ own[s] >= 1 /\ size \in Nat /\ wanted[s] \in Nat /\ MaxSize \in Nat
      /\ PageSize \in Nat /\ PageSize >= 1 /\ Limit[s] \in Nat
      /\ emitted[s] = Run(1, Before(own[s])) /\ Len(emitted[s]) < Limit[s]
  <2>1. own[s] \in Nat /\ own[s] >= 1 /\ size \in Nat /\ MaxSize \in Nat
    BY SizesAssumption DEF ListingInv, TypeOK
  <2>2. PageSize \in Nat /\ PageSize >= 1 /\ Limit[s] \in Nat
    BY SizesAssumption, Constants
  <2>3. wanted[s] \in Nat /\ emitted[s] = Run(1, Before(own[s]))
    BY DEF ListingInv, InTurn
  <2>4. Len(emitted[s]) < Limit[s]
    BY DEF ListingInv, PageInv, FullBefore
  <2> QED
    BY <2>1, <2>2, <2>3, <2>4
<1>2. PICK k \in Nat : wanted[s] <= k /\ Before(own[s]) <= k /\ k <= size /\ answer[s] = PageAt(own[s], k)
  BY DEF ListingInv, InTurn
<1> DEFINE e == Before(own[s])
           m == Least(e + PageSize, k)
           j == Least(Len(answer[s]), Limit[s] - Len(emitted[s]))
<1>3. e \in Nat /\ Before(own[s] + 1) = e + PageSize
  BY <1>1, PagesBegin
<1>4. emitted[s] \in Seq(Int) /\ Len(emitted[s]) = e
  BY <1>1, <1>3, RunFromOne
<1>5. /\ m \in Nat /\ e <= m /\ m <= k /\ m <= e + PageSize /\ m \in {e + PageSize, k}
      /\ answer[s] = After(e, m) /\ answer[s] \in Seq(Int) /\ Len(answer[s]) = m - e
  BY <1>1, <1>2, PageHolds
<1> HIDE DEF e, m
<1>6. j \in Nat /\ e + j <= m /\ e + j <= Limit[s] /\ (e + j = m \/ e + j = Limit[s])
  <2>1. Len(answer[s]) = m - e /\ Len(emitted[s]) = e /\ e < Limit[s]
    BY <1>1, <1>4, <1>5
  <2>2. j = Least(m - e, Limit[s] - e)
    BY <2>1
  <2> HIDE DEF j
  <2>3. e \in Nat /\ m \in Nat /\ Limit[s] \in Nat /\ e <= m
    BY <1>1, <1>3, <1>5
  <2> QED
    BY <2>1, <2>2, <2>3 DEF Least
<1> HIDE DEF j
<1>7. emitted[s] \o Taken(s, answer[s]) = Run(1, e + j)
  <2>1. Taken(s, answer[s]) = SubSeq(After(e, m), 1, j)
    BY <1>5 DEF Taken, j
  <2>2. Run(1, e) \o SubSeq(After(e, m), 1, j) = Run(1, e + j)
    BY <1>3, <1>5, <1>6, RunsJoin
  <2> QED
    BY <2>1, <2>2, <1>1 DEF e
<1>8. AsksNext(s, answer[s]) => e + j = Before(own[s] + 1)
  <2> HAVE AsksNext(s, answer[s])
  <2>1. ~(PageSize > Len(answer[s])) /\ Len(emitted[s]) + Len(answer[s]) < Limit[s]
    BY DEF AsksNext, IsLastPage
  <2>2. m = e + PageSize
    BY <2>1, <1>1, <1>3, <1>5
  <2>3. e + j = m
    BY <2>1, <1>1, <1>3, <1>4, <1>5, <1>6
  <2> QED
    BY <2>2, <2>3, <1>3
<1>9. Completes(s, answer[s]) => wanted[s] <= e + j \/ Limit[s] <= e + j
  <2> HAVE Completes(s, answer[s])
  <2>1. CASE IsLastPage(answer[s])
    <3>1. PageSize > Len(answer[s])
      <4>1. answer[s] = <<>> => Len(answer[s]) = 0
        OBVIOUS
      <4> QED
        BY <4>1, <2>1, <1>1 DEF IsLastPage
    <3>2. m = k
      BY <3>1, <1>1, <1>3, <1>5
    <3> QED
      BY <3>2, <1>1, <1>2, <1>6
  <2>2. CASE ~(Len(emitted[s]) + Len(answer[s]) < Limit[s])
    BY <2>2, <1>1, <1>3, <1>4, <1>5, <1>6
  <2> QED
    BY <2>1, <2>2 DEF Completes, AsksNext
<1>10. e + j \in Nat /\ Len(emitted[s]) <= e + j /\ e + j <= size
  <2>1. Len(emitted[s]) = e /\ m <= k /\ k <= size
    BY <1>2, <1>4, <1>5
  <2> QED
    BY <2>1, <1>1, <1>2, <1>3, <1>5, <1>6
<1>11. Gives(s, e + j)
  BY <1>6, <1>7, <1>8, <1>9, <1>10 DEF Gives
<1> QED
  BY <1>10, <1>11

(* ----------------------------------------------------------------------- *)
(* Each step, for the stream that makes it and for the others.              *)
LEMMA Bounds == /\ MaxSize \in Nat /\ PageSize \in Nat /\ PageSize >= 1
                /\ Sizes \subseteq 0..MaxSize
                /\ Limit \in [Streams -> Nat] /\ Setups \subseteq Setup
BY SizesAssumption, StreamsAssumption

(* A stream that asks for its n-th page.                                    *)
LEMMA AskedWithin ==
    ASSUME ListingInv, NEW n \in Nat, n >= 1, Before(n) <= size
    PROVE  n + 1 <= MaxSize + 2
<1>1. n - 1 <= Before(n) /\ Before(n) \in Nat
  BY PagesBegin
<1> QED
  BY <1>1, Bounds DEF ListingInv, TypeOK

(* A step of stream s leaves another one alone.  Its number in the criteria  *)
(* stays if it is between search and subscribe, as then it is its own object.*)
Alone(t) ==
    /\ stage'[t] = stage[t] /\ own'[t] = own[t] /\ page'[t] = page[t] /\ answer'[t] = answer[t]
    /\ requests'[t] = requests[t] /\ wanted'[t] = wanted[t] /\ emitted'[t] = emitted[t]

LEMMA OwnCriteria ==
    ASSUME SafeSetup, ListingInv, NEW s \in Streams, NEW t \in Streams, t # s, stage[t] = "created"
    PROVE  setup.criteriaOf[t] # setup.criteriaOf[s]
BY DEF SafeSetup, SafeUse, ListingInv, InTurn, TypeOK

LEMMA AloneKeepsTurn ==
    ASSUME ListingInv, NEW t \in Streams, Alone(t), setup' = setup, size' \in Nat, size <= size',
           stage[t] = "created" => pageNumber'[setup.criteriaOf[t]] = pageNumber[setup.criteriaOf[t]]
    PROVE  InTurn(t)'
<1>1. InTurn(t) /\ size \in Nat /\ wanted[t] \in Int
  BY Bounds DEF ListingInv, TypeOK
<1>2. stage[t] = "created" => "late" \in setup'.consumers /\ pageNumber'[setup'.criteriaOf[t]] = 1
  BY <1>1 DEF InTurn
<1>3. stage[t] \in {"asking", "answered"} => Before(own[t]) <= size'
  <2> HAVE stage[t] \in {"asking", "answered"}
  <2>1. Before(own[t]) <= size /\ own[t] \in Nat /\ own[t] >= 1
    BY <1>1, Bounds DEF InTurn, ListingInv, TypeOK
  <2>2. Before(own[t]) \in Nat
    BY <2>1, PagesBegin
  <2> QED
    BY <2>1, <2>2, <1>1
<1>4. stage[t] = "answered" =>
        \E k \in Nat : wanted[t] <= k /\ Before(own[t]) <= k /\ k <= size' /\ answer[t] = PageAt(own[t], k)
  <2> HAVE stage[t] = "answered"
  <2>1. PICK k \in Nat : wanted[t] <= k /\ Before(own[t]) <= k /\ k <= size /\ answer[t] = PageAt(own[t], k)
    BY <1>1 DEF InTurn
  <2>2. k <= size'
    BY <2>1, <1>1
  <2> QED
    BY <2>1, <2>2
<1>5. stage[t] \notin {"idle", "created"} => wanted[t] \in Nat /\ wanted[t] <= size'
  BY <1>1 DEF InTurn
<1>6. /\ stage[t] \in {"idle", "created"} => wanted[t] = -1 /\ own[t] = 1
      /\ stage[t] \in {"asking", "answered"} =>
           own[t] = requests[t] /\ page[t] = own[t] /\ emitted[t] = Run(1, Before(own[t]))
  BY <1>1 DEF InTurn
<1>7. /\ stage'[t] \in {"idle", "created"} => wanted'[t] = -1 /\ own'[t] = 1
      /\ stage'[t] = "created" => "late" \in setup'.consumers /\ pageNumber'[setup'.criteriaOf[t]] = 1
      /\ stage'[t] \notin {"idle", "created"} => wanted'[t] \in Nat /\ wanted'[t] <= size'
  BY <1>2, <1>5, <1>6 DEF Alone
<1>8. stage'[t] \in {"asking", "answered"} =>
        /\ own'[t] = requests'[t] /\ page'[t] = own'[t]
        /\ Before(own'[t]) <= size' /\ emitted'[t] = Run(1, Before(own'[t]))
  BY <1>3, <1>6 DEF Alone
<1>9. stage'[t] = "answered" =>
        \E k \in Nat : wanted'[t] <= k /\ Before(own'[t]) <= k /\ k <= size' /\ answer'[t] = PageAt(own'[t], k)
  BY <1>4 DEF Alone
<1> QED
  BY <1>7, <1>8, <1>9 DEF InTurn

(* Which streams have completed.                                             *)
Done == [s \in Streams |-> stage[s] = "done"]

(* Search: nothing is subscribed, and the criteria object is its own.       *)
LEMMA SearchTurn ==
    ASSUME SafeSetup, ListingInv, NEW s \in Streams, Search(s)
    PROVE  TypeOK' /\ (\A t \in Streams : InTurn(t)') /\ UNCHANGED <<size, wanted, emitted>>
                   /\ Done' = Done
<1>1. /\ "late" \in setup.consumers /\ stage[s] = "idle" /\ stage' = [stage EXCEPT ![s] = "created"]
      /\ pageNumber' = [pageNumber EXCEPT ![setup.criteriaOf[s]] = 1]
      /\ UNCHANGED <<setup, size, own, page, answer, requests, wanted, emitted>>
  BY DEF Search, PageLeft
<1>2. TypeOK'
  <2>1. 1 \in 1..(MaxSize + 2)
    BY Bounds
  <2>2. pageNumber' \in [Criteria -> 1..(MaxSize + 2)]
    BY <1>1, <2>1 DEF ListingInv, TypeOK
  <2>3. stage' \in [Streams -> {"idle", "created", "asking", "answered", "done", "failed"}]
    BY <1>1 DEF ListingInv, TypeOK
  <2> QED
    BY <1>1, <2>2, <2>3 DEF ListingInv, TypeOK
<1>3. /\ stage'[s] = "created"
      /\ \A t \in Streams : t # s => stage'[t] = stage[t]
  BY <1>1 DEF ListingInv, TypeOK
<1>4. InTurn(s)'
  <2>1. wanted[s] = -1 /\ own[s] = 1 /\ setup.criteriaOf[s] \in Criteria
    BY <1>1, Constants DEF ListingInv, InTurn, TypeOK
  <2>2. pageNumber'[setup.criteriaOf[s]] = 1
    BY <1>1, <2>1 DEF ListingInv, TypeOK
  <2> QED
    BY <1>1, <1>3, <2>1, <2>2 DEF InTurn
<1>5. ASSUME NEW t \in Streams, t # s PROVE InTurn(t)'
  <2>1. Alone(t)
    BY <1>1, <1>3, <1>5 DEF Alone
  <2>2. stage[t] = "created" => pageNumber'[setup.criteriaOf[t]] = pageNumber[setup.criteriaOf[t]]
    BY <1>1, <1>5, OwnCriteria, Constants DEF ListingInv, TypeOK
  <2>3. size' \in Nat /\ size <= size'
    BY <1>1 DEF ListingInv, TypeOK
  <2> QED
    BY <2>1, <2>2, <2>3, <1>1, AloneKeepsTurn
<1>6. Done' = Done
  BY <1>1, <1>3 DEF Done
<1> QED
  BY <1>1, <1>2, <1>4, <1>5, <1>6

(* Subscribe and SearchNow: the first page is asked for.                     *)
LEMMA BeginTurn ==
    ASSUME ListingInv, NEW s \in Streams, stage[s] \in {"idle", "created"},
           UNCHANGED <<setup, size, own, answer, emitted>>,
           stage' = [stage EXCEPT ![s] = "asking"], page' = [page EXCEPT ![s] = 1],
           requests' = [requests EXCEPT ![s] = @ + 1], wanted' = [wanted EXCEPT ![s] = size],
           pageNumber' \in [Criteria -> 1..(MaxSize + 2)],
           \A t \in Streams \ {s} : stage[t] = "created" =>
               pageNumber'[setup.criteriaOf[t]] = pageNumber[setup.criteriaOf[t]]
    PROVE  TypeOK' /\ (\A t \in Streams : InTurn(t)') /\ List!Subscribe(s)
<1>1. /\ wanted[s] = -1 /\ own[s] = 1 /\ requests[s] = 0 /\ emitted[s] = <<>>
      /\ size \in Nat /\ size <= MaxSize
  BY Bounds DEF ListingInv, PageInv, FullBefore, InTurn, TypeOK
<1>2. /\ stage'[s] = "asking" /\ page'[s] = 1 /\ requests'[s] = 1 /\ wanted'[s] = size
      /\ \A t \in Streams \ {s} : Alone(t)
  BY <1>1 DEF ListingInv, TypeOK, Alone
<1>3. TypeOK'
  <2>1. /\ 1 \in 0..(MaxSize + 2) /\ size \in -1..MaxSize
    BY <1>1, Bounds
  <2>2. page' \in [Streams -> 0..(MaxSize + 2)] /\ wanted' \in [Streams -> -1..MaxSize]
    BY <2>1 DEF ListingInv, TypeOK
  <2>3. requests' \in [Streams -> 0..(MaxSize + 2)]
    <3>1. requests' = [requests EXCEPT ![s] = 1]
      BY <1>1
    <3> QED
      BY <3>1, <2>1 DEF ListingInv, TypeOK
  <2>4. stage' \in [Streams -> {"idle", "created", "asking", "answered", "done", "failed"}]
    BY DEF ListingInv, TypeOK
  <2> QED
    BY <2>2, <2>3, <2>4 DEF ListingInv, TypeOK
<1>4. InTurn(s)'
  <2>1. Before(1) = 0 /\ Run(1, Before(1)) = <<>>
    BY FirstPage
  <2> QED
    BY <1>1, <1>2, <2>1 DEF InTurn
<1>5. ASSUME NEW t \in Streams, t # s PROVE InTurn(t)'
  <2>1. size' \in Nat /\ size <= size' /\ Alone(t)
    BY <1>1, <1>2, <1>5
  <2> QED
    BY <2>1, <1>5, AloneKeepsTurn
<1>6. List!Subscribe(s)
  <2>1. [t \in Streams |-> stage'[t] = "done"] = [t \in Streams |-> stage[t] = "done"]
    BY <1>2 DEF Alone
  <2> QED
    BY <1>1, <2>1 DEF List!Subscribe
<1> QED
  BY <1>3, <1>4, <1>5, <1>6

(* A page that is not the last: its elements are given, and the next page is *)
(* asked for with the number left in the criteria.                           *)
LEMMA NextTurn ==
    ASSUME ListingInv, NEW s \in Streams, stage[s] = "answered", AsksNext(s, answer[s]),
           emitted' = [emitted EXCEPT ![s] = @ \o Taken(s, answer[s])],
           setup' = setup, size' = size, stage'[s] = "asking", wanted'[s] = wanted[s],
           own'[s] = own[s] + 1, page'[s] = own[s] + 1, requests'[s] = requests[s] + 1
    PROVE  /\ InTurn(s)'
           /\ own[s] + 1 \in 1..(MaxSize + 2) /\ requests[s] + 1 \in 0..(MaxSize + 2)
           /\ emitted' \in [Streams -> Seq(1..MaxSize)]
<1>1. /\ own[s] \in Nat /\ own[s] >= 1 /\ own[s] = requests[s] /\ size \in Nat /\ size <= MaxSize
      /\ wanted[s] \in Nat /\ wanted[s] <= size /\ MaxSize \in Nat
  <2>1. own[s] \in Nat /\ own[s] >= 1 /\ size \in Nat /\ size <= MaxSize /\ MaxSize \in Nat
    BY Bounds DEF ListingInv, TypeOK
  <2> QED
    BY <2>1 DEF ListingInv, InTurn
<1>2. PICK n \in Nat : Gives(s, n)
  BY StreamGives
<1>3. /\ n = Before(own[s] + 1) /\ n <= size /\ emitted[s] \o Taken(s, answer[s]) = Run(1, n)
  BY <1>2 DEF Gives
<1>4. own[s] + 1 + 1 <= MaxSize + 2
  BY <1>1, <1>3, AskedWithin
<1>5. Run(1, n) \in Seq(1..MaxSize)
  <2>1. n <= MaxSize
    BY <1>1, <1>2, <1>3
  <2> QED
    BY <2>1, <1>2, RunFromOne
<1>6. emitted' = [emitted EXCEPT ![s] = Run(1, n)]
  BY <1>3
<1>7. emitted' \in [Streams -> Seq(1..MaxSize)] /\ emitted'[s] = Run(1, n)
  BY <1>5, <1>6 DEF ListingInv, TypeOK
<1>8. InTurn(s)'
  BY <1>1, <1>3, <1>7 DEF InTurn
<1>9. own[s] + 1 \in 1..(MaxSize + 2) /\ requests[s] + 1 \in 0..(MaxSize + 2)
  BY <1>1, <1>4
<1> QED
  BY <1>7, <1>8, <1>9

(* What a stream gives, and completing, is a step of Listing.               *)
LEMMA EmitMaps ==
    ASSUME ListingInv, NEW s \in Streams, stage[s] = "answered",
           emitted' = [emitted EXCEPT ![s] = @ \o Taken(s, answer[s])], size' = size,
           \E started \in SUBSET {t \in Streams : wanted[t] = -1} :
               wanted' = [t \in Streams |-> IF t \in started THEN size ELSE wanted[t]],
           \/ Done' = Done
           \/ Completes(s, answer[s]) /\ Done' = [Done EXCEPT ![s] = TRUE]
    PROVE  List!Emit(s)
<1>1. PICK n \in Nat : Gives(s, n)
  BY StreamGives
<1>2. /\ Len(emitted[s]) <= n /\ n <= size /\ n <= Limit[s] /\ Len(emitted[s]) \in Nat
      /\ size \in Nat /\ Limit[s] \in Nat /\ wanted[s] \in Nat
  <2>1. size \in Nat /\ Limit[s] \in Nat /\ Len(emitted[s]) \in Nat /\ wanted[s] \in Nat
    <3>1. size \in Nat /\ Limit[s] \in Nat
      <4>1. size \in Nat
        BY Bounds DEF ListingInv, TypeOK
      <4>2. Limit[s] \in Nat
        BY Bounds
      <4> QED
        BY <4>1, <4>2
    <3>2. emitted[s] \in Seq(1..MaxSize)
      BY DEF ListingInv, TypeOK
    <3>3. wanted[s] \in Nat
      BY DEF ListingInv, InTurn
    <3> QED
      BY <3>1, <3>2, <3>3
  <2> QED
    BY <1>1, <2>1 DEF Gives
<1>3. n \in Len(emitted[s])..List!Least(size, Limit[s])
  BY <1>2 DEF List!Least
<1>4. emitted' = [emitted EXCEPT ![s] = [i \in 1..n |-> i]]
  BY <1>1, RunFromOne DEF Gives
<1>5. Completes(s, answer[s]) => n >= List!Least(wanted[s], Limit[s])
  BY <1>1, <1>2 DEF Gives, List!Least
<1>6. wanted[s] # -1 /\ ~(stage[s] = "done")
  BY <1>2
<1>7. \E m \in Len(emitted[s])..List!Least(size, Limit[s]) :
        /\ emitted' = [emitted EXCEPT ![s] = [i \in 1..m |-> i]]
        /\ \/ Done' = Done
           \/ m >= List!Least(wanted[s], Limit[s]) /\ Done' = [Done EXCEPT ![s] = TRUE]
  BY <1>3, <1>4, <1>5
<1>8. ~[t \in Streams |-> stage[t] = "done"][s]
  BY <1>6
<1> QED
  BY <1>6, <1>7, <1>8 DEF List!Emit, Done

(* The elements are given and the next page is asked for.                   *)
LEMMA NextPageTurn ==
    ASSUME SafeSetup, ListingInv, NEW s \in Streams, NextPage(s)
    PROVE  TypeOK' /\ (\A t \in Streams : InTurn(t)') /\ List!Emit(s)
<1>1. /\ stage[s] = "answered" /\ AsksNext(s, answer[s])
      /\ own' = [own EXCEPT ![s] = own[s] + 1]
      /\ pageNumber' = [pageNumber EXCEPT ![setup.criteriaOf[s]] = own[s] + 1]
      /\ emitted' = [emitted EXCEPT ![s] = @ \o Taken(s, answer[s])]
      /\ stage' = [stage EXCEPT ![s] = "asking"]
      /\ page' = [page EXCEPT ![s] = pageNumber'[setup.criteriaOf[s]]]
      /\ requests' = [requests EXCEPT ![s] = requests[s] + 1]
      /\ UNCHANGED <<setup, size, answer, wanted>>
  BY DEF NextPage, PageLeft
<1>2. setup.criteriaOf[s] \in Criteria
  BY Constants DEF ListingInv, TypeOK
<1>3. pageNumber'[setup.criteriaOf[s]] = own[s] + 1
  BY <1>1, <1>2 DEF ListingInv, TypeOK
<1>4. /\ stage'[s] = "asking" /\ own'[s] = own[s] + 1 /\ page'[s] = own[s] + 1
      /\ requests'[s] = requests[s] + 1 /\ wanted'[s] = wanted[s]
      /\ \A t \in Streams \ {s} : Alone(t)
  BY <1>1, <1>3 DEF ListingInv, TypeOK, Alone
<1>5. /\ InTurn(s)'
      /\ own[s] + 1 \in 1..(MaxSize + 2) /\ requests[s] + 1 \in 0..(MaxSize + 2)
      /\ emitted' \in [Streams -> Seq(1..MaxSize)]
  BY <1>1, <1>4, NextTurn
<1>6. TypeOK'
  <2>1. /\ own' \in [Streams -> 1..(MaxSize + 2)]
        /\ requests' \in [Streams -> 0..(MaxSize + 2)]
        /\ pageNumber' \in [Criteria -> 1..(MaxSize + 2)]
    BY <1>1, <1>5 DEF ListingInv, TypeOK
  <2>2. page' \in [Streams -> 0..(MaxSize + 2)]
    <3>1. page' = [page EXCEPT ![s] = own[s] + 1]
      BY <1>1, <1>3
    <3>2. own[s] + 1 \in 0..(MaxSize + 2)
      BY <1>5, Bounds
    <3> QED
      BY <3>1, <3>2 DEF ListingInv, TypeOK
  <2>3. stage' \in [Streams -> {"idle", "created", "asking", "answered", "done", "failed"}]
    BY <1>1 DEF ListingInv, TypeOK
  <2> QED
    BY <1>1, <1>5, <2>1, <2>2, <2>3 DEF ListingInv, TypeOK
<1>7. ASSUME NEW t \in Streams, t # s PROVE InTurn(t)'
  <2>1. stage[t] = "created" => pageNumber'[setup.criteriaOf[t]] = pageNumber[setup.criteriaOf[t]]
    BY <1>1, <1>7, OwnCriteria, Constants DEF ListingInv, TypeOK
  <2>2. size' \in Nat /\ size <= size' /\ Alone(t)
    BY <1>1, <1>4, <1>7, Bounds DEF ListingInv, TypeOK
  <2> QED
    BY <2>1, <2>2, <1>1, AloneKeepsTurn
<1>8. List!Emit(s)
  <2>1. Done' = Done
    BY <1>1, <1>4 DEF Done, Alone
  <2>2. wanted' = [t \in Streams |-> IF t \in {} THEN size ELSE wanted[t]]
    BY <1>1 DEF ListingInv, TypeOK
  <2>3. {} \in SUBSET {t \in Streams : wanted[t] = -1}
    OBVIOUS
  <2> QED
    BY <2>1, <2>2, <2>3, <1>1, EmitMaps
<1> QED
  BY <1>5, <1>6, <1>7, <1>8

(* The same, when the consumer starts stream t as it is handed the elements. *)
LEMMA ReentrantTurn ==
    ASSUME SafeSetup, ListingInv, NEW s \in Streams, NEW t \in Streams, NextPageReentrant(s, t)
    PROVE  TypeOK' /\ (\A u \in Streams : InTurn(u)') /\ List!Emit(s)
<1>1. /\ "reentrant" \in setup.consumers
      /\ stage[s] = "answered" /\ stage[t] = "idle" /\ AsksNext(s, answer[s])
      /\ own' = [own EXCEPT ![s] = own[s] + 1]
      /\ pageNumber' = [[pageNumber EXCEPT ![setup.criteriaOf[s]] = own[s] + 1]
                           EXCEPT ![setup.criteriaOf[t]] = 1]
      /\ emitted' = [emitted EXCEPT ![s] = @ \o Taken(s, answer[s])]
      /\ stage' = [stage EXCEPT ![s] = "asking", ![t] = "asking"]
      /\ page' = [page EXCEPT ![s] = pageNumber'[setup.criteriaOf[s]], ![t] = 1]
      /\ requests' = [requests EXCEPT ![s] = requests[s] + 1, ![t] = requests[t] + 1]
      /\ wanted' = [wanted EXCEPT ![t] = size]
      /\ UNCHANGED <<setup, size, answer>>
  <2>1. s # t
    BY DEF NextPageReentrant
  <2> QED
    BY <2>1 DEF NextPageReentrant, PageLeft
<1>2. s # t
  BY <1>1
<1>3. /\ setup.criteriaOf[s] \in Criteria /\ setup.criteriaOf[t] \in Criteria
      /\ setup.criteriaOf[s] # setup.criteriaOf[t]
  <2>1. setup \in Setups
    BY DEF ListingInv, TypeOK
  <2> QED
    BY <2>1, <1>1, <1>2, Constants DEF SafeSetup, SafeUse
<1>4. pageNumber'[setup.criteriaOf[s]] = own[s] + 1
  BY <1>1, <1>3 DEF ListingInv, TypeOK
<1>5. /\ stage'[s] = "asking" /\ own'[s] = own[s] + 1 /\ page'[s] = own[s] + 1
      /\ requests'[s] = requests[s] + 1 /\ wanted'[s] = wanted[s]
      /\ stage'[t] = "asking" /\ own'[t] = own[t] /\ page'[t] = 1
      /\ requests'[t] = requests[t] + 1 /\ wanted'[t] = size /\ emitted'[t] = emitted[t]
      /\ \A u \in Streams \ {s, t} : Alone(u)
  BY <1>1, <1>2, <1>4 DEF ListingInv, TypeOK, Alone
<1>6. /\ InTurn(s)'
      /\ own[s] + 1 \in 1..(MaxSize + 2) /\ requests[s] + 1 \in 0..(MaxSize + 2)
      /\ emitted' \in [Streams -> Seq(1..MaxSize)]
  BY <1>1, <1>5, NextTurn
<1>7. /\ wanted[t] = -1 /\ own[t] = 1 /\ requests[t] = 0 /\ emitted[t] = <<>>
      /\ size \in Nat /\ size <= MaxSize
  BY <1>1, Bounds DEF ListingInv, PageInv, FullBefore, InTurn, TypeOK
<1>8. TypeOK'
  <2>1. 1 \in 1..(MaxSize + 2) /\ 1 \in 0..(MaxSize + 2) /\ size \in -1..MaxSize
        /\ own[s] + 1 \in 0..(MaxSize + 2)
    BY <1>6, <1>7, Bounds
  <2>2. own' \in [Streams -> 1..(MaxSize + 2)]
    BY <1>1, <1>6 DEF ListingInv, TypeOK
  <2>3. requests' \in [Streams -> 0..(MaxSize + 2)]
    <3>1. requests' = [requests EXCEPT ![s] = requests[s] + 1, ![t] = 1]
      BY <1>1, <1>7
    <3> QED
      BY <3>1, <2>1, <1>6 DEF ListingInv, TypeOK
  <2>4. pageNumber' \in [Criteria -> 1..(MaxSize + 2)]
    BY <1>1, <1>6, <2>1 DEF ListingInv, TypeOK
  <2>5. page' \in [Streams -> 0..(MaxSize + 2)]
    <3>1. page' = [page EXCEPT ![s] = own[s] + 1, ![t] = 1]
      BY <1>1, <1>4
    <3> QED
      BY <3>1, <2>1 DEF ListingInv, TypeOK
  <2>6. wanted' \in [Streams -> -1..MaxSize]
    BY <1>1, <2>1 DEF ListingInv, TypeOK
  <2>7. stage' \in [Streams -> {"idle", "created", "asking", "answered", "done", "failed"}]
    BY <1>1 DEF ListingInv, TypeOK
  <2> QED
    BY <1>1, <1>6, <2>2, <2>3, <2>4, <2>5, <2>6, <2>7 DEF ListingInv, TypeOK
<1>9. InTurn(t)'
  <2>1. Before(1) = 0 /\ Run(1, Before(1)) = <<>>
    BY FirstPage
  <2>2. /\ stage'[t] = "asking" /\ own'[t] = 1 /\ page'[t] = 1 /\ requests'[t] = 1
        /\ wanted'[t] = size /\ size' = size /\ emitted'[t] = <<>>
    BY <1>1, <1>5, <1>7
  <2> QED
    BY <1>7, <2>1, <2>2 DEF InTurn
<1>10. ASSUME NEW u \in Streams, u # s, u # t PROVE InTurn(u)'
  <2>1. stage[u] = "created" => pageNumber'[setup.criteriaOf[u]] = pageNumber[setup.criteriaOf[u]]
    <3> HAVE stage[u] = "created"
    <3>1. setup.criteriaOf[u] # setup.criteriaOf[s] /\ setup.criteriaOf[u] # setup.criteriaOf[t]
      BY <1>10, OwnCriteria
    <3>2. setup.criteriaOf[u] \in Criteria
      BY Constants DEF ListingInv, TypeOK
    <3> QED
      BY <1>1, <3>1, <3>2 DEF ListingInv, TypeOK
  <2>2. size' \in Nat /\ size <= size' /\ Alone(u)
    BY <1>1, <1>5, <1>7, <1>10
  <2> QED
    BY <2>1, <2>2, <1>1, AloneKeepsTurn
<1>11. List!Emit(s)
  <2>1. Done' = Done
    <3>1. \A u \in Streams : (stage'[u] = "done") = (stage[u] = "done")
      BY <1>1, <1>5 DEF Alone
    <3> QED
      BY <3>1 DEF Done
  <2>2. wanted' = [u \in Streams |-> IF u \in {t} THEN size ELSE wanted[u]]
    BY <1>1 DEF ListingInv, TypeOK
  <2>3. {t} \in SUBSET {u \in Streams : wanted[u] = -1}
    BY <1>7
  <2> QED
    BY <2>1, <2>2, <2>3, <1>1, EmitMaps
<1> QED
  BY <1>6, <1>8, <1>9, <1>10, <1>11

(* The stream completes.                                                    *)
LEMMA LastTurn ==
    ASSUME SafeSetup, ListingInv, NEW s \in Streams, LastPage(s)
    PROVE  TypeOK' /\ (\A t \in Streams : InTurn(t)') /\ List!Emit(s)
<1>1. /\ stage[s] = "answered" /\ Completes(s, answer[s])
      /\ emitted' = [emitted EXCEPT ![s] = @ \o Taken(s, answer[s])]
      /\ stage' = [stage EXCEPT ![s] = "done"]
      /\ \/ pageNumber' = pageNumber
         \/ /\ ~IsLastPage(answer[s])
            /\ pageNumber' = [pageNumber EXCEPT ![setup.criteriaOf[s]] = own[s] + 1]
      /\ UNCHANGED <<setup, size, own, page, answer, requests, wanted>>
  BY DEF LastPage, PageLeft
<1>2. /\ stage'[s] = "done" /\ \A t \in Streams \ {s} : Alone(t)
  BY <1>1 DEF ListingInv, TypeOK, Alone
<1>3. PICK n \in Nat : Gives(s, n)
  BY <1>1, StreamGives
<1>4. /\ own[s] \in Nat /\ own[s] >= 1 /\ size \in Nat /\ size <= MaxSize
      /\ wanted[s] \in Nat /\ wanted[s] <= size /\ MaxSize \in Nat /\ Before(own[s]) <= size
  <2>1. own[s] \in Nat /\ own[s] >= 1 /\ size \in Nat /\ size <= MaxSize /\ MaxSize \in Nat
    BY Bounds DEF ListingInv, TypeOK
  <2> QED
    BY <1>1, <2>1 DEF ListingInv, InTurn
<1>5. emitted' \in [Streams -> Seq(1..MaxSize)]
  <2>1. emitted' = [emitted EXCEPT ![s] = Run(1, n)] /\ n <= size
    BY <1>1, <1>3 DEF Gives
  <2>2. n <= MaxSize
    BY <1>3, <1>4, <2>1
  <2>3. Run(1, n) \in Seq(1..MaxSize)
    BY <1>3, <2>2, RunFromOne
  <2> QED
    BY <2>1, <2>3 DEF ListingInv, TypeOK
<1>6. TypeOK'
  <2>1. own[s] + 1 \in 1..(MaxSize + 2)
    BY <1>4, AskedWithin
  <2>2. pageNumber' \in [Criteria -> 1..(MaxSize + 2)]
    BY <1>1, <2>1 DEF ListingInv, TypeOK
  <2>3. stage' \in [Streams -> {"idle", "created", "asking", "answered", "done", "failed"}]
    BY <1>1 DEF ListingInv, TypeOK
  <2> QED
    BY <1>1, <1>5, <2>2, <2>3 DEF ListingInv, TypeOK
<1>7. InTurn(s)'
  BY <1>1, <1>2, <1>4 DEF InTurn
<1>8. ASSUME NEW t \in Streams, t # s PROVE InTurn(t)'
  <2>1. stage[t] = "created" => pageNumber'[setup.criteriaOf[t]] = pageNumber[setup.criteriaOf[t]]
    BY <1>1, <1>8, OwnCriteria, Constants DEF ListingInv, TypeOK
  <2>2. size' \in Nat /\ size <= size' /\ Alone(t)
    BY <1>1, <1>2, <1>4, <1>8
  <2> QED
    BY <2>1, <2>2, <1>1, AloneKeepsTurn
<1>9. List!Emit(s)
  <2>1. Done' = [Done EXCEPT ![s] = TRUE]
    BY <1>1, <1>2 DEF Done, Alone
  <2>2. wanted' = [t \in Streams |-> IF t \in {} THEN size ELSE wanted[t]]
    BY <1>1 DEF ListingInv, TypeOK
  <2>3. {} \in SUBSET {t \in Streams : wanted[t] = -1}
    OBVIOUS
  <2> QED
    BY <2>1, <2>2, <2>3, <1>1, EmitMaps
<1> QED
  BY <1>6, <1>7, <1>8, <1>9

(* A page is answered as the repository is now.                             *)
LEMMA AnswerTurn ==
    ASSUME ListingInv, NEW s \in Streams, Answer(s)
    PROVE  /\ TypeOK' /\ \A t \in Streams : InTurn(t)'
           /\ UNCHANGED <<size, wanted, emitted>> /\ Done' = Done
<1>1. /\ stage[s] = "asking" /\ stage' = [stage EXCEPT ![s] = "answered"]
      /\ answer' = [answer EXCEPT ![s] = PageOf(page[s])]
      /\ UNCHANGED <<setup, size, pageNumber, own, page, requests, wanted, emitted>>
  BY DEF Answer
<1>2. /\ own[s] \in Nat /\ own[s] >= 1 /\ size \in Nat /\ size <= MaxSize
      /\ wanted[s] \in Nat /\ wanted[s] <= size /\ Before(own[s]) <= size
      /\ page[s] = own[s]
  <2>1. own[s] \in Nat /\ own[s] >= 1 /\ size \in Nat /\ size <= MaxSize
    BY Bounds DEF ListingInv, TypeOK
  <2> QED
    BY <1>1, <2>1 DEF ListingInv, InTurn
<1>3. PageOf(page[s]) = PageAt(own[s], size)
  BY <1>2, PagesBegin
<1>4. PageAt(own[s], size) \in Seq(1..MaxSize) /\ Len(PageAt(own[s], size)) <= PageSize
  <2> DEFINE e == Before(own[s])
             m == Least(e + PageSize, size)
  <2>1. PageAt(own[s], size) \in Seq(1..MaxSize)
    BY <1>2, PageHolds
  <2>2. m \in Nat /\ m <= e + PageSize /\ Len(PageAt(own[s], size)) = m - e
    BY <1>2, PageHolds
  <2>3. e \in Nat
    BY <1>2, PagesBegin
  <2> HIDE DEF e, m
  <2>4. Len(PageAt(own[s], size)) <= PageSize
    BY <2>2, <2>3, Bounds
  <2> QED
    BY <2>1, <2>4
<1>5. /\ stage'[s] = "answered" /\ answer'[s] = PageAt(own[s], size)
      /\ \A t \in Streams \ {s} : Alone(t)
  <2>1. answer \in [Streams -> Seq(Int)]
    BY DEF ListingInv, PageInv, Sized
  <2> QED
    BY <1>1, <1>3, <2>1 DEF ListingInv, TypeOK, Alone
<1>6. TypeOK'
  <2>1. stage' \in [Streams -> {"idle", "created", "asking", "answered", "done", "failed"}]
    BY <1>1 DEF ListingInv, TypeOK
  <2>2. \A t \in Streams : answer'[t] \in Seq(1..MaxSize) /\ Len(answer'[t]) <= PageSize
    BY <1>4, <1>5 DEF ListingInv, TypeOK, Alone
  <2> QED
    BY <1>1, <2>1, <2>2 DEF ListingInv, TypeOK
<1>7. InTurn(s)'
  <2>1. /\ own[s] = requests[s] /\ emitted[s] = Run(1, Before(own[s]))
    BY <1>1 DEF ListingInv, InTurn
  <2>2. \E k \in Nat : wanted[s] <= k /\ Before(own[s]) <= k /\ k <= size /\ answer'[s] = PageAt(own[s], k)
    BY <1>2, <1>5
  <2>3. /\ stage'[s] = "answered" /\ own'[s] = own[s] /\ page'[s] = own[s] /\ requests'[s] = own[s]
        /\ size' = size /\ wanted'[s] = wanted[s] /\ emitted'[s] = Run(1, Before(own[s]))
    BY <1>1, <1>2, <1>5, <2>1
  <2>4. \E k \in Nat : /\ wanted'[s] <= k /\ Before(own'[s]) <= k /\ k <= size'
                       /\ answer'[s] = PageAt(own'[s], k)
    BY <2>2, <2>3
  <2> QED
    BY <1>2, <2>3, <2>4 DEF InTurn
<1>8. ASSUME NEW t \in Streams, t # s PROVE InTurn(t)'
  <2>1. size' \in Nat /\ size <= size' /\ Alone(t)
    BY <1>1, <1>2, <1>5, <1>8
  <2> QED
    BY <2>1, <1>1, AloneKeepsTurn
<1>9. Done' = Done
  BY <1>1, <1>5 DEF Done, Alone
<1> QED
  BY <1>1, <1>6, <1>7, <1>8, <1>9

LEMMA FailTurn ==
    ASSUME ListingInv, NEW s \in Streams, Fail(s)
    PROVE  /\ TypeOK' /\ \A t \in Streams : InTurn(t)'
           /\ UNCHANGED <<size, wanted, emitted>> /\ Done' = Done
<1>1. /\ stage[s] = "asking" /\ stage' = [stage EXCEPT ![s] = "failed"]
      /\ UNCHANGED <<setup, size, pageNumber, own, page, answer, requests, wanted, emitted>>
  BY DEF Fail
<1>2. /\ stage'[s] = "failed" /\ \A t \in Streams \ {s} : Alone(t)
  BY <1>1 DEF ListingInv, TypeOK, Alone
<1>3. TypeOK'
  <2>1. stage' \in [Streams -> {"idle", "created", "asking", "answered", "done", "failed"}]
    BY <1>1 DEF ListingInv, TypeOK
  <2> QED
    BY <1>1, <2>1 DEF ListingInv, TypeOK
<1>4. InTurn(s)'
  BY <1>1, <1>2 DEF ListingInv, InTurn
<1>5. ASSUME NEW t \in Streams, t # s PROVE InTurn(t)'
  <2>1. size' \in Nat /\ size <= size' /\ Alone(t)
    BY <1>1, <1>2, <1>5, Bounds DEF ListingInv, TypeOK
  <2> QED
    BY <2>1, <1>1, AloneKeepsTurn
<1>6. Done' = Done
  BY <1>1, <1>2 DEF Done, Alone
<1> QED
  BY <1>1, <1>3, <1>4, <1>5, <1>6

LEMMA GrowTurn ==
    ASSUME ListingInv, Grow
    PROVE  TypeOK' /\ (\A t \in Streams : InTurn(t)') /\ List!Grow
<1>1. size < MaxSize /\ size' = size + 1 /\ UNCHANGED <<caller, answer>>
  BY DEF Grow
<1>2. UNCHANGED <<setup, pageNumber, stage, own, page, requests, wanted, emitted, answer>>
  BY <1>1 DEF caller
<1>3. size \in 0..MaxSize /\ size' \in 0..MaxSize /\ size' \in Nat /\ size <= size'
  BY <1>1, Bounds DEF ListingInv, TypeOK
<1>4. TypeOK'
  BY <1>2, <1>3 DEF ListingInv, TypeOK
<1>5. ASSUME NEW t \in Streams PROVE InTurn(t)'
  <2>1. Alone(t)
    BY <1>2 DEF Alone
  <2> QED
    BY <2>1, <1>2, <1>3, AloneKeepsTurn
<1>6. List!Grow
  BY <1>1, <1>2 DEF List!Grow
<1> QED
  BY <1>4, <1>5, <1>6

(* ----------------------------------------------------------------------- *)
(* The invariant, and the steps of Listing.                                 *)
LEMMA ListingInit == Init => ListingInv /\ List!Init
<1> SUFFICES ASSUME Init PROVE ListingInv /\ List!Init
  OBVIOUS
<1>1. size \in 0..MaxSize /\ MaxSize \in Nat /\ size \in Nat
  BY Bounds DEF Init
<1>2. TypeOK
  <2>1. 1 \in 1..(MaxSize + 2) /\ 0 \in 0..(MaxSize + 2) /\ -1 \in -1..MaxSize
    BY <1>1
  <2>2. <<>> \in Seq(1..MaxSize) /\ Len(<<>>) <= PageSize
    BY Bounds
  <2> QED
    BY <1>1, <2>1, <2>2 DEF Init, TypeOK
<1>3. ASSUME NEW s \in Streams PROVE InTurn(s)
  BY DEF Init, InTurn
<1>4. List!Init
  BY <1>1 DEF Init, List!Init
<1> QED
  BY <1>2, <1>3, <1>4, PageInit DEF ListingInv

LEMMA ListingStep ==
    ASSUME SafeSetup, ListingInv, [Next]_vars
    PROVE  ListingInv' /\ [List!Next]_<<size, wanted, emitted, Done>>
<1> DEFINE Mapped == [List!Next]_<<size, wanted, emitted, Done>>
<1>1. PageInv'
  BY PageStep DEF ListingInv
<1> SUFFICES TypeOK' /\ (\A t \in Streams : InTurn(t)') /\ Mapped
  BY <1>1 DEF ListingInv
<1>2. ASSUME NEW s \in Streams, Search(s) PROVE TypeOK' /\ (\A t \in Streams : InTurn(t)') /\ Mapped
  BY <1>2, SearchTurn
<1>3. ASSUME NEW s \in Streams, Subscribe(s)
      PROVE  TypeOK' /\ (\A t \in Streams : InTurn(t)') /\ Mapped
  <2>1. pageNumber[setup.criteriaOf[s]] = 1 /\ pageNumber \in [Criteria -> 1..(MaxSize + 2)]
    BY <1>3 DEF Subscribe, ListingInv, InTurn, TypeOK
  <2>2. TypeOK' /\ (\A t \in Streams : InTurn(t)') /\ List!Subscribe(s)
    BY <1>3, <2>1, BeginTurn DEF Subscribe
  <2> QED
    BY <2>2 DEF List!Next
<1>4. ASSUME NEW s \in Streams, SearchNow(s)
      PROVE  TypeOK' /\ (\A t \in Streams : InTurn(t)') /\ Mapped
  <2>1. setup.criteriaOf[s] \in Criteria
    BY Constants DEF ListingInv, TypeOK
  <2>2. /\ pageNumber' = [pageNumber EXCEPT ![setup.criteriaOf[s]] = 1]
        /\ pageNumber \in [Criteria -> 1..(MaxSize + 2)]
        /\ 1 \in 1..(MaxSize + 2)
    BY <1>4, Bounds DEF SearchNow, PageLeft, ListingInv, TypeOK
  <2>3. /\ pageNumber' \in [Criteria -> 1..(MaxSize + 2)]
        /\ pageNumber'[setup.criteriaOf[s]] = 1
    BY <2>1, <2>2
  <2>4. ASSUME NEW t \in Streams \ {s}, stage[t] = "created"
        PROVE  pageNumber'[setup.criteriaOf[t]] = pageNumber[setup.criteriaOf[t]]
    <3>1. setup.criteriaOf[t] # setup.criteriaOf[s] /\ setup.criteriaOf[t] \in Criteria
      BY <2>4, OwnCriteria, Constants DEF ListingInv, TypeOK
    <3> QED
      BY <3>1, <2>2
  <2>5. TypeOK' /\ (\A t \in Streams : InTurn(t)') /\ List!Subscribe(s)
    BY <1>4, <2>3, <2>4, BeginTurn DEF SearchNow
  <2> QED
    BY <2>5 DEF List!Next
<1>5. ASSUME NEW s \in Streams, NextPage(s)
      PROVE  TypeOK' /\ (\A t \in Streams : InTurn(t)') /\ Mapped
  BY <1>5, NextPageTurn DEF List!Next
<1>6. ASSUME NEW s \in Streams, NEW t \in Streams, NextPageReentrant(s, t)
      PROVE  TypeOK' /\ (\A u \in Streams : InTurn(u)') /\ Mapped
  BY <1>6, ReentrantTurn DEF List!Next
<1>7. ASSUME NEW s \in Streams, LastPage(s)
      PROVE  TypeOK' /\ (\A t \in Streams : InTurn(t)') /\ Mapped
  BY <1>7, LastTurn DEF List!Next
<1>8. ASSUME NEW s \in Streams, Answer(s)
      PROVE  TypeOK' /\ (\A t \in Streams : InTurn(t)') /\ Mapped
  BY <1>8, AnswerTurn
<1>9. ASSUME NEW s \in Streams, Fail(s)
      PROVE  TypeOK' /\ (\A t \in Streams : InTurn(t)') /\ Mapped
  BY <1>9, FailTurn
<1>10. CASE Grow
  BY <1>10, GrowTurn DEF List!Next
<1>11. CASE UNCHANGED vars
  <2>1. UNCHANGED <<setup, pageNumber, stage, own, page, requests, wanted, emitted, answer, size>>
    BY <1>11 DEF vars, caller
  <2>2. ASSUME NEW t \in Streams PROVE InTurn(t)'
    <3>1. Alone(t) /\ size' \in Nat /\ size <= size'
      BY <2>1, Bounds DEF Alone, ListingInv, TypeOK
    <3> QED
      BY <3>1, <2>1, AloneKeepsTurn
  <2>3. TypeOK' /\ Mapped
    BY <2>1 DEF ListingInv, TypeOK, Done
  <2> QED
    BY <2>2, <2>3
<1> QED
  BY <1>2, <1>3, <1>4, <1>5, <1>6, <1>7, <1>8, <1>9, <1>10, <1>11 DEF Next

(* A stream asks for pages that may exist, and its numbers stay within them, *)
(* as long as callers that are not prompt share no criteria object           *)
(* (searchInternal).                                                         *)
THEOREM TypeCorrect == SafeSetup => (Spec => []TypeOK)
<1> SUFFICES ASSUME SafeSetup PROVE Spec => []TypeOK
  OBVIOUS
<1>1. ListingInv => TypeOK
  BY DEF ListingInv
<1>2. Init => ListingInv
  BY ListingInit
<1>3. ListingInv /\ [Next]_vars => ListingInv'
  BY ListingStep
<1> QED
  BY <1>1, <1>2, <1>3, PTL DEF Spec

(* Then streams implement Listing: a stream gives the elements in order,     *)
(* none twice and none left out, whatever the page size, however the         *)
(* repository grows and wherever the consumer stops (search, Page).          *)
THEOREM StreamsImplementListing == SafeSetup => (Spec => ImplementsListing)
<1> SUFFICES ASSUME SafeSetup PROVE Spec => ImplementsListing
  OBVIOUS
<1>1. Init => ListingInv /\ List!Init
  BY ListingInit
<1>2. ListingInv /\ [Next]_vars => ListingInv'
  BY ListingStep
<1>3. ListingInv /\ [Next]_vars => [List!Next]_<<size, wanted, emitted, Done>>
  BY ListingStep
<1> QED
  BY <1>1, <1>2, <1>3, PTL DEF Spec, ImplementsListing, List!Spec, Done
=============================================================================
