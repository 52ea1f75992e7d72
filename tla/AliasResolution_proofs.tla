------------------------ MODULE AliasResolution_proofs ------------------------
(* Proofs, for any meanings of the alias and blocks of any size, that the    *)
(* look-up of resolution entries finds what an inner transaction used.       *)
EXTENDS AliasResolution, FiniteSetTheorems, TLAPS

(* ----------------------------------------------------------------------- *)
(* Sources in the order of execution.                                       *)
UpTo(a, b) == a = b \/ Before(a, b)

LEMMA SourceFacts ==
    ASSUME NEW a \in Source
    PROVE  /\ a = At(a.primaryId, a.secondaryId)
           /\ a.primaryId \in Nat /\ a.secondaryId \in Nat
BY BoundsAssumption DEF Source, At

LEMMA SameSource ==
    ASSUME NEW a \in Source, NEW b \in Source
    PROVE  a = b <=> a.primaryId = b.primaryId /\ a.secondaryId = b.secondaryId
BY DEF Source

LEMMA BeforeIsStrict ==
    ASSUME NEW a \in Source, NEW b \in Source
    PROVE  /\ Before(a, b) \/ a = b \/ Before(b, a)
           /\ ~(Before(a, b) /\ UpTo(b, a))
BY SourceFacts, SameSource DEF Before, UpTo

LEMMA BeforeIsTransitive ==
    ASSUME NEW a \in Source, NEW b \in Source, NEW c \in Source
    PROVE  /\ Before(a, b) /\ UpTo(b, c) => Before(a, c)
           /\ UpTo(a, b) /\ Before(b, c) => Before(a, c)
           /\ UpTo(a, b) /\ UpTo(b, c) => UpTo(a, c)
BY SourceFacts, SameSource DEF Before, UpTo

LEMMA MaxIs ==
    ASSUME NEW S \in SUBSET Nat, NEW m \in S, \A x \in S : m >= x
    PROVE  Max(S) = m
<1>1. Max(S) \in S /\ \A x \in S : Max(S) >= x
  <2>1. \E x \in S : \A y \in S : x >= y
    OBVIOUS
  <2> QED
    BY <2>1, Zenon DEF Max
<1>2. Max(S) \in Nat /\ m \in Nat /\ Max(S) >= m /\ m >= Max(S)
  BY <1>1
<1> QED
  BY <1>2

(* ----------------------------------------------------------------------- *)
(* The inductive invariant.                                                 *)

(* What was executed is numbered from 1, nothing comes after the source that *)
(* was executed last, and a transaction is plain or an aggregate.            *)
InOrder ==
    /\ IsFiniteSet(DOMAIN meant)
    /\ executed.secondaryId > 0 => executed.primaryId > 0
    /\ \A t \in DOMAIN meant :
         /\ t.primaryId > 0 /\ UpTo(t, executed)
         /\ t.primaryId = executed.primaryId => (t.secondaryId = 0 <=> executed.secondaryId = 0)
    /\ \A t, u \in DOMAIN meant :
         t.primaryId = u.primaryId => (t.secondaryId = 0 <=> u.secondaryId = 0)

(* An entry tells what its own source meant, and a source has one.           *)
EntriesTrue ==
    /\ \A e \in entries : e.source \in DOMAIN meant /\ e.resolved = meant[e.source]
    /\ \A e, f \in entries : e.source = f.source => e = f

(* The entry that holds for a source is the last one up to it.               *)
Governs(e, t) ==
    /\ e \in entries /\ UpTo(e.source, t)
    /\ \A f \in entries : UpTo(f.source, t) => UpTo(f.source, e.source)
EachGoverned == \A t \in DOMAIN meant : \E e \in entries : Governs(e, t) /\ e.resolved = meant[t]

(* There is a last entry, and every entry but the first follows a different  *)
(* one.                                                                      *)
IsLast(e) == e \in entries /\ \A f \in entries : f = e \/ Before(f.source, e.source)
HasLast == entries # {} => \E e \in entries : IsLast(e)
FollowsDifferent ==
    \A e \in entries : \/ \A f \in entries : f = e \/ Before(e.source, f.source)
                       \/ \E f \in entries : f.resolved # e.resolved

Found == \A t \in DOMAIN resolved : t.secondaryId > 0 => resolved[t] = meant[t]
FoundUnchanged ==
    \A t \in DOMAIN resolved : (\A u \in DOMAIN meant : meant[u] = meant[t]) => resolved[t] = meant[t]

ResolutionInv ==
    /\ TypeOK /\ InOrder /\ EntriesTrue /\ EachGoverned /\ HasLast /\ FollowsDifferent
    /\ Found /\ FoundUnchanged

LEMMA ResolutionInit == Init => ResolutionInv
<1> SUFFICES ASSUME Init PROVE ResolutionInv
  OBVIOUS
<1>1. /\ meaning \in Meanings /\ executed = At(0, 0) /\ executed.secondaryId = 0 /\ entries = {}
      /\ DOMAIN meant = {} /\ DOMAIN resolved = {}
  BY DEF Init, At
<1>2. At(0, 0) \in Source
  BY BoundsAssumption DEF At, Source
<1>3. IsFiniteSet({})
  BY FS_EmptySet
<1> QED
  BY <1>1, <1>2, <1>3 DEF ResolutionInv, TypeOK, InOrder, EntriesTrue, EachGoverned, HasLast,
                      FollowsDifferent, Found, FoundUnchanged

(* ----------------------------------------------------------------------- *)
(* The node executes a transaction.                                         *)

(* It comes after all before it.                                            *)
LEMMA FollowingIsNext ==
    ASSUME ResolutionInv, NEW source, Following(source)
    PROVE  /\ source \in Source /\ source.primaryId > 0 /\ Before(executed, source)
           /\ \A t \in DOMAIN meant :
                /\ t \in Source /\ Before(t, source)
                /\ t.primaryId = source.primaryId => (t.secondaryId = 0 <=> source.secondaryId = 0)
<1> USE DEF ResolutionInv, TypeOK, InOrder
<1>1. /\ executed \in Source /\ executed.primaryId \in Nat /\ executed.secondaryId \in Nat
      /\ source \in Source
  BY SourceFacts DEF Following
<1>2. \/ source.primaryId = executed.primaryId + 1
      \/ /\ source.primaryId = executed.primaryId /\ executed.secondaryId > 0
         /\ source.secondaryId = executed.secondaryId + 1
  BY DEF Following, At
<1>3. Before(executed, source)
  BY <1>1, <1>2 DEF Before
<1>4. source.primaryId > 0
  <2>1. CASE source.primaryId = executed.primaryId + 1
    BY <2>1, <1>1
  <2>2. CASE source.primaryId = executed.primaryId /\ executed.secondaryId > 0
    <3>1. executed.primaryId > 0
      BY <2>2, <1>1
    <3> QED
      BY <3>1, <2>2
  <2> QED
    BY <2>1, <2>2, <1>2
<1>5. ASSUME NEW t \in DOMAIN meant
      PROVE  /\ t \in Source /\ Before(t, source)
             /\ t.primaryId = source.primaryId => (t.secondaryId = 0 <=> source.secondaryId = 0)
  <2>1. t \in Source /\ UpTo(t, executed) /\ Before(t, source)
    BY <1>1, <1>3, BeforeIsTransitive
  <2>2. t.primaryId <= executed.primaryId
    BY <2>1, <1>1, SourceFacts DEF UpTo, Before
  <2>3. ASSUME t.primaryId = source.primaryId PROVE t.secondaryId = 0 <=> source.secondaryId = 0
    <3>1. t.primaryId = executed.primaryId /\ executed.secondaryId > 0 /\ source.secondaryId = executed.secondaryId + 1
      BY <2>1, <2>2, <2>3, <1>1, <1>2, SourceFacts
    <3> QED
      BY <3>1, <1>1
  <2> QED
    BY <2>1, <2>3
<1> QED
  BY <1>1, <1>3, <1>4, <1>5

(* Latest is the last entry.                                                *)
LEMMA LatestIsLast ==
    ASSUME ResolutionInv, entries # {}
    PROVE  IsLast(Latest)
<1>1. \E e \in entries : \A f \in entries : f = e \/ Before(f.source, e.source)
  BY DEF ResolutionInv, HasLast, IsLast
<1>2. Latest \in entries /\ \A f \in entries : f = Latest \/ Before(f.source, Latest.source)
  BY <1>1, Zenon DEF Latest
<1> QED
  BY <1>2 DEF IsLast

(* The alias is used, with an entry or without one.                         *)
LEMMA UseStep ==
    ASSUME ResolutionInv, NEW source, Use(source)
    PROVE  ResolutionInv'
<1> USE DEF ResolutionInv
<1>1. /\ source \in Source /\ source.primaryId > 0 /\ Before(executed, source)
      /\ \A t \in DOMAIN meant :
           /\ t \in Source /\ Before(t, source)
           /\ t.primaryId = source.primaryId => (t.secondaryId = 0 <=> source.secondaryId = 0)
  BY FollowingIsNext DEF Use
<1>2. /\ DOMAIN resolved = {} /\ executed' = source /\ entries' = Recorded(source)
      /\ meaning' = meaning /\ resolved' = resolved
      /\ DOMAIN meant' = DOMAIN meant \union {source}
      /\ \A t \in DOMAIN meant : meant'[t] = meant[t]
      /\ meant'[source] = meaning
  <2>1. source \notin DOMAIN meant
    BY <1>1, BeforeIsStrict DEF UpTo
  <2> QED
    BY <2>1 DEF Use, Following
<1>3. /\ \A e \in entries : /\ e \in [source : Source, resolved : Meanings]
                            /\ e.source \in DOMAIN meant /\ e.source \in Source /\ Before(e.source, source)
                            /\ e.resolved = meant[e.source]
      /\ \A e, f \in entries : e.source = f.source => e = f
      /\ meaning \in Meanings /\ executed \in Source
  BY <1>1 DEF EntriesTrue, TypeOK
<1>4. PICK new \in [source : Source, resolved : Meanings] :
        new = [source |-> source, resolved |-> meaning] /\ new.source = source /\ new.resolved = meaning
  <2>1. [source |-> source, resolved |-> meaning] \in [source : Source, resolved : Meanings]
    BY <1>1, <1>3
  <2> QED
    BY <2>1
<1>5. new \notin entries /\ \A e \in entries : ~UpTo(source, e.source)
  BY <1>1, <1>3, <1>4, BeforeIsStrict DEF UpTo
(* Either the last entry says it already, or one is added.                  *)
<1>6. \/ /\ entries' = entries /\ entries # {} /\ Latest.resolved = meaning
      \/ /\ entries' = entries \union {new}
         /\ entries # {} => Latest.resolved # meaning
  BY <1>2, <1>4 DEF Recorded
<1>7. IsFiniteSet(DOMAIN meant')
  <2>1. IsFiniteSet(DOMAIN meant)
    BY DEF InOrder
  <2> QED
    BY <2>1, <1>2, FS_AddElement
<1>8. InOrder'
  <2>1. \A t \in DOMAIN meant' :
          /\ t.primaryId > 0 /\ UpTo(t, source)
          /\ t.primaryId = source.primaryId => (t.secondaryId = 0 <=> source.secondaryId = 0)
    BY <1>1, <1>2 DEF InOrder, UpTo
  <2>2. \A t, u \in DOMAIN meant' : t.primaryId = u.primaryId => (t.secondaryId = 0 <=> u.secondaryId = 0)
    BY <1>1, <1>2 DEF InOrder
  <2> QED
    BY <2>1, <2>2, <1>1, <1>2, <1>7 DEF InOrder
<1>9. EntriesTrue'
  BY <1>2, <1>3, <1>4, <1>5, <1>6 DEF EntriesTrue, UpTo
<1>10. EachGoverned'
  <2> SUFFICES ASSUME NEW t \in DOMAIN meant' PROVE (\E e \in entries : Governs(e, t) /\ e.resolved = meant[t])'
    BY DEF EachGoverned
  <2>1. CASE t \in DOMAIN meant
    <3>1. PICK e \in entries : Governs(e, t) /\ e.resolved = meant[t]
      BY <2>1 DEF EachGoverned
    <3>2. ~UpTo(source, t) /\ e \in entries'
      BY <2>1, <1>1, <1>6, BeforeIsStrict
    <3>3. Governs(e, t)'
      BY <3>1, <3>2, <1>4, <1>6 DEF Governs
    <3> QED
      BY <2>1, <3>1, <3>2, <3>3, <1>2
  <2>2. CASE t = source /\ entries' = entries /\ entries # {} /\ Latest.resolved = meaning
    <3>1. PICK e \in entries : e.resolved = meaning /\ \A f \in entries : UpTo(f.source, e.source)
      BY <2>2, LatestIsLast DEF IsLast, UpTo
    <3>2. Governs(e, source)'
      BY <3>1, <2>2, <1>3 DEF Governs, UpTo
    <3> QED
      BY <3>1, <3>2, <2>2, <1>2
  <2>3. CASE t = source /\ entries' = entries \union {new}
    <3>1. new \in entries' /\ UpTo(new.source, source) /\ \A f \in entries' : UpTo(f.source, new.source)
      BY <2>3, <1>3, <1>4 DEF UpTo
    <3>2. Governs(new, source)'
      BY <3>1 DEF Governs
    <3> QED
      BY <3>1, <3>2, <2>3, <1>2, <1>4
  <2> QED
    BY <2>1, <2>2, <2>3, <1>2, <1>6
<1>11. HasLast'
  <2>1. CASE entries' = entries
    BY <2>1 DEF HasLast, IsLast
  <2>2. CASE entries' = entries \union {new}
    <3>1. IsLast(new)'
      BY <2>2, <1>3, <1>4 DEF IsLast
    <3> QED
      BY <3>1, <2>2 DEF HasLast
  <2> QED
    BY <2>1, <2>2, <1>6
<1>12. FollowsDifferent'
  <2>1. CASE entries' = entries
    BY <2>1 DEF FollowsDifferent
  <2>2. CASE entries' = entries \union {new} /\ (entries # {} => Latest.resolved # meaning)
    <3> SUFFICES ASSUME NEW e \in entries'
                 PROVE  \/ \A f \in entries' : f = e \/ Before(e.source, f.source)
                        \/ \E f \in entries' : f.resolved # e.resolved
      BY DEF FollowsDifferent
    <3>1. CASE e \in entries
      BY <3>1, <2>2, <1>3, <1>4 DEF FollowsDifferent
    <3>2. CASE e = new /\ entries # {}
      <4>1. Latest \in entries
        BY <3>2, LatestIsLast DEF IsLast
      <4> QED
        BY <4>1, <3>2, <2>2, <1>4
    <3>3. CASE e = new /\ entries = {}
      BY <3>3, <2>2
    <3> QED
      BY <3>1, <3>2, <3>3, <2>2
  <2> QED
    BY <2>1, <2>2, <1>6
<1>13. TypeOK'
  <2>1. entries' \subseteq [source : Source, resolved : Meanings]
    BY <1>3, <1>4, <1>6
  <2>2. ASSUME NEW e \in entries', NEW f \in entries', Before(e.source, f.source),
               \A g \in entries' : ~(Before(e.source, g.source) /\ Before(g.source, f.source))
        PROVE  e.resolved # f.resolved
    <3>1. CASE e \in entries /\ f \in entries
      <4>1. \A g \in entries : ~(Before(e.source, g.source) /\ Before(g.source, f.source))
        BY <2>2, <1>6
      <4> QED
        BY <3>1, <4>1, <2>2 DEF TypeOK
    <3>2. CASE e = new
      <4>1. f # new
        BY <2>2, <3>2, <1>1, <1>4, BeforeIsStrict DEF UpTo
      <4> QED
        BY <4>1, <2>2, <3>2, <1>4, <1>5, <1>6 DEF UpTo
    <3>3. CASE e \in entries /\ f = new /\ f \notin entries
      <4>1. entries' = entries \union {new} /\ Latest.resolved # meaning /\ IsLast(Latest)
        BY <3>3, <1>6, LatestIsLast
      <4>2. Latest \in entries' /\ Before(Latest.source, f.source)
        BY <4>1, <3>3, <1>3, <1>4 DEF IsLast
      <4>3. e = Latest
        BY <4>1, <4>2, <2>2, <3>3 DEF IsLast
      <4> QED
        BY <4>1, <4>3, <3>3, <1>4
    <3> QED
      BY <3>1, <3>2, <3>3, <1>6
  <2>3. DOMAIN meant' \subseteq Source /\ \A t \in DOMAIN meant' : meant'[t] \in Meanings
    BY <1>1, <1>2, <1>3 DEF TypeOK
  <2> QED
    BY <2>1, <2>2, <2>3, <1>1, <1>2, <1>3 DEF TypeOK
<1>14. Found' /\ FoundUnchanged'
  BY <1>2 DEF Found, FoundUnchanged
<1> QED
  BY <1>8, <1>9, <1>10, <1>11, <1>12, <1>13, <1>14

(* The alias is linked: nothing is used.                                    *)
LEMMA LinkStep ==
    ASSUME ResolutionInv, NEW source, NEW m \in Meanings, Link(source, m)
    PROVE  ResolutionInv'
<1> USE DEF ResolutionInv
<1>1. /\ source \in Source /\ source.primaryId > 0 /\ Before(executed, source)
      /\ \A t \in DOMAIN meant :
           /\ t \in Source /\ Before(t, source)
           /\ t.primaryId = source.primaryId => (t.secondaryId = 0 <=> source.secondaryId = 0)
  BY FollowingIsNext DEF Link
<1>2. /\ executed' = source /\ meaning' = m /\ entries' = entries /\ meant' = meant
      /\ resolved' = resolved
  BY DEF Link
<1>3. InOrder'
  BY <1>1, <1>2 DEF InOrder, UpTo
<1>4. TypeOK'
  BY <1>1, <1>2 DEF TypeOK
<1> QED
  BY <1>2, <1>3, <1>4 DEF EntriesTrue, EachGoverned, Governs, HasLast, IsLast, FollowsDifferent,
                          Found, FoundUnchanged

(* ----------------------------------------------------------------------- *)
(* The look-up.                                                             *)
EntryFacts(e) ==
    /\ e.source \in Source /\ e.source.primaryId \in Nat /\ e.source.secondaryId \in Nat
    /\ e.source = At(e.source.primaryId, e.source.secondaryId)

LEMMA EntriesHaveSources ==
    ASSUME ResolutionInv
    PROVE  /\ \A e \in entries : EntryFacts(e)
           /\ \A p : {e.source.primaryId : e \in {f \in entries : f.source.primaryId <= p}} \subseteq Nat
           /\ \A p : SecondaryIds(p) \subseteq Nat
<1>1. ASSUME NEW e \in entries PROVE EntryFacts(e)
  <2>1. e.source \in Source
    BY DEF ResolutionInv, TypeOK
  <2> QED
    BY <2>1, SourceFacts DEF EntryFacts
<1> QED
  BY <1>1 DEF EntryFacts, SecondaryIds

(* The primary id found is the greatest one.                                *)
LEMMA PrimaryFound ==
    ASSUME ResolutionInv, NEW p \in Nat, NEW e \in entries, e.source.primaryId <= p,
           \A f \in entries : f.source.primaryId <= p => f.source.primaryId <= e.source.primaryId
    PROVE  MaxAvailablePrimaryId(p) = e.source.primaryId
<1> DEFINE ids == {0} \union {g.source.primaryId : g \in {f \in entries : f.source.primaryId <= p}}
<1>1. ids \in SUBSET Nat /\ e.source.primaryId \in Nat
  BY EntriesHaveSources DEF EntryFacts
<1>2. e.source.primaryId \in ids
  OBVIOUS
<1>3. \A x \in ids : e.source.primaryId >= x
  BY <1>1, EntriesHaveSources DEF EntryFacts
<1>4. Max(ids) = e.source.primaryId
  <2> HIDE DEF ids
  <2> QED
    BY <1>1, <1>2, <1>3, MaxIs
<1> QED
  BY <1>4 DEF MaxAvailablePrimaryId

(* The last entry of a transaction is the one with the greatest secondary id.*)
LEMMA LastFound ==
    ASSUME ResolutionInv, NEW e \in entries,
           \A f \in entries : f.source.primaryId = e.source.primaryId
                                => f.source.secondaryId <= e.source.secondaryId
    PROVE  LastOf(e.source.primaryId) = {e}
<1> DEFINE ids == SecondaryIds(e.source.primaryId)
<1>1. ids \in SUBSET Nat /\ EntryFacts(e)
  BY EntriesHaveSources
<1>2. e.source.secondaryId \in ids /\ \A x \in ids : e.source.secondaryId >= x
  BY EntriesHaveSources DEF SecondaryIds, EntryFacts
<1>3. Max(ids) = e.source.secondaryId
  <2> HIDE DEF ids
  <2> QED
    BY <1>1, <1>2, MaxIs
<1>4. EntriesAt(e.source.primaryId, e.source.secondaryId) = {e}
  BY <1>1 DEF EntriesAt, EntryFacts, ResolutionInv, EntriesTrue
<1> QED
  BY <1>2, <1>3, <1>4 DEF LastOf

(* An inner transaction finds the entry that governs it.                    *)
LEMMA GoverningFound ==
    ASSUME ResolutionInv, NEW t \in DOMAIN meant, t.secondaryId > 0, NEW e, Governs(e, t)
    PROVE  ResolutionEntryById(t.primaryId, t.secondaryId) = {e}
<1> DEFINE p == t.primaryId
           s == t.secondaryId
<1>1. /\ t \in Source /\ p \in Nat /\ s \in Nat /\ p > 0 /\ s > 0
      /\ e \in entries /\ EntryFacts(e) /\ UpTo(e.source, t)
      /\ \A f \in entries : UpTo(f.source, t) => UpTo(f.source, e.source)
  <2>1. t \in Source /\ p > 0
    BY DEF ResolutionInv, TypeOK, InOrder
  <2> QED
    BY <2>1, SourceFacts, EntriesHaveSources DEF Governs
<1>2. \A f \in entries :
        /\ EntryFacts(f)
        /\ f.source.primaryId < p => UpTo(f.source, t)
        /\ f.source.primaryId = p /\ f.source.secondaryId <= s => UpTo(f.source, t)
        /\ UpTo(f.source, t) => \/ f.source.primaryId < p
                                \/ f.source.primaryId = p /\ f.source.secondaryId <= s
        /\ UpTo(f.source, e.source) => \/ f.source.primaryId < e.source.primaryId
                                       \/ /\ f.source.primaryId = e.source.primaryId
                                          /\ f.source.secondaryId <= e.source.secondaryId
  BY <1>1, EntriesHaveSources, SourceFacts, SameSource DEF UpTo, Before, EntryFacts
(* The primary id of the entry is the greatest up to any that leaves the    *)
(* transaction's own out.                                                   *)
<1>3. CASE e.source.primaryId < p
  <2>1. LastOf(e.source.primaryId) = {e}
    <3>1. \A f \in entries : f.source.primaryId = e.source.primaryId
                                => f.source.secondaryId <= e.source.secondaryId
      BY <1>1, <1>2, <1>3 DEF EntryFacts
    <3> QED
      BY <3>1, <1>1, LastFound
  <2>2. CASE \A f \in entries : f.source.primaryId # p
    <3>1. \A f \in entries : f.source.primaryId <= p => f.source.primaryId <= e.source.primaryId
      BY <1>1, <1>2, <2>2 DEF EntryFacts
    <3>2. MaxAvailablePrimaryId(p) = e.source.primaryId
      BY <3>1, <1>1, <1>3, PrimaryFound DEF EntryFacts
    <3> QED
      BY <2>1, <3>2, <1>3 DEF ResolutionEntryById
  <2>3. ASSUME NEW h \in entries, h.source.primaryId = p PROVE ResolutionEntryById(p, s) = {e}
    <3>1. MaxAvailablePrimaryId(p) = p
      BY <2>3, <1>1, PrimaryFound
    <3>2. \A f \in entries : f.source.primaryId = p => f.source.secondaryId > s
      BY <1>1, <1>2, <1>3 DEF EntryFacts
    <3>3. MaxSecondaryUpTo(p, s) = 0
      <4>1. {0} \union {i \in SecondaryIds(p) : i <= s} = {0}
        BY <3>2, <1>1, <1>2 DEF SecondaryIds, EntryFacts
      <4> QED
        BY <4>1, MaxIs DEF MaxSecondaryUpTo
    <3>4. MaxAvailablePrimaryId(p - 1) = e.source.primaryId
      <4>1. p - 1 \in Nat /\ e.source.primaryId <= p - 1
        BY <1>1, <1>3 DEF EntryFacts
      <4>2. \A f \in entries : f.source.primaryId <= p - 1 => f.source.primaryId <= e.source.primaryId
        BY <1>1, <1>2 DEF EntryFacts
      <4> QED
        BY <4>1, <4>2, <1>1, PrimaryFound
    <3> QED
      BY <2>1, <3>1, <3>3, <3>4, <1>1 DEF ResolutionEntryById
  <2> QED
    BY <2>2, <2>3
<1>4. CASE e.source.primaryId = p /\ e.source.secondaryId <= s
  <2>1. MaxAvailablePrimaryId(p) = p
    BY <1>1, <1>4, PrimaryFound
  <2>2. e.source.secondaryId # 0
    BY <1>1, <1>4 DEF ResolutionInv, EntriesTrue, InOrder
  <2>3. MaxSecondaryUpTo(p, s) = e.source.secondaryId
    <3> DEFINE ids == {0} \union {i \in SecondaryIds(p) : i <= s}
    <3>1. ids \in SUBSET Nat /\ e.source.secondaryId \in ids
      BY <1>1, <1>4, EntriesHaveSources DEF SecondaryIds
    <3>2. \A x \in ids : e.source.secondaryId >= x
      BY <1>1, <1>2, <1>4 DEF SecondaryIds, EntryFacts
    <3>3. Max(ids) = e.source.secondaryId
      <4> HIDE DEF ids
      <4> QED
        BY <3>1, <3>2, MaxIs
    <3> QED
      BY <3>3 DEF MaxSecondaryUpTo
  <2>4. EntriesAt(p, e.source.secondaryId) = {e}
    BY <1>1, <1>4 DEF EntriesAt, EntryFacts, ResolutionInv, EntriesTrue
  <2> QED
    BY <2>1, <2>2, <2>3, <2>4, <1>1 DEF ResolutionEntryById
<1> QED
  BY <1>1, <1>2, <1>3, <1>4

(* What an inner transaction is resolved to is what it used.                *)
LEMMA InnerFound ==
    ASSUME ResolutionInv, NEW t \in DOMAIN meant, t.secondaryId > 0
    PROVE  ResolvedFromReceipt(t) = meant[t]
<1>1. PICK e \in entries : Governs(e, t) /\ e.resolved = meant[t]
  BY DEF ResolutionInv, EachGoverned
<1>2. ResolutionEntryById(PrimaryIdFor(t), SecondaryIdFor(t)) = {e}
  <2>1. t.secondaryId # 0
    BY SourceFacts DEF ResolutionInv, TypeOK
  <2>2. ResolutionEntryById(t.primaryId, t.secondaryId) = {e}
    BY <1>1, GoverningFound
  <2> QED
    BY <2>1, <2>2 DEF PrimaryIdFor, SecondaryIdFor
<1>3. Candidates(t) = {e}
  BY <1>1, <1>2 DEF Candidates
<1>4. (CHOOSE x \in {e} : TRUE) = e
  OBVIOUS
<1> QED
  BY <1>1, <1>3, <1>4 DEF ResolvedFromReceipt

(* When the alias stood for one thing there is one entry, whatever it is     *)
(* looked up with.                                                          *)
LEMMA UnchangedFound ==
    ASSUME ResolutionInv, NEW t \in DOMAIN meant, \A u \in DOMAIN meant : meant[u] = meant[t]
    PROVE  ResolvedFromReceipt(t) = meant[t]
<1>1. PICK e \in entries : Governs(e, t) /\ e.resolved = meant[t]
  BY DEF ResolutionInv, EachGoverned
<1>2. \A f \in entries : f.resolved = meant[t]
  BY DEF ResolutionInv, EntriesTrue
<1>3. ASSUME NEW f \in entries PROVE f = e
  <2>1. f = e \/ Before(e.source, f.source)
    BY <1>1, <1>2 DEF ResolutionInv, FollowsDifferent
  <2>2. e = f \/ Before(f.source, e.source)
    BY <1>1, <1>2 DEF ResolutionInv, FollowsDifferent
  <2>3. e.source \in Source /\ f.source \in Source
    BY <1>1, EntriesHaveSources DEF EntryFacts
  <2> QED
    BY <2>1, <2>2, <2>3, BeforeIsStrict DEF UpTo
<1>4. entries = {e}
  BY <1>1, <1>3
<1>5. Candidates(t) = {e}
  BY <1>4 DEF Candidates
<1>6. (CHOOSE x \in {e} : TRUE) = e
  OBVIOUS
<1> QED
  BY <1>1, <1>5, <1>6 DEF ResolvedFromReceipt

(* What is found is a meaning, or the error.                                *)
LEMMA ResolvedType ==
    ASSUME ResolutionInv, NEW t
    PROVE  ResolvedFromReceipt(t) \in Meanings \union {NotFound}
<1>1. Candidates(t) \subseteq entries
  BY DEF Candidates, ResolutionEntryById, LastOf, EntriesAt
<1>2. \A e \in entries : e.resolved \in Meanings
  BY DEF ResolutionInv, TypeOK
<1>3. Candidates(t) # {} => (CHOOSE e \in Candidates(t) : TRUE) \in Candidates(t)
  <2> DEFINE C == Candidates(t)
  <2> HIDE DEF C
  <2>1. C # {} => (CHOOSE e \in C : TRUE) \in C
    OBVIOUS
  <2> QED
    BY <2>1 DEF C
<1> QED
  BY <1>1, <1>2, <1>3 DEF ResolvedFromReceipt

LEMMA ResolveStep ==
    ASSUME ResolutionInv, NEW source, ResolveAliases(source)
    PROVE  ResolutionInv'
<1> DEFINE found == ResolvedFromReceipt(source)
<1>1. source \in DOMAIN meant /\ found \in Meanings \union {NotFound}
  BY ResolvedType DEF ResolveAliases
<1>2. /\ source.secondaryId > 0 => found = meant[source]
      /\ (\A u \in DOMAIN meant : meant[u] = meant[source]) => found = meant[source]
  BY <1>1, InnerFound, UnchangedFound
<1> HIDE DEF found
<1>3. /\ meaning' = meaning /\ executed' = executed /\ entries' = entries /\ meant' = meant
      /\ DOMAIN resolved' = DOMAIN resolved \union {source}
      /\ resolved'[source] = found
      /\ \A t \in DOMAIN resolved : t # source => resolved'[t] = resolved[t]
  BY DEF ResolveAliases, found
<1>4. InOrder' /\ EntriesTrue' /\ EachGoverned' /\ HasLast' /\ FollowsDifferent'
  BY <1>3 DEF ResolutionInv, InOrder, EntriesTrue, EachGoverned, Governs, HasLast, IsLast,
              FollowsDifferent
<1>5. TypeOK'
  BY <1>1, <1>3 DEF ResolutionInv, TypeOK
<1>6. Found' /\ FoundUnchanged'
  BY <1>2, <1>3 DEF ResolutionInv, Found, FoundUnchanged
<1> QED
  BY <1>4, <1>5, <1>6 DEF ResolutionInv

LEMMA ResolutionStep == ResolutionInv /\ [Next]_vars => ResolutionInv'
<1> SUFFICES ASSUME ResolutionInv, [Next]_vars PROVE ResolutionInv'
  OBVIOUS
<1>1. CASE UNCHANGED vars
  <2>1. /\ meaning' = meaning /\ executed' = executed /\ entries' = entries
        /\ meant' = meant /\ resolved' = resolved
    BY <1>1 DEF vars
  <2>2. TypeOK'
    BY <2>1 DEF ResolutionInv, TypeOK
  <2>3. InOrder' /\ EntriesTrue'
    BY <2>1 DEF ResolutionInv, InOrder, EntriesTrue
  <2>4. EachGoverned'
    BY <2>1 DEF ResolutionInv, EachGoverned, Governs
  <2>5. HasLast' /\ FollowsDifferent'
    BY <2>1 DEF ResolutionInv, HasLast, IsLast, FollowsDifferent
  <2>6. Found' /\ FoundUnchanged'
    BY <2>1 DEF ResolutionInv, Found, FoundUnchanged
  <2> QED
    BY <2>2, <2>3, <2>4, <2>5, <2>6 DEF ResolutionInv
<1>2. ASSUME NEW source \in Source, Use(source) PROVE ResolutionInv'
  BY <1>2, UseStep
<1>3. ASSUME NEW source \in Source, NEW m \in Meanings \ {meaning}, Link(source, m) PROVE ResolutionInv'
  BY <1>3, LinkStep
<1>4. ASSUME NEW source \in Source, ResolveAliases(source) PROVE ResolutionInv'
  BY <1>4, ResolveStep
<1> QED
  BY <1>1, <1>2, <1>3, <1>4 DEF Next

(* ----------------------------------------------------------------------- *)
(* The theorems.                                                            *)

(* The node writes an entry only where the alias has changed, and what the   *)
(* SDK resolves is a meaning or the error (ResolutionStatement,              *)
(* getResolvedFromReceipt).                                                  *)
THEOREM TypeCorrect == Spec => []TypeOK
<1>1. ResolutionInv => TypeOK
  BY DEF ResolutionInv
<1> QED
  BY <1>1, ResolutionInit, ResolutionStep, PTL DEF Spec

(* In a block of any size the search of the entries finds, for a transaction *)
(* inside an aggregate, the entry that held when it was executed             *)
(* (getResolutionEntryById).                                                 *)
THEOREM InnerResolved == Spec => []InnerResolvesToItsUse
<1>1. ResolutionInv => InnerResolvesToItsUse
  BY DEF ResolutionInv, Found, InnerResolvesToItsUse
<1> QED
  BY <1>1, ResolutionInit, ResolutionStep, PTL DEF Spec

(* A plain transaction, which is looked up with the wrong ids, is saved by   *)
(* the single entry as long as the alias has one meaning                     *)
(* (getResolvedFromReceipt).                                                 *)
THEOREM PlainResolved == Spec => []PlainResolvesWhenUnchanged
<1>1. ASSUME ResolutionInv PROVE PlainResolvesWhenUnchanged
  <2> DEFINE T == {meant[u] : u \in DOMAIN meant}
  <2> SUFFICES ASSUME NEW t \in DOMAIN resolved, Cardinality(T) = 1 PROVE resolved[t] = meant[t]
    BY DEF PlainResolvesWhenUnchanged
  <2>1. IsFiniteSet(T)
    <3>1. IsFiniteSet(DOMAIN meant)
      BY <1>1 DEF ResolutionInv, InOrder
    <3> DEFINE image == [u \in DOMAIN meant |-> meant[u]]
    <3>2. image \in Surjection(DOMAIN meant, T)
      BY DEF Surjection
    <3> QED
      BY <3>1, <3>2, FS_Surjection
  <2>2. PICK x : T = {x}
    <3> HIDE DEF T
    <3> QED
      BY <2>1, FS_Singleton
  <2>3. t \in DOMAIN meant
    BY <1>1 DEF ResolutionInv, TypeOK
  <2>4. \A u \in DOMAIN meant : meant[u] = meant[t]
    BY <2>2, <2>3
  <2> QED
    BY <1>1, <2>4 DEF ResolutionInv, FoundUnchanged
<1> QED
  BY <1>1, ResolutionInit, ResolutionStep, PTL DEF Spec
=============================================================================
