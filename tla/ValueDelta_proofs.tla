-------------------------- MODULE ValueDelta_proofs --------------------------
(* Proofs, for any callers, owners, texts and mosaics and values of any      *)
(* size, that a metadata or restriction transaction stands on what was read. *)
EXTENDS ValueDelta, TLAPS

(* ----------------------------------------------------------------------- *)
(* The inductive invariant.                                                 *)

(* A call at each of its stages.                                            *)
Rules == {NoRule} \union [value : Values, type : Types \ {"NONE"}]
NewRules == [value : Values, type : Types]
MosaicNames == Mosaics \union {Alias}
Names == [mosaic : MosaicNames, account : Accounts \union {Alias}]
Searching == [stage : {"search"}, name : {"metadata"}, target : Accounts, text : Texts]
AskingGlobal == [stage : {"resolve", "rule"}, name : {"global"}, names : [mosaic : MosaicNames],
                 new : NewRules, at : [mosaic : Mosaics \union {Nothing}], seen : [mosaic : Nat]]
AskingAddress == [stage : {"resolve", "rule", "limit"}, name : {"address"}, names : Names,
                  new : Values, at : Linked, seen : [mosaic : Nat, account : Nat]]
MadeMetadata == [stage : {"made"}, name : {"metadata"}, text : Texts, read : Seq(Bytes),
                 tx : [target : Accounts, sizeDelta : Int, value : Seq(Bytes)]]
MadeGlobal == [stage : {"made"}, name : {"global"}, read : Rules, at : [mosaic : Mosaics],
               tx : [at : [mosaic : Mosaics], previous : Rules, new : NewRules]]
MadeAddress == [stage : {"made"}, name : {"address"}, read : Values, at : Places,
                seen : [mosaic : Nat, account : Nat],
                tx : [at : Names, previous : Values, new : Values]]
Decision(calls, values, places) ==
    [stage : {"confirmed", "refused"}, call : calls, was : values, is : values, held : places]
Ended == Decision(MadeMetadata, Seq(Bytes), Accounts) \union Decision(MadeGlobal, Rules, [mosaic : Mosaics])
             \union Decision(MadeAddress, Values, Linked)
Waiting == {Idle} \union [stage : {"error"}]

Jobs == Waiting \union Searching \union AskingGlobal \union AskingAddress
          \union MadeMetadata \union MadeGlobal \union MadeAddress \union Ended

(* What is asked about is what was named, or what its alias stood for when   *)
(* it was resolved; an alias that is linked to another one since was linked  *)
(* anew.                                                                     *)
AtIsMeant(names, at, seen, link, count) ==
    \A part \in DOMAIN at :
        /\ names[part] # Alias => at[part] = names[part]
        /\ names[part] = Alias =>
             at[part] = Nothing \/ at[part] = link[part] \/ seen[part] < count[part]
        /\ seen[part] <= count[part]

(* There is a rule where a restriction of an address is asked for, or it     *)
(* was removed since.                                                        *)
RuleThere(mosaic) == rule[mosaic] = NoRule => RuleRemoved(mosaic)

Resolves(c) ==
    /\ job[c].stage \in {"resolve", "rule", "limit"} =>
         AtIsMeant(job[c].names, job[c].at, job[c].seen, linked, changes)
    /\ job[c].stage = "limit" => RuleThere(job[c].at.mosaic)

(* The transaction is made of what was read, of metadata when that is asked  *)
(* for.                                                                      *)
MadeOfRead(c) ==
    /\ job[c].stage = "search" => kind \in MetadataKinds
    /\ At(c, "metadata", "made") =>
         job[c].tx = AccountMetadata(job[c].tx.target, job[c].read, job[c].text)
    /\ At(c, "global", "made") => job[c].tx.at = job[c].at /\ job[c].tx.previous = job[c].read
    /\ At(c, "address", "made") =>
         /\ job[c].tx.previous = job[c].read
         /\ AtIsMeant(job[c].tx.at, job[c].at, job[c].seen, linked, changes)
         /\ RuleThere(job[c].at.mosaic)

(* The properties, of one call.                                              *)
AsAsked(c) ==
    Decided(c) /\ job[c].call.name = "metadata" /\ job[c].was = job[c].call.read =>
      \/ job[c].stage = "confirmed" /\ job[c].is = job[c].call.text
      \/ job[c].stage = "refused" /\ kind # "account" /\ job[c].held # job[c].call.tx.target
      \/ job[c].stage = "refused" /\ job[c].call.text = <<>> /\ job[c].was = <<>>
Replaces(c) ==
    RestrictionDecided(c) =>
      /\ Meant(job[c].call, job[c].held, changes)
      /\ job[c].stage = "confirmed" => job[c].was = job[c].call.read
Stale(c) ==
    RestrictionDecided(c) /\ job[c].stage = "refused" =>
      \/ job[c].was # job[c].call.read
      \/ job[c].held # job[c].call.at
      \/ job[c].call.name = "address" /\ RuleRemoved(job[c].held.mosaic)

CallInv(c) == Resolves(c) /\ MadeOfRead(c) /\ AsAsked(c) /\ Replaces(c) /\ Stale(c)

ValueInv ==
    /\ TypeOK
    /\ kind \in MetadataKinds \union {"restriction"}
    /\ job \in [Callers -> Jobs]
    /\ \A c \in Callers : CallInv(c)

(* ----------------------------------------------------------------------- *)
(* Differences of texts.                                                    *)
LEMMA TwiceTheDifference ==
    ASSUME NEW o, NEW t
    PROVE  LET v == (o \ t) \union (t \ o) IN (o \ v) \union (v \ o) = t
OBVIOUS

LEMMA XorIs ==
    ASSUME NEW a \in Seq(Bytes), NEW b \in Seq(Bytes)
    PROVE  /\ Xor(a, b) \in Seq(Bytes)
           /\ Len(a) \in Nat /\ Len(b) \in Nat /\ Len(Xor(a, b)) \in Nat
           /\ Len(Xor(a, b)) \in {Len(a), Len(b)}
           /\ Len(Xor(a, b)) >= Len(a) /\ Len(Xor(a, b)) >= Len(b)
           /\ \A i \in 1..Len(Xor(a, b)) :
                Xor(a, b)[i] = (Byte(a, i) \ Byte(b, i)) \union (Byte(b, i) \ Byte(a, i))
<1>1. /\ Longer(a, b) \in {Len(a), Len(b)} /\ Longer(a, b) >= Len(a) /\ Longer(a, b) >= Len(b)
      /\ Longer(a, b) \in Nat /\ Len(a) \in Nat /\ Len(b) \in Nat
  BY DEF Longer
<1>2. ASSUME NEW i PROVE Byte(a, i) \in Bytes /\ Byte(b, i) \in Bytes
  BY DEF Byte, Bytes
<1>3. ASSUME NEW i PROVE (Byte(a, i) \ Byte(b, i)) \union (Byte(b, i) \ Byte(a, i)) \in Bytes
  BY <1>2 DEF Bytes
<1> DEFINE n == Longer(a, b)
           x(i) == (Byte(a, i) \ Byte(b, i)) \union (Byte(b, i) \ Byte(a, i))
<1>4. Xor(a, b) = [i \in 1..n |-> x(i)]
  BY DEF Xor
<1>5. \A i : x(i) \in Bytes
  BY <1>3
<1>6. n \in Nat
  BY <1>1
<1> HIDE DEF n, x
<1>7. [i \in 1..n |-> x(i)] \in Seq(Bytes) /\ Len([i \in 1..n |-> x(i)]) = n
      /\ \A i \in 1..n : [j \in 1..n |-> x(j)][i] = x(i)
  BY <1>5, <1>6
<1> QED
  BY <1>1, <1>4, <1>7 DEF n, x

(* The difference to what was read, applied to it, is the text asked for.    *)
LEMMA XorBack ==
    ASSUME NEW old \in Seq(Bytes), NEW text \in Seq(Bytes)
    PROVE  SubSeq(Xor(old, Xor(old, text)), 1, Len(text)) = text
<1> DEFINE v == Xor(old, text)
           w == Xor(old, v)
<1>1. /\ v \in Seq(Bytes) /\ Len(v) >= Len(old) /\ Len(v) >= Len(text)
      /\ \A i \in 1..Len(v) :
           v[i] = (Byte(old, i) \ Byte(text, i)) \union (Byte(text, i) \ Byte(old, i))
  BY XorIs
<1> HIDE DEF v
<1>2. /\ w \in Seq(Bytes) /\ Len(w) >= Len(v)
      /\ \A i \in 1..Len(w) : w[i] = (Byte(old, i) \ Byte(v, i)) \union (Byte(v, i) \ Byte(old, i))
  BY <1>1, XorIs
<1> HIDE DEF w
<1>3. Len(text) \in Nat /\ Len(v) \in Nat /\ Len(w) \in Nat /\ Len(w) >= Len(text)
  BY <1>1, <1>2
<1>4. ASSUME NEW i \in 1..Len(text) PROVE w[i] = text[i]
  <2>1. i \in 1..Len(v) /\ i \in 1..Len(w) /\ i \in DOMAIN text /\ i \in DOMAIN v
    BY <1>1, <1>2, <1>3
  <2>2. Byte(v, i) = v[i] /\ Byte(text, i) = text[i]
    BY <2>1 DEF Byte
  <2>3. /\ v[i] = (Byte(old, i) \ text[i]) \union (text[i] \ Byte(old, i))
        /\ w[i] = (Byte(old, i) \ v[i]) \union (v[i] \ Byte(old, i))
    BY <2>1, <2>2, <1>1, <1>2
  <2> QED
    BY <2>3, TwiceTheDifference
<1>5. SubSeq(w, 1, Len(text)) \in Seq(Bytes) /\ Len(SubSeq(w, 1, Len(text))) = Len(text)
      /\ \A i \in 1..Len(text) : SubSeq(w, 1, Len(text))[i] = w[i]
  BY <1>2, <1>3
<1>6. SubSeq(w, 1, Len(text)) = text
  BY <1>3, <1>4, <1>5
<1> QED
  BY <1>6 DEF v, w

(* The node accepts it, and is left with the text, if the owner still owns   *)
(* the target and there is something to say.                                 *)
LEMMA DifferenceIsTaken ==
    ASSUME NEW target, NEW old \in Seq(Bytes), NEW text \in Seq(Bytes), entry[target] = old,
           NEW tx, tx = AccountMetadata(target, old, text)
    PROVE  /\ After(tx) = text
           /\ tx.value = <<>> => old = <<>> /\ text = <<>>
           /\ (kind = "account" \/ target = owner) /\ tx.value # <<>> => Acceptable(tx)
<1> DEFINE v == Xor(old, text)
<1>1. tx.target = target /\ tx.sizeDelta = Len(text) - Len(old) /\ tx.value = v
  BY DEF AccountMetadata
<1>2. /\ v \in Seq(Bytes) /\ Len(v) \in {Len(old), Len(text)} /\ Len(v) >= Len(old) /\ Len(v) >= Len(text)
      /\ \A i \in 1..Len(v) :
           v[i] = (Byte(old, i) \ Byte(text, i)) \union (Byte(text, i) \ Byte(old, i))
      /\ Len(old) \in Nat /\ Len(text) \in Nat /\ Len(v) \in Nat
  BY XorIs
<1> HIDE DEF v
<1>3. SizeAfter(tx) = Len(text)
  BY <1>1, <1>2 DEF SizeAfter
<1>4. After(tx) = text
  BY <1>1, <1>3, XorBack DEF After, v
<1>5. ASSUME v = <<>> PROVE old = <<>> /\ text = <<>>
  <2>1. Len(old) = 0 /\ Len(text) = 0
    BY <1>2, <1>5
  <2> QED
    BY <2>1
<1>6. Len(v) = (IF tx.sizeDelta < 0 THEN Len(old) ELSE Len(text))
  BY <1>1, <1>2
<1>7. ASSUME NEW i \in Len(text) + 1..Len(old) PROVE old[i] = v[i]
  <2>1. i \in 1..Len(v) /\ i \in DOMAIN old /\ i \notin DOMAIN text
    BY <1>2
  <2>2. Byte(old, i) = old[i] /\ Byte(text, i) = {}
    BY <2>1 DEF Byte
  <2> QED
    BY <2>1, <2>2, <1>2
<1>8. ASSUME kind = "account" \/ target = owner, v # <<>> PROVE Acceptable(tx)
  BY <1>1, <1>2, <1>3, <1>6, <1>7, <1>8 DEF Acceptable
<1> QED
  BY <1>1, <1>4, <1>5, <1>8

LEMMA AfterIsText ==
    ASSUME NEW tx, entry[tx.target] \in Seq(Bytes), tx.value \in Seq(Bytes), tx.sizeDelta \in Int,
           Acceptable(tx)
    PROVE  After(tx) \in Seq(Bytes)
<1> DEFINE old == entry[tx.target]
           w == Xor(old, tx.value)
<1>1. /\ w \in Seq(Bytes) /\ Len(w) >= Len(old) /\ Len(w) >= Len(tx.value)
      /\ Len(old) \in Nat /\ Len(tx.value) \in Nat /\ Len(w) \in Nat
  BY XorIs
<1>2. /\ SizeAfter(tx) = Len(old) + tx.sizeDelta /\ SizeAfter(tx) >= 0
      /\ Len(tx.value) = (IF tx.sizeDelta < 0 THEN Len(old) ELSE SizeAfter(tx))
  BY DEF Acceptable, SizeAfter
<1>3. After(tx) = SubSeq(w, 1, SizeAfter(tx))
  BY DEF After
<1> HIDE DEF w, old
<1>4. SizeAfter(tx) \in Nat /\ SizeAfter(tx) <= Len(w)
  BY <1>1, <1>2
<1> QED
  BY <1>1, <1>3, <1>4

(* ----------------------------------------------------------------------- *)
LEMMA JobCases ==
    ASSUME NEW j \in Jobs
    PROVE  /\ j.stage = "search" => j \in Searching
           /\ j.stage \in {"resolve", "rule", "limit"} => j \in AskingGlobal \union AskingAddress
           /\ j.stage = "limit" => j \in AskingAddress
           /\ j.stage = "made" /\ j.name = "metadata" => j \in MadeMetadata
           /\ j.stage = "made" /\ j.name = "global" => j \in MadeGlobal
           /\ j.stage = "made" /\ j.name = "address" => j \in MadeAddress
           /\ j.stage \in {"confirmed", "refused"} => j \in Ended
BY DEF Jobs, Waiting, Idle, Searching, AskingGlobal, AskingAddress, MadeMetadata, MadeGlobal,
       MadeAddress, Ended, Decision

LEMMA EndedTypes ==
    ASSUME NEW j \in Jobs, j.stage \in {"confirmed", "refused"}
    PROVE  /\ j.call.name = "address" => j.call \in MadeAddress /\ j.held \in Linked
           /\ j.call.name = "global" => j.call \in MadeGlobal /\ j.held \in [mosaic : Mosaics]
           /\ j.call.name \in {"metadata", "global", "address"}
<1>1. j \in Ended
  BY JobCases
<1> QED
  BY <1>1 DEF Ended, Decision, MadeMetadata, MadeGlobal, MadeAddress

LEMMA ValueInit == Init => ValueInv
<1> SUFFICES ASSUME Init PROVE ValueInv
  OBVIOUS
<1>1. job \in [Callers -> Jobs] /\ \A c \in Callers : job[c].stage = "idle"
  BY DEF Init, Jobs, Waiting, Idle
<1>2. \A c \in Callers : CallInv(c)
  BY <1>1 DEF CallInv, Resolves, MadeOfRead, AsAsked, Replaces, Stale, At, RestrictionDecided, Decided
<1>3. rule \in [Mosaics -> {NoRule} \union [value : Values, type : Types \ {"NONE"}]]
  <2>1. [value |-> 1, type |-> "EQ"] \in [value : Values, type : Types \ {"NONE"}]
    BY BoundsAssumption DEF Values, Types
  <2> QED
    BY <2>1 DEF Init
<1>4. entry \in [Accounts -> Seq(Bytes)]
  <2>1. <<>> \in Seq(Bytes) /\ Texts \subseteq Seq(Bytes)
    BY TextsAssumption
  <2>2. PICK text \in (IF kind \in MetadataKinds THEN Texts ELSE {<<>>}) :
           entry = [o \in Accounts |-> IF o = owner THEN text ELSE <<>>]
    BY DEF Init
  <2>3. text \in Seq(Bytes)
    BY <2>1, <2>2
  <2> QED
    BY <2>1, <2>2, <2>3
<1>5. limit \in [Places -> Values]
  BY BoundsAssumption DEF Init, NoLimit, Values
<1>6. linked \in Linked /\ changes \in [{"owner", "mosaic", "account"} -> 0..MaxChanges]
  BY BoundsAssumption DEF Init, Linked, Places
<1>7. TypeOK
  BY <1>1, <1>3, <1>4, <1>5, <1>6 DEF Init, TypeOK
<1> QED
  BY <1>1, <1>2, <1>7 DEF ValueInv, Init

(* ----------------------------------------------------------------------- *)
(* What a step leaves of the other calls.                                   *)
Parts == {"mosaic", "account"}
Relinks(link, count, link2, count2) ==
    \A part \in Parts : /\ count[part] \in Nat /\ count2[part] \in Nat
                        /\ count[part] <= count2[part]
                        /\ link2[part] # link[part] => count[part] < count2[part]
Holds ==
    /\ kind' = kind
    /\ \A m \in Mosaics : RuleThere(m) => RuleThere(m)'
    /\ \A m \in Mosaics : RuleRemoved(m) => RuleRemoved(m)'
    /\ Relinks(linked, changes, linked', changes')

LEMMA MeantKept ==
    ASSUME NEW names, NEW at, NEW seen, NEW link, NEW count, NEW link2, NEW count2,
           DOMAIN at \subseteq Parts, \A part \in DOMAIN at : seen[part] \in Nat,
           Relinks(link, count, link2, count2), AtIsMeant(names, at, seen, link, count)
    PROVE  AtIsMeant(names, at, seen, link2, count2)
<1> SUFFICES ASSUME NEW part \in DOMAIN at
             PROVE  /\ names[part] # Alias => at[part] = names[part]
                    /\ names[part] = Alias =>
                         at[part] = Nothing \/ at[part] = link2[part] \/ seen[part] < count2[part]
                    /\ seen[part] <= count2[part]
  BY DEF AtIsMeant
<1>1. /\ names[part] # Alias => at[part] = names[part]
      /\ names[part] = Alias =>
           at[part] = Nothing \/ at[part] = link[part] \/ seen[part] < count[part]
      /\ seen[part] <= count[part]
  BY DEF AtIsMeant
<1>2. /\ count[part] \in Nat /\ count2[part] \in Nat /\ count[part] <= count2[part]
      /\ link2[part] # link[part] => count[part] < count2[part]
  BY DEF Relinks
<1>3. seen[part] \in Nat
  OBVIOUS
<1> QED
  BY <1>1, <1>2, <1>3

(* What a call holds of names.                                              *)
LEMMA AskingTypes ==
    ASSUME NEW j \in AskingGlobal \union AskingAddress
    PROVE  /\ DOMAIN j.at \subseteq Parts /\ DOMAIN j.names = DOMAIN j.at /\ "mosaic" \in DOMAIN j.at
           /\ DOMAIN j.seen = DOMAIN j.at /\ \A part \in DOMAIN j.at : j.seen[part] \in Nat
BY DEF AskingGlobal, AskingAddress, Parts, Names, Linked

LEMMA MadeTypes ==
    ASSUME NEW j \in MadeAddress
    PROVE  /\ DOMAIN j.at = Parts /\ DOMAIN j.tx.at = Parts /\ j.at.mosaic \in Mosaics
           /\ j.at \in Places /\ j.tx.at \in Names
           /\ \A part \in Parts : j.seen[part] \in Nat
<1>1. j.at \in Places /\ j.tx.at \in Names /\ j.seen \in [mosaic : Nat, account : Nat]
  BY DEF MadeAddress
<1> QED
  BY <1>1 DEF Parts, Places, Names

LEMMA CallKept ==
    ASSUME ValueInv, NEW d \in Callers, job'[d] = job[d], Holds
    PROVE  CallInv(d)'
<1>1. CallInv(d) /\ job[d] \in Jobs
  BY DEF ValueInv
<1>2. Relinks(linked, changes, linked', changes')
  BY DEF Holds
<1>3. Resolves(d)'
  <2>1. job[d].stage = "limit" => job[d].at.mosaic \in Mosaics
    <3>1. job[d].stage = "limit" => job[d] \in AskingAddress
      BY <1>1, JobCases
    <3>2. job[d].stage = "limit" => job[d].at \in Places
      BY <3>1 DEF ValueInv, TypeOK, AskingAddress
    <3> QED
      BY <3>2 DEF Places
  <2>2. job[d].stage = "limit" => RuleThere(job[d].at.mosaic)'
    BY <1>1, <2>1 DEF Holds, CallInv, Resolves
  <2>3. job[d].stage \in {"resolve", "rule", "limit"} =>
          AtIsMeant(job[d].names, job[d].at, job[d].seen, linked', changes')
    <3> SUFFICES ASSUME job[d].stage \in {"resolve", "rule", "limit"}
                 PROVE  AtIsMeant(job[d].names, job[d].at, job[d].seen, linked', changes')
      OBVIOUS
    <3>1. job[d] \in AskingGlobal \union AskingAddress
      BY <1>1, JobCases
    <3>2. AtIsMeant(job[d].names, job[d].at, job[d].seen, linked, changes)
      BY <1>1 DEF CallInv, Resolves
    <3> QED
      BY <1>2, <3>1, <3>2, AskingTypes, MeantKept
  <2> QED
    BY <2>2, <2>3 DEF Resolves, RuleThere, RuleRemoved
<1>4. MadeOfRead(d)'
  <2>1. At(d, "address", "made") => job[d] \in MadeAddress
    BY <1>1, JobCases DEF At
  <2>2. At(d, "address", "made") => RuleThere(job[d].at.mosaic)'
    BY <1>1, <2>1, MadeTypes DEF Holds, CallInv, MadeOfRead
  <2>3. At(d, "address", "made") =>
          AtIsMeant(job[d].tx.at, job[d].at, job[d].seen, linked', changes')
    <3> SUFFICES ASSUME At(d, "address", "made")
                 PROVE  AtIsMeant(job[d].tx.at, job[d].at, job[d].seen, linked', changes')
      OBVIOUS
    <3>1. /\ DOMAIN job[d].at = Parts
          /\ \A part \in DOMAIN job[d].at : job[d].seen[part] \in Nat
      BY <2>1, MadeTypes
    <3>2. AtIsMeant(job[d].tx.at, job[d].at, job[d].seen, linked, changes)
      BY <1>1 DEF CallInv, MadeOfRead
    <3> QED
      BY <1>2, <3>1, <3>2, MeantKept
  <2>4. MadeOfRead(d)
    BY <1>1 DEF CallInv
  <2>5. kind' = kind
    BY DEF Holds
  <2> QED
    BY <2>2, <2>3, <2>4, <2>5 DEF MadeOfRead, RuleThere, RuleRemoved, At, AccountMetadata, Xor, Longer, Byte
<1>5. AsAsked(d)'
  BY <1>1 DEF Holds, CallInv, AsAsked, Decided
<1>6. Replaces(d)'
  <2> SUFFICES ASSUME RestrictionDecided(d)
               PROVE  /\ Meant(job[d].call, job[d].held, changes')
                      /\ job[d].stage = "confirmed" => job[d].was = job[d].call.read
    BY DEF Replaces, RestrictionDecided, Decided, Meant
  <2>1. /\ Meant(job[d].call, job[d].held, changes)
        /\ job[d].stage = "confirmed" => job[d].was = job[d].call.read
    BY <1>1 DEF CallInv, Replaces
  <2>2. PICK call, held : call = job[d].call /\ held = job[d].held
    OBVIOUS
  <2>3. ASSUME NEW part \in DOMAIN held, held[part] # call.at[part]
        PROVE  call.tx.at[part] = Alias /\ call.seen[part] < changes'[part]
    <3>1. call.tx.at[part] = Alias /\ call.seen[part] < changes[part]
      BY <2>1, <2>2, <2>3 DEF Meant
    <3>2. held \in Linked /\ call \in MadeAddress
      <4>1. CASE call.name = "address"
        BY <1>1, <2>2, <4>1, EndedTypes DEF RestrictionDecided, Decided
      <4>2. CASE call.name = "global"
        <5>1. call \in MadeGlobal /\ held \in [mosaic : Mosaics]
          BY <1>1, <2>2, <4>2, EndedTypes DEF RestrictionDecided, Decided
        <5>2. call.tx.at \in [mosaic : Mosaics]
          BY <5>1 DEF MadeGlobal
        <5>3. part = "mosaic"
          BY <5>1
        <5>4. call.tx.at[part] \in Mosaics
          BY <5>2, <5>3
        <5> QED
          BY <3>1, <5>4, NamesAssumption
      <4>3. call.name \in {"metadata", "global", "address"} /\ call.name # "metadata"
        BY <1>1, <2>2, EndedTypes DEF RestrictionDecided, Decided
      <4> QED
        BY <4>1, <4>2, <4>3
    <3>3. part \in Parts
      BY <3>2 DEF Linked, Parts
    <3>4. call.seen[part] \in Nat
      BY <3>2, <3>3, MadeTypes
    <3>5. changes[part] \in Nat /\ changes'[part] \in Nat /\ changes[part] <= changes'[part]
      BY <1>2, <3>3 DEF Relinks
    <3> QED
      BY <3>1, <3>4, <3>5
  <2>4. Meant(call, held, changes')
    BY <2>3 DEF Meant
  <2> QED
    BY <2>1, <2>2, <2>4
<1>7. Stale(d)'
  <2> SUFFICES ASSUME RestrictionDecided(d), job[d].stage = "refused", job[d].was = job[d].call.read,
                      job[d].held = job[d].call.at
               PROVE  job[d].call.name = "address" /\ RuleRemoved(job[d].held.mosaic)'
    BY DEF Stale, RestrictionDecided, Decided, RuleRemoved
  <2>1. job[d].call.name = "address" /\ RuleRemoved(job[d].held.mosaic)
    BY <1>1 DEF CallInv, Stale
  <2>2. job[d].call \in MadeAddress
    BY <1>1, <2>1, EndedTypes DEF RestrictionDecided, Decided
  <2>3. job[d].held.mosaic \in Mosaics
    BY <2>2, MadeTypes
  <2> QED
    BY <2>1, <2>3 DEF Holds
<1> QED
  BY <1>3, <1>4, <1>5, <1>6, <1>7 DEF CallInv

Chain ==
    /\ entry \in [Accounts -> Seq(Bytes)] /\ owner \in Accounts
    /\ rule \in [Mosaics -> Rules]
    /\ limit \in [Places -> Values]
    /\ linked \in Linked /\ changes \in [{"owner", "mosaic", "account"} -> 0..MaxChanges]

LEMMA ChainTypes == ValueInv => Chain
BY DEF ValueInv, TypeOK, Chain, Rules

LEMMA StepKeeps ==
    ASSUME ValueInv, NEW c \in Callers, NEW r \in Jobs, Becomes(c, r), Holds, Chain', CallInv(c)',
           r.stage \in {"rule", "limit"} => r.at \in IF r.name = "global" THEN [mosaic : Mosaics] ELSE Places
    PROVE  ValueInv'
<1>1. job' = [job EXCEPT ![c] = r] /\ job \in [Callers -> Jobs]
  BY DEF Becomes, ValueInv
<1>2. job' \in [Callers -> Jobs] /\ job'[c] = r /\ \A d \in Callers : d # c => job'[d] = job[d]
  BY <1>1
<1>3. \A d \in Callers : CallInv(d)'
  BY <1>2, CallKept
<1>4. \A d \in Callers : job'[d].stage \in {"rule", "limit"} =>
        job'[d].at \in IF job'[d].name = "global" THEN [mosaic : Mosaics] ELSE Places
  BY <1>2 DEF ValueInv, TypeOK
<1>5. TypeOK'
  BY <1>4 DEF Chain, TypeOK, Rules
<1>6. kind' \in MetadataKinds \union {"restriction"}
  BY DEF Holds, ValueInv
<1> QED
  BY <1>2, <1>3, <1>5, <1>6 DEF ValueInv

(* What was decided stays.                                                  *)
LEMMA RemovedKept ==
    ASSUME ValueInv, NEW c \in Callers, NEW r, Becomes(c, r), ~Decided(c),
           NEW m \in Mosaics, RuleRemoved(m)
    PROVE  RuleRemoved(m)'
<1>1. PICK d \in Callers : /\ job[d].stage = "confirmed" /\ job[d].call.name = "global"
                          /\ job[d].is = NoRule /\ job[d].held.mosaic = m
  BY DEF RuleRemoved
<1>2. d # c
  BY <1>1 DEF Decided
<1>3. job'[d] = job[d]
  BY <1>2 DEF Becomes, ValueInv
<1> QED
  BY <1>1, <1>3 DEF RuleRemoved, NoRule

LEMMA StillRelinks ==
    ASSUME Chain, UNCHANGED <<linked, changes>>
    PROVE  Relinks(linked, changes, linked', changes')
<1>1. \A part \in Parts : changes[part] \in Nat
  BY BoundsAssumption DEF Chain, Parts
<1> QED
  BY <1>1 DEF Relinks

(* A call that is not decided goes on, and nothing else happens.            *)
LEMMA CallerHolds ==
    ASSUME ValueInv, NEW c \in Callers, NEW r, Becomes(c, r), UnchangedChain, ~Decided(c)
    PROVE  Holds /\ Chain'
<1>1. UNCHANGED <<kind, entry, owner, rule, limit, linked, changes>>
  BY DEF UnchangedChain, chain
<1>2. ASSUME NEW m \in Mosaics, RuleRemoved(m) PROVE RuleRemoved(m)'
  BY <1>2, RemovedKept
<1>3. ASSUME NEW m \in Mosaics, RuleThere(m) PROVE RuleThere(m)'
  BY <1>1, <1>2, <1>3 DEF RuleThere
<1>4. Holds
  BY <1>1, <1>2, <1>3, ChainTypes, StillRelinks DEF Holds
<1>5. Chain'
  BY <1>1, ChainTypes DEF Chain
<1> QED
  BY <1>4, <1>5

LEMMA CallerKeeps ==
    ASSUME ValueInv, NEW c \in Callers, NEW r \in Jobs, Becomes(c, r), UnchangedChain, ~Decided(c),
           CallInv(c)',
           r.stage \in {"rule", "limit"} => r.at \in IF r.name = "global" THEN [mosaic : Mosaics] ELSE Places
    PROVE  ValueInv'
BY CallerHolds, StepKeeps

LEMMA Becoming ==
    ASSUME ValueInv, NEW c \in Callers, NEW r, Becomes(c, r)
    PROVE  job'[c] = r
BY DEF ValueInv, Becomes

LEMMA FailsKeeps ==
    ASSUME ValueInv, NEW c \in Callers, ~Decided(c), Fails(c)
    PROVE  ValueInv'
<1> DEFINE r == [stage |-> "error"]
<1>1. r \in Jobs /\ r.stage = "error"
  BY DEF Jobs, Waiting
<1>2. Becomes(c, r) /\ UnchangedChain /\ job'[c] = r
  BY Becoming DEF Fails
<1>3. CallInv(c)'
  BY <1>2 DEF CallInv, Resolves, MadeOfRead, AsAsked, Replaces, Stale, At, RestrictionDecided, Decided
<1> QED
  BY <1>1, <1>2, <1>3, CallerKeeps

(* The stages of a call: the search of the metadata entry is sent.          *)
LEMMA CreateKeeps ==
    ASSUME ValueInv, NEW c \in Callers, NEW text \in Texts, CreateMetadataTransaction(c, owner, text)
    PROVE  ValueInv'
<1> DEFINE r == [stage |-> "search", name |-> "metadata", target |-> owner, text |-> text]
<1>1. r \in Jobs /\ r.stage = "search"
  BY DEF ValueInv, TypeOK, Jobs, Searching
<1>2. Becomes(c, r) /\ UnchangedChain /\ job'[c] = r /\ job[c] = Idle
  BY Becoming DEF CreateMetadataTransaction
<1>3. CallInv(c)'
  <2>1. kind' \in MetadataKinds
    BY DEF CreateMetadataTransaction, UnchangedChain, chain
  <2> QED
    BY <1>2, <2>1 DEF CallInv, Resolves, MadeOfRead, AsAsked, Replaces, Stale, At, RestrictionDecided, Decided
<1>4. ~Decided(c)
  BY <1>2 DEF Decided, Idle
<1> QED
  BY <1>1, <1>2, <1>3, <1>4, CallerKeeps

LEMMA SearchKeeps ==
    ASSUME ValueInv, NEW c \in Callers, SearchAnswered(c)
    PROVE  ValueInv'
<1>1. job[c].stage = "search" /\ job[c] \in Searching /\ ~Decided(c)
  BY JobCases DEF SearchAnswered, At, ValueInv, Decided
<1>2. PICK current \in (IF Found(job[c].target) = {} THEN {<<>>} ELSE Found(job[c].target)) :
         Becomes(c, [stage |-> "made", name |-> "metadata", text |-> job[c].text, read |-> current,
                     tx |-> MakeMetadata(job[c].target, current, job[c].text)])
  BY DEF SearchAnswered
<1>3. current \in Seq(Bytes)
  <2>1. job[c].target \in Accounts /\ \A o \in Accounts : entry[o] \in Seq(Bytes)
    BY <1>1 DEF Searching, ValueInv, TypeOK
  <2>2. Found(job[c].target) \subseteq Seq(Bytes)
    BY <2>1 DEF Found
  <2>3. <<>> \in Seq(Bytes)
    OBVIOUS
  <2> QED
    BY <1>2, <2>2, <2>3
<1>4. PICK text \in Texts, target \in Accounts : text = job[c].text /\ target = job[c].target
  BY <1>1 DEF Searching
<1>5. text \in Seq(Bytes)
  BY TextsAssumption
<1> DEFINE tx == AccountMetadata(target, current, text)
           r == [stage |-> "made", name |-> "metadata", text |-> text, read |-> current, tx |-> tx]
<1>6. MakeMetadata(target, current, text) = tx
  <2>1. kind \in MetadataKinds
    BY <1>1 DEF ValueInv, CallInv, MadeOfRead
  <2> QED
    BY <2>1 DEF MakeMetadata, MosaicMetadata, NamespaceMetadata, MetadataKinds
<1>7. tx \in [target : Accounts, sizeDelta : Int, value : Seq(Bytes)] /\ tx.target = target
  <2>1. Xor(current, text) \in Seq(Bytes) /\ Len(text) - Len(current) \in Int
    BY <1>3, <1>5, XorIs
  <2> QED
    BY <2>1, <1>4 DEF AccountMetadata
<1> HIDE DEF tx
<1>8. r \in Jobs /\ r.stage = "made"
  BY <1>3, <1>4, <1>7 DEF Jobs, MadeMetadata
<1>9. Becomes(c, r) /\ UnchangedChain /\ job'[c] = r
  BY <1>2, <1>4, <1>6, Becoming DEF SearchAnswered
<1>10. CallInv(c)'
  <2>1. /\ job'[c].stage = "made" /\ job'[c].name = "metadata" /\ job'[c].tx = tx
        /\ job'[c].read = current /\ job'[c].text = text
    BY <1>9
  <2> QED
    BY <2>1, <1>7 DEF CallInv, Resolves, MadeOfRead, AsAsked, Replaces, Stale, At, RestrictionDecided, Decided, tx,
                      AccountMetadata, Xor, Longer, Byte
<1> QED
  BY <1>1, <1>8, <1>9, <1>10, CallerKeeps

LEMMA AsksKeeps ==
    ASSUME ValueInv, NEW c \in Callers, NEW name \in {"global", "address"},
           NEW names \in IF name = "global" THEN [mosaic : MosaicNames] ELSE Names,
           NEW new \in IF name = "global" THEN NewRules ELSE Values, NEW valid,
           Asks(c, name, names, new, valid)
    PROVE  ValueInv'
<1>1. ~Decided(c)
  BY DEF Asks, Decided, Idle
<1>2. CASE ~valid
  BY <1>1, <1>2, FailsKeeps DEF Asks
<1>3. CASE valid
  <2> DEFINE at == Unaliased(names)
             seen == [part \in DOMAIN names |-> 0]
             r == [stage |-> StageOf(at), name |-> name, names |-> names,
                   new |-> new, at |-> at, seen |-> seen]
  <2>1. Becomes(c, r) /\ UnchangedChain /\ job'[c] = r
    BY <1>3, Becoming DEF Asks
  <2>2. /\ at \in (IF name = "global" THEN [mosaic : Mosaics \union {Nothing}] ELSE Linked)
        /\ seen \in (IF name = "global" THEN [mosaic : Nat] ELSE [mosaic : Nat, account : Nat])
        /\ DOMAIN at = DOMAIN names /\ DOMAIN names \subseteq Parts
    BY DEF Unaliased, MosaicNames, Names, Linked, Parts
  <2>3. /\ StageOf(at) \in {"resolve", "rule"}
        /\ StageOf(at) = "rule" => \A part \in DOMAIN at : at[part] # Nothing
    BY DEF StageOf
  <2>4. r \in Jobs
    BY <2>2, <2>3 DEF Jobs, AskingGlobal, AskingAddress
  <2>5. r.stage = "rule" => at \in IF name = "global" THEN [mosaic : Mosaics] ELSE Places
    BY <2>2, <2>3 DEF Linked, Places
  <2>6. AtIsMeant(names, at, seen, linked', changes')
    <3>1. linked' = linked /\ changes' = changes
      BY <2>1 DEF UnchangedChain, chain
    <3>2. \A part \in Parts : changes[part] \in Nat
      BY ChainTypes, BoundsAssumption DEF Chain, Parts
    <3>3. \A part \in DOMAIN names : at[part] = IF names[part] = Alias THEN Nothing ELSE names[part]
      BY DEF Unaliased
    <3>4. \A part \in DOMAIN names : seen[part] = 0
      OBVIOUS
    <3> HIDE DEF at, seen
    <3>5. \A part \in DOMAIN at : seen[part] <= changes[part]
      BY <2>2, <3>2, <3>4
    <3> QED
      BY <2>2, <3>1, <3>3, <3>5 DEF AtIsMeant
  <2>7. /\ job'[c].stage \in {"resolve", "rule"} /\ job'[c].names = names /\ job'[c].at = at
        /\ job'[c].seen = seen
    BY <2>1, <2>3
  <2> HIDE DEF at, seen
  <2>8. CallInv(c)'
    BY <2>6, <2>7 DEF CallInv, Resolves, MadeOfRead, AsAsked, Replaces, Stale, At, RestrictionDecided, Decided
  <2> QED
    BY <1>1, <2>1, <2>3, <2>4, <2>5, <2>8, CallerKeeps
<1> QED
  BY <1>2, <1>3

LEMMA ResolvedKeeps ==
    ASSUME ValueInv, NEW c \in Callers, NEW part \in Parts, Resolved(c, part)
    PROVE  ValueInv'
<1>1. /\ job[c].stage = "resolve" /\ job[c] \in AskingGlobal \union AskingAddress /\ ~Decided(c)
      /\ part \in DOMAIN job[c].at /\ job[c].at[part] = Nothing
  BY JobCases DEF Resolved, ValueInv, Decided
<1>2. CASE linked[part] = Nothing
  BY <1>1, <1>2, FailsKeeps DEF Resolved
<1>3. CASE linked[part] # Nothing
  <2> DEFINE names == job[c].names
             at == [job[c].at EXCEPT ![part] = linked[part]]
             seen == [job[c].seen EXCEPT ![part] = changes[part]]
             r == [job[c] EXCEPT !.stage = StageOf(at), !.at = at, !.seen = seen]
  <2>1. /\ linked \in Linked /\ changes[part] \in Nat
    BY ChainTypes, BoundsAssumption DEF Chain, Parts
  <2>2. linked["mosaic"] \in Mosaics \union {Nothing} /\ linked["account"] \in Accounts \union {Nothing}
    BY <2>1 DEF Linked
  <2>3. /\ StageOf(at) \in {"resolve", "rule"}
        /\ StageOf(at) = "rule" => \A p \in DOMAIN at : at[p] # Nothing
    BY DEF StageOf
  <2>4. /\ job[c].name = "global" => /\ job[c] \in AskingGlobal
                                     /\ at \in [mosaic : Mosaics \union {Nothing}] /\ seen \in [mosaic : Nat]
        /\ job[c].name # "global" => /\ job[c] \in AskingAddress
                                     /\ at \in Linked /\ seen \in [mosaic : Nat, account : Nat]
    BY <1>1, <2>1, <2>2 DEF AskingGlobal, AskingAddress, Linked, Parts
  <2>5. /\ r.stage = StageOf(at) /\ r.at = at /\ r.seen = seen /\ r.names = names
        /\ r.name = job[c].name
    BY <1>1 DEF AskingGlobal, AskingAddress
  <2>6. r \in Jobs
    <3>1. ASSUME job[c].name = "global" PROVE r \in AskingGlobal
      BY <2>3, <2>4, <3>1 DEF AskingGlobal
    <3>2. ASSUME job[c].name # "global" PROVE r \in AskingAddress
      BY <2>3, <2>4, <3>2 DEF AskingAddress
    <3> QED
      BY <3>1, <3>2 DEF Jobs
  <2>7. r.stage = "rule" => r.at \in IF r.name = "global" THEN [mosaic : Mosaics] ELSE Places
    <3> HIDE DEF r, at
    <3>1. ASSUME r.stage = "rule", r.name = "global" PROVE at \in [mosaic : Mosaics]
      BY <2>3, <2>4, <2>5, <3>1
    <3>2. ASSUME r.stage = "rule", r.name # "global" PROVE at \in Places
      BY <2>3, <2>4, <2>5, <3>2 DEF Linked, Places
    <3> QED
      BY <2>5, <3>1, <3>2
  <2>8. Becomes(c, r) /\ UnchangedChain /\ job'[c] = r
    BY <1>3, Becoming DEF Resolved
  <2>9. AtIsMeant(names, at, seen, linked', changes')
    <3>1. linked' = linked /\ changes' = changes
      BY <2>8 DEF UnchangedChain, chain
    <3>2. AtIsMeant(names, job[c].at, job[c].seen, linked, changes)
      BY <1>1 DEF ValueInv, CallInv, Resolves
    <3>3. /\ DOMAIN at = DOMAIN job[c].at /\ at[part] = linked[part]
          /\ \A p \in DOMAIN at : p # part => at[p] = job[c].at[p]
      BY <1>1
    <3>4. /\ seen[part] = changes[part]
          /\ \A p \in DOMAIN at : p # part => seen[p] = job[c].seen[p]
      BY <1>1, AskingTypes
    <3>5. names[part] = Alias
      <4>1. names[part] # Alias => names[part] = Nothing
        BY <1>1, <3>2 DEF AtIsMeant
      <4>2. names[part] \in Mosaics \union Accounts \union {Alias}
        <5>1. ASSUME job[c] \in AskingGlobal PROVE names[part] \in MosaicNames
          BY <1>1, <5>1 DEF AskingGlobal
        <5>2. ASSUME job[c] \in AskingAddress PROVE names[part] \in MosaicNames \union Accounts \union {Alias}
          <6>1. names \in Names /\ part \in DOMAIN names
            BY <1>1, <5>2, AskingTypes DEF AskingAddress
          <6> QED
            BY <6>1 DEF Names
        <5> QED
          BY <1>1, <5>1, <5>2 DEF MosaicNames
      <4> QED
        BY <4>1, <4>2, NamesAssumption
    <3>6. changes[part] <= changes[part]
      BY <2>1
    <3> HIDE DEF at, seen, names
    <3> QED
      BY <3>1, <3>2, <3>3, <3>4, <3>5, <3>6 DEF AtIsMeant
  <2> HIDE DEF r, at, seen, names
  <2>10. CallInv(c)'
    BY <2>3, <2>5, <2>8, <2>9 DEF CallInv, Resolves, MadeOfRead, AsAsked, Replaces, Stale, At, RestrictionDecided, Decided
  <2>11. r.stage \in {"rule", "limit"} => r.stage = "rule"
    BY <2>3, <2>5
  <2> QED
    BY <1>1, <2>6, <2>7, <2>8, <2>10, <2>11, CallerKeeps
<1> QED
  BY <1>2, <1>3

LEMMA RuleKeeps ==
    ASSUME ValueInv, NEW c \in Callers, RuleAnswered(c)
    PROVE  ValueInv'
<1> DEFINE at == job[c].at
           current == rule[at.mosaic]
<1>1. job[c].stage = "rule" /\ job[c] \in AskingGlobal \union AskingAddress /\ ~Decided(c)
  BY JobCases DEF RuleAnswered, ValueInv, Decided
<1>2. /\ at \in (IF job[c].name = "global" THEN [mosaic : Mosaics] ELSE Places)
      /\ at.mosaic \in Mosaics /\ current \in Rules
      /\ AtIsMeant(job[c].names, at, job[c].seen, linked, changes)
  <2>1. at \in (IF job[c].name = "global" THEN [mosaic : Mosaics] ELSE Places)
    BY <1>1 DEF ValueInv, TypeOK
  <2>2. at.mosaic \in Mosaics
    BY <2>1 DEF Places
  <2>3. current \in Rules
    BY <2>2, ChainTypes DEF Chain
  <2>4. AtIsMeant(job[c].names, at, job[c].seen, linked, changes)
    BY <1>1 DEF ValueInv, CallInv, Resolves
  <2> QED
    BY <2>1, <2>2, <2>3, <2>4
<1>3. CASE job[c].name = "global"
  <2>1. job[c] \in AskingGlobal
    BY <1>1, <1>3 DEF AskingAddress
  <2> DEFINE tx == [at |-> at, previous |-> current, new |-> job[c].new]
             r == [stage |-> "made", name |-> "global", read |-> current, at |-> at, tx |-> tx]
  <2>2. r \in Jobs /\ r.stage = "made" /\ r.name = "global"
    <3>1. job[c].new \in NewRules /\ at \in [mosaic : Mosaics]
      BY <1>2, <1>3, <2>1 DEF AskingGlobal
    <3> HIDE DEF at, current
    <3>2. r \in MadeGlobal
      BY <1>2, <3>1 DEF MadeGlobal
    <3> QED
      BY <3>2 DEF Jobs
  <2>3. Becomes(c, r) /\ UnchangedChain /\ job'[c] = r
    BY <1>3, Becoming DEF RuleAnswered, GlobalRestriction
  <2>4. CallInv(c)'
    BY <2>3 DEF CallInv, Resolves, MadeOfRead, AsAsked, Replaces, Stale, At, RestrictionDecided, Decided
  <2> QED
    BY <1>1, <2>2, <2>3, <2>4, CallerKeeps
<1>4. CASE job[c].name # "global" /\ current = NoRule
  BY <1>1, <1>4, FailsKeeps DEF RuleAnswered
<1>5. CASE job[c].name # "global" /\ current # NoRule
  <2>1. job[c] \in AskingAddress
    BY <1>1, <1>5 DEF AskingGlobal
  <2> DEFINE r == [job[c] EXCEPT !.stage = "limit"]
  <2>2. /\ r \in AskingAddress /\ r.stage = "limit" /\ r.at = at /\ r.names = job[c].names
        /\ r.name = "address" /\ r.seen = job[c].seen
    BY <2>1 DEF AskingAddress
  <2>3. Becomes(c, r) /\ UnchangedChain /\ job'[c] = r
    BY <1>5, Becoming DEF RuleAnswered
  <2> HIDE DEF r
  <2>4. rule' = rule /\ linked' = linked /\ changes' = changes
    BY <2>3 DEF UnchangedChain, chain
  <2>5. AtIsMeant(r.names, r.at, r.seen, linked', changes') /\ rule'[r.at.mosaic] # NoRule
    BY <1>2, <1>5, <2>2, <2>4
  <2>6. CallInv(c)'
    <3>1. Resolves(c)'
      BY <2>2, <2>3, <2>5 DEF Resolves, RuleThere, NoRule
    <3> QED
      BY <2>2, <2>3, <3>1 DEF CallInv, MadeOfRead, AsAsked, Replaces, Stale, At, RestrictionDecided, Decided
  <2>7. r \in Jobs
    BY <2>2 DEF Jobs
  <2> QED
    BY <1>1, <1>2, <1>5, <2>2, <2>3, <2>6, <2>7, CallerKeeps
<1> QED
  BY <1>3, <1>4, <1>5

LEMMA LimitKeeps ==
    ASSUME ValueInv, NEW c \in Callers, LimitAnswered(c)
    PROVE  ValueInv'
<1> DEFINE at == job[c].at
           current == limit[at]
           tx == [at |-> job[c].names, previous |-> current, new |-> job[c].new]
           r == [stage |-> "made", name |-> "address", read |-> current, at |-> at,
                 seen |-> job[c].seen, tx |-> tx]
<1>1. job[c].stage = "limit" /\ job[c] \in AskingAddress /\ ~Decided(c)
  BY JobCases DEF LimitAnswered, ValueInv, Decided
<1>2. /\ at \in Places /\ at.mosaic \in Mosaics /\ current \in Values
      /\ AtIsMeant(job[c].names, at, job[c].seen, linked, changes) /\ RuleThere(at.mosaic)
  <2>1. at \in Places
    BY <1>1 DEF ValueInv, TypeOK, AskingAddress
  <2>2. at.mosaic \in Mosaics
    BY <2>1 DEF Places
  <2>3. current \in Values
    BY <2>1, ChainTypes DEF Chain
  <2>4. AtIsMeant(job[c].names, at, job[c].seen, linked, changes) /\ RuleThere(at.mosaic)
    BY <1>1 DEF ValueInv, CallInv, Resolves
  <2> QED
    BY <2>1, <2>2, <2>3, <2>4
<1>3. r \in Jobs /\ r.stage = "made"
  <2>1. /\ job[c].names \in Names /\ job[c].new \in Values
        /\ job[c].seen \in [mosaic : Nat, account : Nat]
    BY <1>1 DEF AskingAddress
  <2> HIDE DEF at, current
  <2>2. tx \in [at : Names, previous : Values, new : Values]
    BY <1>2, <2>1
  <2> HIDE DEF tx
  <2>3. r \in MadeAddress
    BY <1>2, <2>1, <2>2 DEF MadeAddress
  <2> QED
    BY <2>3 DEF Jobs
<1>4. Becomes(c, r) /\ UnchangedChain /\ job'[c] = r
  BY Becoming DEF LimitAnswered, AddressRestriction
<1>5. Holds
  BY <1>1, <1>4, CallerHolds
<1>6. /\ job'[c].stage = "made" /\ job'[c].name = "address" /\ job'[c].at = at
      /\ job'[c].read = current /\ job'[c].tx.previous = current /\ job'[c].tx.at = job[c].names
      /\ job'[c].seen = job[c].seen
  BY <1>4
<1>7. RuleThere(at.mosaic)'
  <2>1. PICK m \in Mosaics : m = at.mosaic
    BY <1>2
  <2>2. RuleThere(m)'
    BY <1>2, <1>5, <2>1 DEF Holds
  <2>3. at'.mosaic = m
    BY <1>6, <2>1
  <2> QED
    BY <2>2, <2>3 DEF RuleThere
<1>8. AtIsMeant(job[c].names, at, job[c].seen, linked', changes')
  BY <1>2, <1>4 DEF UnchangedChain, chain
<1> HIDE DEF at, current, tx, r
<1>9. MadeOfRead(c)'
  <2>1. job'[c].at.mosaic = at.mosaic
    BY <1>6
  <2> QED
    BY <1>6, <1>7, <1>8, <2>1 DEF MadeOfRead, At, RuleThere, at
<1>10. CallInv(c)'
  BY <1>6, <1>9 DEF CallInv, Resolves, AsAsked, Replaces, Stale, RestrictionDecided, Decided
<1> QED
  BY <1>1, <1>3, <1>4, <1>10, CallerKeeps

(* ----------------------------------------------------------------------- *)
(* The node decides.                                                        *)
LEMMA MetadataKeeps ==
    ASSUME ValueInv, NEW c \in Callers, MetadataDecided(c)
    PROVE  ValueInv'
<1> DEFINE call == job[c]
           tx == call.tx
           old == entry[tx.target]
           is == IF Acceptable(tx) THEN After(tx) ELSE old
           stage == IF Acceptable(tx) THEN "confirmed" ELSE "refused"
           r == [stage |-> stage, call |-> call, was |-> old, is |-> is, held |-> owner]
<1>1. call \in MadeMetadata /\ call.stage = "made" /\ call.name = "metadata" /\ ~Decided(c)
  BY JobCases DEF MetadataDecided, At, ValueInv, Decided
<1>2. /\ tx.target \in Accounts /\ tx.sizeDelta \in Int /\ tx.value \in Seq(Bytes)
      /\ call.read \in Seq(Bytes) /\ call.text \in Seq(Bytes) /\ old \in Seq(Bytes)
      /\ tx = AccountMetadata(tx.target, call.read, call.text)
      /\ owner \in Accounts
  <2>1. tx.target \in Accounts /\ tx.sizeDelta \in Int /\ tx.value \in Seq(Bytes)
        /\ call.read \in Seq(Bytes) /\ call.text \in Texts
    BY <1>1 DEF MadeMetadata
  <2>2. old \in Seq(Bytes) /\ owner \in Accounts
    BY <2>1 DEF ValueInv, TypeOK
  <2>3. tx = AccountMetadata(tx.target, call.read, call.text)
    BY <1>1 DEF ValueInv, CallInv, MadeOfRead, At
  <2> QED
    BY <2>1, <2>2, <2>3, TextsAssumption
<1>3. is \in Seq(Bytes)
  BY <1>2, AfterIsText
<1>4. r \in Jobs /\ r.stage \in {"confirmed", "refused"}
  BY <1>1, <1>2, <1>3 DEF Jobs, Ended, Decision
<1>5. /\ Becomes(c, r) /\ job'[c] = r /\ entry' = [entry EXCEPT ![tx.target] = is]
      /\ UNCHANGED <<kind, owner, rule, limit, linked, changes>>
  BY Becoming DEF MetadataDecided, Ends
<1>6. ASSUME old = call.read
      PROVE  \/ stage = "confirmed" /\ is = call.text
             \/ stage = "refused" /\ kind # "account" /\ owner # tx.target
             \/ stage = "refused" /\ call.text = <<>> /\ old = <<>>
  <2>1. /\ After(tx) = call.text
        /\ tx.value = <<>> => old = <<>> /\ call.text = <<>>
        /\ (kind = "account" \/ tx.target = owner) /\ tx.value # <<>> => Acceptable(tx)
    BY <1>2, <1>6, DifferenceIsTaken
  <2> QED
    BY <2>1
<1>7. /\ job'[c].stage = stage /\ job'[c].call = call /\ job'[c].was = old /\ job'[c].is = is
      /\ job'[c].held = owner /\ stage \in {"confirmed", "refused"}
  BY <1>5
<1> HIDE DEF r, is, stage, old, tx, call
<1>8. AsAsked(c)'
  BY <1>5, <1>6, <1>7 DEF AsAsked, Decided, tx
<1>9. CallInv(c)'
  BY <1>1, <1>7, <1>8 DEF CallInv, Resolves, MadeOfRead, Replaces, Stale, At, RestrictionDecided, Decided
<1>10. Holds
  <2>1. ASSUME NEW m \in Mosaics, RuleRemoved(m) PROVE RuleRemoved(m)'
    BY <1>1, <1>5, <2>1, RemovedKept
  <2>2. ASSUME NEW m \in Mosaics, RuleThere(m) PROVE RuleThere(m)'
    BY <1>5, <2>1, <2>2 DEF RuleThere
  <2> QED
    BY <1>5, <2>1, <2>2, ChainTypes, StillRelinks DEF Holds
<1>11. Chain'
  BY <1>3, <1>5, ChainTypes DEF Chain
<1> QED
  BY <1>4, <1>5, <1>9, <1>10, <1>11, StepKeeps

LEMMA GlobalKeeps ==
    ASSUME ValueInv, NEW c \in Callers, GlobalDecided(c)
    PROVE  ValueInv'
<1> DEFINE call == job[c]
           tx == call.tx
           m == tx.at.mosaic
           old == rule[m]
           ok == old = tx.previous
           is == IF ~ok THEN old ELSE IF tx.new.type = "NONE" THEN NoRule ELSE tx.new
           stage == IF ok THEN "confirmed" ELSE "refused"
           r == [stage |-> stage, call |-> call, was |-> old, is |-> is, held |-> tx.at]
<1>1. call \in MadeGlobal /\ call.stage = "made" /\ call.name = "global" /\ ~Decided(c)
  BY JobCases DEF GlobalDecided, At, ValueInv, Decided
<1>2. /\ tx.at \in [mosaic : Mosaics] /\ m \in Mosaics /\ tx.previous \in Rules /\ tx.new \in NewRules
      /\ old \in Rules /\ tx.at = call.at /\ tx.previous = call.read
  <2>1. /\ tx.at \in [mosaic : Mosaics] /\ tx.previous \in Rules /\ tx.new \in NewRules
    BY <1>1 DEF MadeGlobal
  <2>2. m \in Mosaics
    BY <2>1
  <2>3. old \in Rules
    BY <2>2, ChainTypes DEF Chain
  <2>4. tx.at = call.at /\ tx.previous = call.read
    BY <1>1 DEF ValueInv, CallInv, MadeOfRead, At
  <2> QED
    BY <2>1, <2>2, <2>3, <2>4
<1>3. is \in Rules
  BY <1>2 DEF Rules, NewRules
<1>4. r \in Jobs /\ r.stage \in {"confirmed", "refused"}
  <2>1. stage \in {"confirmed", "refused"}
    OBVIOUS
  <2> HIDE DEF stage, old, is, tx, call
  <2>2. r \in Decision(MadeGlobal, Rules, [mosaic : Mosaics])
    BY <1>1, <1>2, <1>3, <2>1 DEF Decision
  <2> QED
    BY <2>1, <2>2 DEF Jobs, Ended
<1>5. /\ Becomes(c, r) /\ job'[c] = r /\ rule' = [rule EXCEPT ![m] = is]
      /\ UNCHANGED <<kind, entry, owner, limit, linked, changes>>
  BY Becoming DEF GlobalDecided, Ends
<1>6. /\ job'[c].stage = stage /\ job'[c].call = call /\ job'[c].was = old /\ job'[c].is = is
      /\ job'[c].held = tx.at /\ stage \in {"confirmed", "refused"}
  <2>1. job'[c] = r
    BY <1>5
  <2>2. r.stage = stage /\ r.call = call /\ r.was = old /\ r.is = is /\ r.held = tx.at
    OBVIOUS
  <2>3. stage \in {"confirmed", "refused"}
    OBVIOUS
  <2> QED
    BY <2>1, <2>2, <2>3
<1>7. /\ stage = "confirmed" => old = call.read
      /\ stage = "refused" => old # call.read /\ is = old
  BY <1>2
<1>8. rule' \in [Mosaics -> Rules]
  BY <1>2, <1>3, <1>5, ChainTypes DEF Chain
<1>9. \A n \in Mosaics : n # m => rule'[n] = rule[n]
  BY <1>5, ChainTypes DEF Chain
<1>10. rule'[m] = is
  BY <1>2, <1>5, ChainTypes DEF Chain
<1> HIDE DEF r, is, stage, ok, old, tx, call
<1>11. CallInv(c)'
  <2>1. Meant(call, tx.at, changes')
    BY <1>2 DEF Meant
  <2>2. Replaces(c)'
    BY <1>6, <1>7, <2>1 DEF Replaces
  <2>3. Stale(c)'
    BY <1>6, <1>7 DEF Stale
  <2> QED
    BY <1>1, <1>6, <2>2, <2>3 DEF CallInv, Resolves, MadeOfRead, AsAsked, At, Decided
<1>12. ASSUME NEW n \in Mosaics, RuleRemoved(n) PROVE RuleRemoved(n)'
  BY <1>1, <1>5, <1>12, RemovedKept
<1>13. ASSUME NEW n \in Mosaics, RuleThere(n) PROVE RuleThere(n)'
  <2> SUFFICES ASSUME rule'[n] = NoRule PROVE RuleRemoved(n)'
    BY DEF RuleThere, NoRule
  <2>1. CASE rule[n] = NoRule
    BY <1>12, <1>13, <2>1 DEF RuleThere
  <2>2. CASE rule[n] # NoRule
    <3>1. n = m
      BY <1>9, <2>2
    <3>2. is = NoRule /\ old # NoRule
      BY <1>10, <2>2, <3>1 DEF old
    <3>3. stage = "confirmed"
      BY <1>6, <1>7, <3>2
    <3>4. job'[c].held.mosaic = m
      BY <1>6
    <3> QED
      BY <1>1, <1>6, <3>1, <3>2, <3>3, <3>4 DEF RuleRemoved, NoRule
  <2> QED
    BY <2>1, <2>2
<1>14. Holds
  BY <1>5, <1>12, <1>13, ChainTypes, StillRelinks DEF Holds
<1>15. Chain'
  BY <1>5, <1>8, ChainTypes DEF Chain
<1> QED
  BY <1>4, <1>5, <1>11, <1>14, <1>15, StepKeeps

LEMMA AddressKeeps ==
    ASSUME ValueInv, NEW c \in Callers, AddressDecided(c)
    PROVE  ValueInv'
<1> DEFINE call == job[c]
           tx == call.tx
           at == Meaning(tx.at)
           old == IF at \in Places THEN limit[at] ELSE NoLimit
           ok == at \in Places /\ rule[at.mosaic] # NoRule /\ old = tx.previous
           stage == IF ok THEN "confirmed" ELSE "refused"
           r == [stage |-> stage, call |-> call, was |-> old, is |-> tx.new, held |-> at]
<1>1. call \in MadeAddress /\ call.stage = "made" /\ call.name = "address" /\ ~Decided(c)
  BY JobCases DEF AddressDecided, At, ValueInv, Decided
<1>2. /\ tx.at \in Names /\ tx.previous \in Values /\ tx.new \in Values
      /\ call.at \in Places /\ tx.previous = call.read /\ call.at.mosaic \in Mosaics
      /\ AtIsMeant(tx.at, call.at, call.seen, linked, changes) /\ RuleThere(call.at.mosaic)
  <2>1. tx.at \in Names /\ tx.previous \in Values /\ tx.new \in Values /\ call.at \in Places
    BY <1>1 DEF MadeAddress
  <2>2. /\ tx.previous = call.read /\ AtIsMeant(tx.at, call.at, call.seen, linked, changes)
        /\ RuleThere(call.at.mosaic)
    BY <1>1 DEF ValueInv, CallInv, MadeOfRead, At
  <2>3. call.at.mosaic \in Mosaics
    BY <2>1 DEF Places
  <2> QED
    BY <2>1, <2>2, <2>3
<1>3. at \in Linked /\ old \in Values
  <2>1. linked \in Linked /\ limit \in [Places -> Values]
    BY ChainTypes DEF Chain
  <2>2. at \in Linked
    BY <1>2, <2>1 DEF Linked, Names, MosaicNames, Meaning
  <2>3. NoLimit \in Values
    BY BoundsAssumption DEF NoLimit, Values
  <2> QED
    BY <2>1, <2>2, <2>3
<1>4. r \in Jobs /\ r.stage \in {"confirmed", "refused"}
  <2>1. stage \in {"confirmed", "refused"}
    OBVIOUS
  <2> HIDE DEF stage, old, at, ok
  <2>2. r \in Decision(MadeAddress, Values, Linked)
    BY <1>1, <1>2, <1>3, <2>1 DEF Decision
  <2> QED
    BY <2>1, <2>2 DEF Jobs, Ended
<1>5. /\ Becomes(c, r) /\ job'[c] = r
      /\ limit' = IF ok THEN [limit EXCEPT ![at] = tx.new] ELSE limit
      /\ UNCHANGED <<kind, entry, owner, rule, linked, changes>>
  BY Becoming DEF AddressDecided, Ends
<1>6. /\ job'[c].stage = stage /\ job'[c].call = call /\ job'[c].was = old
      /\ job'[c].held = at /\ stage \in {"confirmed", "refused"}
  <2>1. job'[c] = r
    BY <1>5
  <2>2. r.stage = stage /\ r.call = call /\ r.was = old /\ r.held = at
    OBVIOUS
  <2>3. stage \in {"confirmed", "refused"}
    OBVIOUS
  <2> QED
    BY <2>1, <2>2, <2>3
<1>7. stage = "confirmed" => old = call.read
  BY <1>2
<1>8. Meant(call, at, changes')
  <2>1. ASSUME NEW part \in DOMAIN at, at[part] # call.at[part]
        PROVE  tx.at[part] = Alias /\ call.seen[part] < changes[part]
    <3>1. part \in DOMAIN tx.at /\ part \in DOMAIN call.at /\ part \in Parts
      BY <1>1, MadeTypes DEF Meaning
    <3>2. at[part] = IF tx.at[part] = Alias THEN linked[part] ELSE tx.at[part]
      BY <3>1 DEF Meaning
    <3>3. /\ tx.at[part] # Alias => call.at[part] = tx.at[part]
          /\ tx.at[part] = Alias =>
               call.at[part] = Nothing \/ call.at[part] = linked[part] \/ call.seen[part] < changes[part]
      BY <1>2, <3>1 DEF AtIsMeant
    <3>4. call.at[part] # Nothing
      BY <1>2, <3>1, NamesAssumption DEF Places, Parts
    <3> HIDE DEF at, call, tx
    <3> QED
      BY <2>1, <3>2, <3>3, <3>4
  <2>2. changes' = changes
    BY <1>5
  <2> QED
    BY <2>1, <2>2 DEF Meant
<1>9. stage = "refused" => old # call.read \/ at # call.at \/ RuleRemoved(at.mosaic)
  <2> SUFFICES ASSUME stage = "refused", old = call.read, at = call.at
               PROVE  RuleRemoved(at.mosaic)
    OBVIOUS
  <2>1. at \in Places /\ old = tx.previous
    BY <1>2
  <2>2. rule[at.mosaic] = NoRule
    BY <2>1
  <2>3. RuleThere(at.mosaic)
    BY <1>2
  <2> QED
    BY <2>2, <2>3 DEF RuleThere
<1>10. Chain'
  <2>1. limit' \in [Places -> Values]
    BY <1>2, <1>5, ChainTypes DEF Chain
  <2> QED
    BY <1>5, <2>1, ChainTypes DEF Chain
<1> HIDE DEF r, stage, ok, old, at, tx
<1>11. Replaces(c)'
  BY <1>6, <1>7, <1>8 DEF Replaces
<1>12. ASSUME NEW m \in Mosaics, RuleRemoved(m) PROVE RuleRemoved(m)'
  BY <1>1, <1>5, <1>12, RemovedKept
<1>13. Stale(c)'
  <2> SUFFICES ASSUME stage = "refused", old = call.read, at = call.at
               PROVE  RuleRemoved(job[c].held.mosaic)'
    BY <1>1, <1>6 DEF Stale
  <2>1. at.mosaic \in Mosaics
    BY <1>2
  <2>2. PICK m \in Mosaics : m = at.mosaic
    BY <2>1
  <2>3. RuleRemoved(m)'
    BY <1>9, <1>12, <2>2
  <2>4. job'[c].held.mosaic = m
    BY <2>2, <1>6
  <2> QED
    BY <2>3, <2>4 DEF RuleRemoved
<1> HIDE DEF call
<1>14. CallInv(c)'
  BY <1>1, <1>6, <1>11, <1>13 DEF CallInv, Resolves, MadeOfRead, AsAsked, At, Decided
<1>15. ASSUME NEW m \in Mosaics, RuleThere(m) PROVE RuleThere(m)'
  BY <1>5, <1>12, <1>15 DEF RuleThere
<1>16. Holds
  BY <1>5, <1>12, <1>15, ChainTypes, StillRelinks DEF Holds
<1> QED
  BY <1>4, <1>5, <1>10, <1>14, <1>16, StepKeeps

(* Nothing happens to the calls.                                            *)
LEMMA StillKeeps ==
    ASSUME ValueInv, UNCHANGED <<kind, rule, job>>, Chain',
           Relinks(linked, changes, linked', changes')
    PROVE  ValueInv'
<1>1. Holds
  BY DEF Holds, RuleThere, RuleRemoved, NoRule
<1>2. \A c \in Callers : CallInv(c)'
  BY <1>1, CallKept
<1>3. TypeOK'
  BY DEF Chain, TypeOK, Rules, ValueInv
<1> QED
  BY <1>2, <1>3 DEF ValueInv

(* The owner, or what an alias stands for, changes.                         *)
LEMMA ChangeKeeps ==
    ASSUME ValueInv, NEW what \in {"owner", "mosaic", "account"}, Change(what),
           UNCHANGED <<kind, rule, job, entry, limit>>, owner' \in Accounts, linked' \in Linked,
           \A part \in Parts \ {what} : linked'[part] = linked[part]
    PROVE  ValueInv'
<1>1. changes \in [{"owner", "mosaic", "account"} -> 0..MaxChanges] /\ Chain
  BY ChainTypes DEF Chain
<1>2. /\ changes[what] \in Nat /\ changes[what] < MaxChanges /\ changes'[what] = changes[what] + 1
      /\ changes' = [changes EXCEPT ![what] = changes[what] + 1]
  BY <1>1, BoundsAssumption DEF Change
<1>3. changes[what] + 1 \in 0..MaxChanges /\ changes[what] < changes[what] + 1
  BY <1>2, BoundsAssumption
<1>4. Chain'
  BY <1>1, <1>2, <1>3 DEF Chain
<1>5. ASSUME NEW part \in Parts
      PROVE  /\ changes[part] \in Nat /\ changes'[part] \in Nat
             /\ changes[part] <= changes'[part]
             /\ linked'[part] # linked[part] => changes[part] < changes'[part]
  <2>1. changes[part] \in Nat
    BY <1>1, BoundsAssumption DEF Parts
  <2>2. CASE part = what
    BY <1>2, <1>3, <2>1, <2>2
  <2>3. CASE part # what
    <3>1. changes'[part] = changes[part] /\ linked'[part] = linked[part]
      BY <1>1, <1>2, <2>3 DEF Parts
    <3> QED
      BY <2>1, <3>1
  <2> QED
    BY <2>2, <2>3
<1> QED
  BY <1>4, <1>5, StillKeeps DEF Relinks

LEMMA ValueStep == ValueInv /\ [Next]_vars => ValueInv'
<1> SUFFICES ASSUME ValueInv, [Next]_vars PROVE ValueInv'
  OBVIOUS
<1>1. ASSUME NEW c \in Callers, NEW text \in Texts, CreateMetadataTransaction(c, owner, text)
      PROVE  ValueInv'
  BY <1>1, CreateKeeps
<1>2. ASSUME NEW c \in Callers, SearchAnswered(c) PROVE ValueInv'
  BY <1>2, SearchKeeps
<1>3. ASSUME NEW c \in Callers, NEW mosaic \in Mosaics \union {Alias}, NEW valid \in BOOLEAN,
             NEW v \in Values, NEW t \in Types,
             CreateMosaicGlobalRestrictionTransaction(c, mosaic, [value |-> v, type |-> t], valid)
      PROVE  ValueInv'
  <2>1. [value |-> v, type |-> t] \in NewRules /\ [mosaic |-> mosaic] \in [mosaic : MosaicNames]
    BY DEF NewRules, MosaicNames
  <2> QED
    BY <1>3, <2>1, AsksKeeps DEF CreateMosaicGlobalRestrictionTransaction
<1>4. ASSUME NEW c \in Callers, NEW mosaic \in Mosaics \union {Alias}, NEW valid \in BOOLEAN,
             NEW target \in Accounts \union {Alias}, NEW v \in Values,
             CreateMosaicAddressRestrictionTransaction(c, mosaic, target, v, valid)
      PROVE  ValueInv'
  <2>1. [mosaic |-> mosaic, account |-> target] \in Names
    BY DEF Names, MosaicNames
  <2> QED
    BY <1>4, <2>1, AsksKeeps DEF CreateMosaicAddressRestrictionTransaction
<1>5. ASSUME NEW c \in Callers, GetResolvedMosaicId(c) \/ GetResolvedAddress(c) PROVE ValueInv'
  BY <1>5, ResolvedKeeps DEF GetResolvedMosaicId, GetResolvedAddress, Parts
<1>6. ASSUME NEW c \in Callers, RuleAnswered(c) PROVE ValueInv'
  BY <1>6, RuleKeeps
<1>7. ASSUME NEW c \in Callers, LimitAnswered(c) PROVE ValueInv'
  BY <1>7, LimitKeeps
<1>8. ASSUME NEW c \in Callers, RequestFails(c) PROVE ValueInv'
  BY <1>8, FailsKeeps DEF RequestFails, Decided
<1>9. ASSUME NEW c \in Callers, MetadataDecided(c) PROVE ValueInv'
  BY <1>9, MetadataKeeps
<1>10. ASSUME NEW c \in Callers, GlobalDecided(c) PROVE ValueInv'
  BY <1>10, GlobalKeeps
<1>11. ASSUME NEW c \in Callers, AddressDecided(c) PROVE ValueInv'
  BY <1>11, AddressKeeps
<1>12. owner \in Accounts /\ linked \in Linked
  BY ChainTypes DEF Chain
<1>13. ASSUME NEW o \in Accounts, OwnerChanges(o) PROVE ValueInv'
  BY <1>12, <1>13, ChangeKeeps DEF OwnerChanges
<1>14. ASSUME NEW m \in Mosaics \union {Nothing}, LinkChanges("mosaic", m) PROVE ValueInv'
  <2>1. linked' = [linked EXCEPT !["mosaic"] = m]
    BY <1>14 DEF LinkChanges
  <2>2. linked' \in Linked /\ \A part \in Parts \ {"mosaic"} : linked'[part] = linked[part]
    BY <1>12, <2>1 DEF Linked, Parts
  <2> QED
    BY <1>12, <1>14, <2>2, ChangeKeeps DEF LinkChanges
<1>15. ASSUME NEW a \in Accounts \union {Nothing}, LinkChanges("account", a) PROVE ValueInv'
  <2>1. linked' = [linked EXCEPT !["account"] = a]
    BY <1>15 DEF LinkChanges
  <2>2. linked' \in Linked /\ \A part \in Parts \ {"account"} : linked'[part] = linked[part]
    BY <1>12, <2>1 DEF Linked, Parts
  <2> QED
    BY <1>12, <1>15, <2>2, ChangeKeeps DEF LinkChanges
<1>16. CASE UNCHANGED vars
  BY <1>16, ChainTypes, StillKeeps, StillRelinks DEF vars, chain, Chain
<1> QED
  BY <1>1, <1>2, <1>3, <1>4, <1>5, <1>6, <1>7, <1>8, <1>9, <1>10, <1>11, <1>13, <1>14,
     <1>15, <1>16 DEF Next

(* ----------------------------------------------------------------------- *)
(* The theorems.                                                            *)

(* The node's values keep their types, and a call asks only for the          *)
(* restrictions of mosaics (getResolvedMosaicId).                            *)
THEOREM TypeCorrect == Spec => []TypeOK
<1>1. ValueInv => TypeOK
  BY DEF ValueInv
<1> QED
  BY <1>1, ValueInit, ValueStep, PTL DEF Spec

(* The XOR with the text that was read, and its size, make the node's text   *)
(* the one asked for, for texts of any length, if the text is still that one *)
(* (createMetadataTransaction and its kinds).                                *)
THEOREM MetadataSet == Spec => []MetadataAsAsked
<1>1. ValueInv => MetadataAsAsked
  BY DEF ValueInv, CallInv, AsAsked, MetadataAsAsked
<1> QED
  BY <1>1, ValueInit, ValueStep, PTL DEF Spec

(* A restriction is confirmed or refused by what was read for it, however    *)
(* many calls and changes there are (createMosaicGlobalRestrictionTransaction,*)
(* createMosaicAddressRestrictionTransaction).                               *)
THEOREM RestrictionStands == Spec => []RestrictionStandsOnWhatWasRead
<1>1. ASSUME ValueInv PROVE RestrictionStandsOnWhatWasRead
  <2>1. RestrictionReplacesWhatWasRead
    BY <1>1 DEF ValueInv, CallInv, Replaces, RestrictionReplacesWhatWasRead
  <2>3. RestrictionRefusedWhenStale
    BY <1>1 DEF ValueInv, CallInv, Stale, RestrictionRefusedWhenStale
  <2> QED
    BY <2>1, <2>3 DEF RestrictionStandsOnWhatWasRead
<1> QED
  BY <1>1, ValueInit, ValueStep, PTL DEF Spec
=============================================================================
