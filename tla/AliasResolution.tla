----------------------------- MODULE AliasResolution -----------------------------
(***************************************************************************)
(* How the SDK finds out what a transaction's alias meant                  *)
(* (src/src/service/TransactionService.ts,                                 *)
(* src/src/model/receipt/Statement.ts and ResolutionStatement.ts).  A node *)
(* executes a block; each time a transaction uses the alias and the alias  *)
(* has another meaning than in the last resolution entry, it writes an     *)
(* entry with the transaction's source.  Afterwards the SDK resolves the   *)
(* transactions of the block from the entries.                             *)
(*                                                                         *)
(* A source is a place in the block: primaryId counts its transactions     *)
(* from 1, secondaryId those inside an aggregate, 0 for a plain one.       *)
(***************************************************************************)
EXTENDS Naturals, FiniteSetsExt

CONSTANTS Meanings,      \* addresses (or mosaics) the alias may stand for
          MaxPrimary,    \* bound: transactions in the block
          MaxSecondary,  \* bound: transactions in an aggregate
          NotFound       \* the SDK raised an error

ASSUME MeaningsAssumption == NotFound \notin Meanings
ASSUME BoundsAssumption == MaxPrimary \in Nat /\ MaxSecondary \in Nat

VARIABLES meaning,    \* what the alias stands for now
          executed,   \* the source executed last
          entries,    \* the resolution entries of the statement
          meant,      \* of each source that used the alias: what it stood for
          resolved    \* of each source the SDK resolved: what it found

vars == <<meaning, executed, entries, meant, resolved>>

Source == [primaryId : 0..MaxPrimary, secondaryId : 0..MaxSecondary]
At(p, s) == [primaryId |-> p, secondaryId |-> s]

Before(a, b) == \/ a.primaryId < b.primaryId
                \/ a.primaryId = b.primaryId /\ a.secondaryId < b.secondaryId

-----------------------------------------------------------------------------
(* ResolutionStatement and Statement.  The slips (Slip...) are plausible    *)
(* bugs of these pieces; no specification uses them.                        *)

\* The greatest primary id up to p, 0 when there is none.
MaxAvailablePrimaryId(p) ==
    Max({0} \union {e.source.primaryId : e \in {f \in entries : f.source.primaryId <= p}})

SecondaryIds(p) == {e.source.secondaryId : e \in {f \in entries : f.source.primaryId = p}}

\* The greatest secondary id up to s beside p, 0 when there is none.
SlipAnySecondary(p, s) == Max({0} \union SecondaryIds(p))
MaxSecondaryUpTo(p, s) == Max({0} \union {i \in SecondaryIds(p) : i <= s})

EntriesAt(p, s) == {e \in entries : e.source = At(p, s)}

\* The last entry of transaction p (none for p = 0).
LastOf(p) == IF SecondaryIds(p) = {} THEN {} ELSE EntriesAt(p, Max(SecondaryIds(p)))

\* getResolutionEntryById: at most one entry.
ResolutionEntryById(p, s) ==
    LET primary   == MaxAvailablePrimaryId(p)
        secondary == MaxSecondaryUpTo(primary, s)
    IN  IF primary < p THEN LastOf(primary)
        ELSE IF secondary = 0 /\ s # 0 THEN LastOf(MaxAvailablePrimaryId(primary - 1))
        ELSE EntriesAt(primary, secondary)

\* The ids a transaction is looked up with: resolveTransaction passes the index of
\* an aggregate, and 0 for a plain transaction, as aggregateTransactionIndex, to
\* which Statement adds one; the index of the (inner) transaction comes second.
PrimaryIdFor(source) == IF source.secondaryId = 0 THEN 0 + 1 ELSE source.primaryId
SecondaryIdFor(source) ==
    IF source.secondaryId = 0 THEN source.primaryId ELSE source.secondaryId

\* A statement with a single entry is not searched.
SlipAlwaysSearched(source) == ResolutionEntryById(PrimaryIdFor(source), SecondaryIdFor(source))
Candidates(source) ==
    IF \E e \in entries : entries = {e} THEN entries
    ELSE ResolutionEntryById(PrimaryIdFor(source), SecondaryIdFor(source))

\* What the entry resolves to; an error when none was found.
SlipUnfoundUnseen(source) ==
    IF Candidates(source) = {} THEN "undefined"
    ELSE (CHOOSE e \in Candidates(source) : TRUE).resolved
ResolvedFromReceipt(source) ==
    IF Candidates(source) = {} THEN NotFound ELSE (CHOOSE e \in Candidates(source) : TRUE).resolved

-----------------------------------------------------------------------------
Init == /\ meaning \in Meanings
        /\ executed = At(0, 0)
        /\ entries = {}
        /\ meant = [source \in {} |-> meaning]
        /\ resolved = [source \in {} |-> meaning]

(* The node.  The next transaction is plain, or opens an aggregate, or is   *)
(* the next one inside the aggregate.                                       *)
Following(source) ==
    /\ DOMAIN resolved = {}
    /\ source \in Source
    /\ \/ source = At(executed.primaryId + 1, 0)
       \/ source = At(executed.primaryId + 1, 1)
       \/ executed.secondaryId > 0
            /\ source = At(executed.primaryId, executed.secondaryId + 1)

Latest == CHOOSE e \in entries : \A f \in entries : f = e \/ Before(f.source, e.source)

\* An entry is written when the alias has changed since the last one.
Recorded(source) ==
    IF entries # {} /\ Latest.resolved = meaning THEN entries
    ELSE entries \union {[source |-> source, resolved |-> meaning]}

Use(source) ==
    /\ Following(source)
    /\ executed' = source
    /\ entries' = Recorded(source)
    /\ meant' = [t \in DOMAIN meant \union {source} |-> IF t = source THEN meaning ELSE meant[t]]
    /\ UNCHANGED <<meaning, resolved>>

(* The transaction links the alias to something else.                       *)
Link(source, m) ==
    /\ Following(source)
    /\ executed' = source
    /\ meaning' = m
    /\ UNCHANGED <<entries, meant, resolved>>

(* The SDK resolves a transaction of the block.                             *)
ResolveAliases(source) ==
    /\ source \in DOMAIN meant \ DOMAIN resolved
    /\ resolved' = [t \in DOMAIN resolved \union {source} |->
                      IF t = source THEN ResolvedFromReceipt(source) ELSE resolved[t]]
    /\ UNCHANGED <<meaning, executed, entries, meant>>

Next == \E source \in Source : \/ Use(source)
                               \/ \E m \in Meanings \ {meaning} : Link(source, m)
                               \/ ResolveAliases(source)

Spec == Init /\ [][Next]_vars

-----------------------------------------------------------------------------
\* Every variable has its type; entries have different sources and stand for
\* changes: neighbours resolve to different things.
TypeOK ==
    /\ meaning \in Meanings
    /\ executed \in Source
    /\ entries \subseteq [source : Source, resolved : Meanings]
    /\ \A e, f \in entries :
         (/\ Before(e.source, f.source)
          /\ \A g \in entries : ~(Before(e.source, g.source) /\ Before(g.source, f.source)))
            => e.resolved # f.resolved
    /\ DOMAIN meant \subseteq Source /\ \A t \in DOMAIN meant : meant[t] \in Meanings
    /\ DOMAIN resolved \subseteq DOMAIN meant
    /\ \A t \in DOMAIN resolved : resolved[t] \in Meanings \union {NotFound}

\* A transaction inside an aggregate is resolved to what the alias stood for when it
\* was executed, wherever in the block the alias changed (getResolutionEntryById,
\* AggregateTransaction.resolveAliases).
InnerResolvesToItsUse ==
    \A t \in DOMAIN resolved : t.secondaryId > 0 => resolved[t] = meant[t]

\* A plain transaction is too, as long as the alias stands for one thing in the block
\* (getResolvedFromReceipt returns a single entry unseen).
PlainResolvesWhenUnchanged ==
    \A t \in DOMAIN resolved :
        Cardinality({meant[u] : u \in DOMAIN meant}) = 1 => resolved[t] = meant[t]

-----------------------------------------------------------------------------
(* What a comment says, and the code does not do.                          *)

\* "Transaction: [Inx:5(4+1), AggInx:0] It should return Entry: {P:4, S:4}"
\* (ResolutionStatement.ts:157): a plain transaction is looked up by its index and 0.
\* TransactionService passes its index as the secondary id of transaction 1.
PlainResolvesToItsUse ==
    \A t \in DOMAIN resolved : t.secondaryId = 0 => resolved[t] = meant[t]
=============================================================================
