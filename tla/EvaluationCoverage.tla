------------------------- MODULE EvaluationCoverage -------------------------
(***************************************************************************)
(* The coverage of one evaluation result (evaluation-invariants.ts):       *)
(* what the evidence and judgment ports report is composed into four       *)
(* buckets by the runner and validated before the result is archived.      *)
(* A behaviour takes one run's reports through both; the initial states    *)
(* enumerate the reports.                                                  *)
(***************************************************************************)
EXTENDS Naturals, Sequences, FiniteSets, Functions, SequencesExt

CONSTANTS
    Items,            \* ids of evidence items
    Phantoms,         \* ids that name no evidence item, e.g. a phase of a judgment
    SourceOf,         \* the source of each item
    UnlinkedBuckets,  \* what a collector may report as declared but unlinked
    CollectorBuckets, \* what a collector may report as skipped
    JudgmentBuckets,  \* what a judgment may report as skipped
    NoBreakdown       \* bySource of a bucket that gives none

\* A count for each of finitely many sources.
Breakdown(f) == IsFiniteSet(DOMAIN f) /\ \A s \in DOMAIN f : f[s] \in Nat

ASSUME ReportAssumption ==
    /\ IsFiniteSet(Items \union Phantoms) /\ Items \subseteq DOMAIN SourceOf
    /\ \A b \in UnlinkedBuckets \union CollectorBuckets \union JudgmentBuckets :
           /\ b.total \in Nat /\ b.note \in BOOLEAN /\ b.items \in Seq(Items \union Phantoms)
           /\ b.bySource = NoBreakdown \/ Breakdown(b.bySource)

VARIABLES
    manifest,   \* ids of the collected items
    evaluated,  \* evaluatedRefs of the judgment, duplicates removed
    unlinked,   \* declaredUnlinked of the evidence
    skips,      \* the skipped buckets: the evidence's, then the judgment's if any
    stats,      \* the composed coverage
    coveragePc

coverageVars == <<manifest, evaluated, unlinked, skips, stats, coveragePc>>
reports == <<manifest, evaluated, unlinked, skips>>

\* A bucket: a list of ids and the source breakdown are optional, and an empty
\* list says as much as none.
Bucket(total, bySource, noted, items) ==
    [total |-> total, bySource |-> bySource, note |-> noted, items |-> items]

EmptyBucket == Bucket(0, NoBreakdown, FALSE, << >>)

CoverageInit ==
    /\ manifest \in SUBSET Items
    /\ evaluated \in SUBSET (Items \union Phantoms)
    /\ unlinked \in UnlinkedBuckets
    /\ skips \in {<<c>> : c \in CollectorBuckets} \union (CollectorBuckets \X JudgmentBuckets)
    /\ stats = << >>
    /\ coveragePc = "judged"

-----------------------------------------------------------------------------
(* composeCoverageStats *)

\* How many of the ids have each source; sources without any have no entry.
CountBySource(ids) ==
    [s \in {SourceOf[i] : i \in ids} |-> Cardinality({i \in ids : SourceOf[i] = s})]

Skipped(bs) == UNION {ToSet(bs[n].items) : n \in DOMAIN bs}

Unconsumed(m, ev, bs) == (m \ ev) \ Skipped(bs)

TotalOf(bs) == SumFunction([n \in DOMAIN bs |-> bs[n].total])
NoteOf(bs) == \E n \in DOMAIN bs : bs[n].note
ItemsOf(bs) == FlattenSeq([n \in DOMAIN bs |-> bs[n].items])

\* The sum of the breakdowns that are given; none when no source is named.
BreakdownOf(bs) ==
    LET given == {n \in DOMAIN bs : bs[n].bySource # NoBreakdown}
        named == UNION {DOMAIN bs[n].bySource : n \in given}
        count(s) == SumFunction([n \in {m \in given : s \in DOMAIN bs[m].bySource}
                                     |-> bs[n].bySource[s]])
    IN IF named = {} THEN NoBreakdown ELSE [s \in named |-> count(s)]

\* Mutant: the last bucket replaces the others.
LastBucket(bs) == bs[Len(bs)]

MergeBuckets(bs) == Bucket(TotalOf(bs), BreakdownOf(bs), NoteOf(bs), ItemsOf(bs))

IdBucket(ids, bySource) == Bucket(Cardinality(ids), bySource, FALSE, SetToSeq(ids))

\* An evaluated ref that names no collected item rejects the run at once.
ComposeCoverage ==
    LET rest == Unconsumed(manifest, evaluated, skips) IN
    /\ coveragePc = "judged"
    /\ stats' = [evaluated |-> IdBucket(evaluated, CountBySource(evaluated \intersect manifest)),
                 declaredUnlinked |-> unlinked,
                 skipped |-> MergeBuckets(skips),
                 unconsumed |-> IF rest = {} THEN EmptyBucket
                                ELSE IdBucket(rest, CountBySource(rest))]
    /\ coveragePc' = IF evaluated \subseteq manifest THEN "composed" ELSE "rejected"
    /\ UNCHANGED reports

-----------------------------------------------------------------------------
(* validateCoverageStats, as createResult applies it *)

SourcesAddUp(b) == b.bySource = NoBreakdown \/ SumFunction(b.bySource) = b.total

SkippedAccepted(b) ==
    /\ SourcesAddUp(b)
    /\ Len(b.items) = b.total
    /\ b.total > 0 => b.note

UnlinkedAccepted(b) == SourcesAddUp(b) /\ (b.total > 0 => b.note)

StatsAccepted(st) ==
    /\ SourcesAddUp(st.evaluated)
    /\ UnlinkedAccepted(st.declaredUnlinked)
    /\ SkippedAccepted(st.skipped)
    /\ SourcesAddUp(st.unconsumed)
    /\ ToSet(st.evaluated.items) \subseteq manifest

CreateResult ==
    /\ coveragePc = "composed"
    /\ coveragePc' = IF StatsAccepted(stats) THEN "archived" ELSE "rejected"
    /\ UNCHANGED <<reports, stats>>

-----------------------------------------------------------------------------
CoverageNext == ComposeCoverage \/ CreateResult

CoverageSpec == CoverageInit /\ [][CoverageNext]_coverageVars

-----------------------------------------------------------------------------
(* Properties *)

\* An archived coverage accounts for the whole manifest: every item is
\* evaluated, skipped or unconsumed, and an item that some rule examined or a
\* port cut off is not counted as needed by no rule.
ManifestAccounted ==
    coveragePc = "archived" =>
        LET ev == ToSet(stats.evaluated.items)
            sk == ToSet(stats.skipped.items)
            un == ToSet(stats.unconsumed.items)
        IN /\ manifest \subseteq ev \union sk \union un
           /\ un \intersect (ev \union sk) = {}
           /\ un \subseteq manifest /\ ev \subseteq manifest
           /\ stats.unconsumed.total = Cardinality(un)

\* Material that either port cut off is in the archived coverage, by id and by
\* count: neither port's report replaces the other's.
NoCutOffDisappears ==
    coveragePc = "archived" => \A n \in DOMAIN skips :
        /\ ToSet(skips[n].items) \subseteq ToSet(stats.skipped.items)
        /\ stats.skipped.total >= skips[n].total
        /\ stats.skipped.total = Len(stats.skipped.items)

\* Reports that each satisfy the contract of their port: `total > 0` has a note
\* and, when skipped, the ids; a breakdown, when given, adds up.
ReportsValid ==
    /\ evaluated \subseteq manifest
    /\ UnlinkedAccepted(unlinked)
    /\ \A n \in DOMAIN skips : SkippedAccepted(skips[n])

\* When one skipped bucket gives a breakdown, each that counts material does.
Uniform ==
    (\E n \in DOMAIN skips : skips[n].bySource # NoBreakdown) =>
        \A n \in DOMAIN skips : skips[n].total > 0 => skips[n].bySource # NoBreakdown

\* Valid reports whose skipped buckets agree on giving a breakdown are archived.
UniformReportsAccepted == ReportsValid /\ Uniform => coveragePc # "rejected"

\* Valid reports are archived.
ValidReportsAccepted == ReportsValid => coveragePc # "rejected"

\* The coverage that is archived tells all that the collector and the judgment
\* reported, and their valid reports do not fail the run.
CoverageIsFaithful == ManifestAccounted /\ NoCutOffDisappears /\ UniformReportsAccepted
=============================================================================
