------------------------------ MODULE ModuleHub ------------------------------
(***************************************************************************)
(* packages/modules/module-hub (release.service.ts, installation.service): *)
(* the catalog of one module's releases, fed by webhook deliveries that    *)
(* come late, twice or never and by operator syncs, and the upgrade hint   *)
(* it gives an installation from the pin of its last full report.          *)
(***************************************************************************)
EXTENDS Naturals, FiniteSets, Sequences, SequencesExt

CONSTANTS
    Commits,        \* commits that touch the module, numbered along the branch
    DateOf,         \* commit dates: they never decrease along the branch
    ShaOf,          \* their hashes, compared where dates tie
    Legacy,         \* rows that may exist from before dates were recorded
    NoDate, NoCommit,
    Reporters,      \* reports in progress, slots used again
    MaxReports, MaxLookupFaults     \* bounds

ASSUME HubAssumption ==
    /\ Commits \subseteq Nat /\ NoCommit \notin Commits /\ NoDate \notin Nat
    /\ DateOf \in [Commits -> Nat] /\ ShaOf \in [Commits -> Nat] /\ Legacy \subseteq Commits
    /\ \A c, d \in Commits : c < d => DateOf[c] <= DateOf[d]
    /\ \A c, d \in Commits : ShaOf[c] = ShaOf[d] => c = d
    /\ MaxReports \in Nat /\ MaxLookupFaults \in Nat

VARIABLES
    head,           \* the last commit of the branch, or NoCommit
    releases,       \* rows of the catalog, one for each commit
    syncTarget,     \* what a sync in progress is about to ingest, or NoCommit
    installed,      \* the pin of the running installation
    lastReport,     \* the pin and its date of the last report that was written
    lastSeenAt,     \* the time of that report, or of a later ping
    reported, sentAt,   \* each report: its pin (NoCommit: none) and its time
    unknownDates,   \* commits whose failed lookup is cached
    (* history and bounds *)
    synced,         \* the last commit a completed sync took over
    reportClock, lookupFaults

catalogVars == <<head, releases, syncTarget, synced>>
reportVars == <<installed, lastReport, lastSeenAt, reported, sentAt, unknownDates,
                reportClock, lookupFaults>>
hubVars == <<catalogVars, reportVars>>

Dates == {DateOf[c] : c \in Commits} \union {NoDate}
NoPin == [commit |-> NoCommit, date |-> NoDate]

HubTypeOK ==
    /\ {head, syncTarget, installed, synced} \subseteq Commits \union {NoCommit}
    /\ \A r \in releases : r.commit \in Commits /\ r.date \in {DateOf[r.commit], NoDate}
    /\ \A r, s \in releases : r.commit = s.commit \/ r.published = s.published => r = s
    /\ lastReport.commit \in Commits \union {NoCommit} /\ lastReport.date \in Dates
    /\ lastSeenAt \in 0 .. MaxReports /\ sentAt \in [Reporters -> 0 .. MaxReports]
    /\ reported \in [Reporters -> Commits \union {NoCommit}]
    /\ unknownDates \subseteq Commits
    /\ reportClock \in 0 .. MaxReports /\ lookupFaults \in 0 .. MaxLookupFaults

Row(c, d, n) == [commit |-> c, date |-> d, published |-> n]

HubInit ==
    /\ \/ releases = {} /\ head = NoCommit
       \/ \E c \in Legacy : releases = {Row(c, NoDate, 1)} /\ head = c
    /\ syncTarget = NoCommit /\ synced = NoCommit
    /\ installed = NoCommit /\ lastReport = NoPin /\ lastSeenAt = 0
    /\ reported = [r \in Reporters |-> NoCommit] /\ sentAt = [r \in Reporters |-> 0]
    /\ unknownDates = {} /\ reportClock = 0 /\ lookupFaults = 0

-----------------------------------------------------------------------------
(* Selection *)

\* Mutant: the row that came later is the newer one.
NewerArrival(a, b) == a.published > b.published

\* isNewerRelease.
NewerRelease(a, b) ==
    IF a.date # NoDate /\ b.date # NoDate
    THEN a.date > b.date \/ (a.date = b.date /\ ShaOf[a.commit] > ShaOf[b.commit])
    ELSE \/ a.date # NoDate
         \/ b.date = NoDate /\ a.published > b.published

Newer(current, row) == IF NewerRelease(row, current) THEN row ELSE current

\* pickLatestReleases: one pass over the rows, in the order they are read.
PickLatest(rows) ==
    LET pick[n \in DOMAIN rows] == IF n = 1 THEN rows[1] ELSE Newer(pick[n - 1], rows[n])
    IN  pick[Len(rows)]

Latest == PickLatest(SetToSeq(releases))

\* annotateUpdateAvailability of a snapshot that carries no hint of its own.
UpdateAvailable ==
    /\ releases # {} /\ lastReport.commit # NoCommit /\ Latest.commit # lastReport.commit
    /\ lastReport.date # NoDate /\ Latest.date # NoDate /\ Latest.date > lastReport.date

-----------------------------------------------------------------------------
(* Ingestion *)

\* The upsert of (module, commit) sets the date, when it is known, of a row that
\* exists.
Ingest(c, date) ==
    IF \E r \in releases : r.commit = c
    THEN {IF r.commit = c /\ date # NoDate THEN [r EXCEPT !.date = date] ELSE r : r \in releases}
    ELSE releases \union {Row(c, date, Cardinality(releases) + 1)}

Reached == {c \in Commits : head # NoCommit /\ c <= head}

PushCommit ==
    \E c \in Commits :
        /\ c \notin Reached /\ \A d \in Commits \ Reached : c <= d
        /\ head' = c
        /\ UNCHANGED <<releases, syncTarget, synced, reportVars>>

\* handleGithubPush, for a push whose head is c: now, later, again or never; its
\* payload may lack the timestamp.
Deliver(c, date) ==
    /\ c \in Reached /\ releases' = Ingest(c, date)
    /\ UNCHANGED <<head, syncTarget, synced, reportVars>>

\* syncCatalogFromRegistry: last commit, dated row found or manifest fetched, upsert.
StartSync ==
    /\ syncTarget = NoCommit /\ head # NoCommit /\ syncTarget' = head
    /\ UNCHANGED <<head, releases, synced, reportVars>>

FinishSync ==
    /\ syncTarget # NoCommit /\ releases' = Ingest(syncTarget, DateOf[syncTarget])
    /\ synced' = syncTarget /\ syncTarget' = NoCommit
    /\ UNCHANGED <<head, reportVars>>

\* The module is isolated: its failure is reported, the next sync tries again.
FailSync ==
    /\ syncTarget # NoCommit /\ syncTarget' = NoCommit
    /\ UNCHANGED <<head, releases, synced, reportVars>>

-----------------------------------------------------------------------------
(* Reports of the installation *)

Upgrade(c) ==
    /\ c \in Reached /\ c # installed /\ installed' = c
    /\ UNCHANGED <<catalogVars, lastReport, lastSeenAt, reported, sentAt, unknownDates,
                   reportClock, lookupFaults>>

Awaiting == {r \in Reporters : reported[r] # NoCommit}

\* touchOnReport of a full report: the time is taken before the lookups.
StartReport(r) ==
    /\ r \notin Awaiting /\ installed # NoCommit
    /\ reportClock < MaxReports /\ reportClock' = reportClock + 1
    /\ reported' = [reported EXCEPT ![r] = installed]
    /\ sentAt' = [sentAt EXCEPT ![r] = reportClock']
    /\ UNCHANGED <<catalogVars, installed, lastReport, lastSeenAt, unknownDates, lookupFaults>>

\* resolveCommitDate fails for a moment and remembers that there is no date.
LookupFails(r) ==
    /\ r \in Awaiting /\ reported[r] \notin unknownDates
    /\ lookupFaults < MaxLookupFaults /\ lookupFaults' = lookupFaults + 1
    /\ unknownDates' = unknownDates \union {reported[r]}
    /\ UNCHANGED <<catalogVars, installed, lastReport, lastSeenAt, reported, sentAt, reportClock>>

PinDate(c) == IF c \in unknownDates THEN NoDate ELSE DateOf[c]

WriteReport(r) ==
    /\ r \in Awaiting
    /\ lastReport' = [commit |-> reported[r], date |-> PinDate(reported[r])]
    /\ lastSeenAt' = sentAt[r]
    /\ reported' = [reported EXCEPT ![r] = NoCommit] /\ sentAt' = [sentAt EXCEPT ![r] = 0]
    /\ UNCHANGED <<catalogVars, installed, unknownDates, reportClock, lookupFaults>>

Ping ==
    /\ reportClock < MaxReports /\ reportClock' = reportClock + 1 /\ lastSeenAt' = reportClock'
    /\ UNCHANGED <<catalogVars, installed, lastReport, reported, sentAt, unknownDates,
                   lookupFaults>>

\* The process of the hub restarts: its cache and its requests are gone.
RestartHub ==
    /\ unknownDates' = {} /\ syncTarget' = NoCommit
    /\ reported' = [r \in Reporters |-> NoCommit] /\ sentAt' = [r \in Reporters |-> 0]
    /\ UNCHANGED <<head, releases, synced, installed, lastReport, lastSeenAt,
                   reportClock, lookupFaults>>

HubNext ==
    \/ PushCommit \/ StartSync \/ FinishSync \/ FailSync \/ Ping \/ RestartHub
    \/ \E c \in Commits : Deliver(c, DateOf[c]) \/ Deliver(c, NoDate) \/ Upgrade(c)
    \/ \E r \in Reporters : StartReport(r) \/ LookupFails(r) \/ WriteReport(r)

HubSpec == HubInit /\ [][HubNext]_hubVars

-----------------------------------------------------------------------------
(* Properties *)

\* The selection does not depend on the order in which the rows are read.
PickIsOrderFree ==
    \A rows \in SetToSeqs(releases) : rows # << >> => PickLatest(rows) = Latest

\* A late delivery of an older push does not shadow a newer release (R23-04):
\* the catalogued release is as recent as every sync that completed.
SyncsAreKept ==
    synced # NoCommit => Latest.date # NoDate /\ Latest.date >= DateOf[synced]

\* Once the catalog is in step with the branch, the hint of a pin whose date is
\* known says exactly whether something newer than the pin was committed, also
\* for a pin that was reported while its date could not be looked up before.
HintIsExact ==
    (synced # NoCommit /\ synced = head /\ lastReport.date # NoDate) =>
        (UpdateAvailable <=> DateOf[head] > DateOf[lastReport.commit])

\* Whatever order pushes and syncs come in, delivered again or late, the catalog
\* has one latest release, it is not older than what was synced, and pins are
\* compared with it by the date of their commit.
CatalogIsCurrent == PickIsOrderFree /\ SyncsAreKept /\ HintIsExact
=============================================================================
