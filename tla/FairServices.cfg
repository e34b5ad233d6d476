SPECIFICATION ServedSpec
CONSTANTS
    Clients = {c1, c2}
    Criteria = {k1, k2}
    Readers = {r1}
    NoClient = noclient
    Phases <- ThreePhases
    TokenBudget = 3
    Usages = {0, 2}
    MaxToolRounds = 2
    Reports = {x1, x2}
    Apps = {a1, a2}
    AppOf <- EachItsApp
    Destinations <- TwoKinds
    Drains = {d1, d2}
    BatchSize = 2
    MaxAttempts = 2
    MaxDeadLetters = 1
    MaxLosses = 1
    Versions = {1, 2}
    Contents = {s1, s2}
    NoFile = nofile
    Statements = 2
    Runners = {m1, m2}
    MaxWorkspaceEdits = 3
    MaxRunFaults = 1
INVARIANT FairTypeOK
INVARIANT RubricHolds
INVARIANT EarlyStopsAreOnRecord
 
INVARIANT HistoryIsSound
PROPERTY RequestsFinish
PROPERTY JudgmentEnds
PROPERTY ReportsSettle
PROPERTY WorkspaceIsApplied
CHECK_DEADLOCK FALSE
