SPECIFICATION ServicesSpec
CONSTANTS
    r1 = r1
    r2 = r2
    r3 = r3
    f1 = f1
    f2 = f2
    k1 = k1
    k2 = k2
    Runs = {r1, r2, r3}
    Findings = {f1, f2}
    Keys = {k1, k2}
    KeyOf <- SplitKeys
    NoRun = norun
    NoFinding = nofinding
    MaxDecisions = 2
    Requests = {q1, q2}
    Refs = {a1, a2}
    Anchors = {a1}
    Checkpoints = {i1, i2}
    Progress = {begun, met}
    Planned = planned
    e1 = e1
    e2 = e2
    session = session
    document = document
    advocate = advocate
    Items = {e1, e2}
    Phantoms = {advocate}
    NoBreakdown = nobreakdown
    SourceOf <- TwoSources
    UnlinkedBuckets <- AnyUnlinked
    CollectorBuckets <- AnyBucket
    JudgmentBuckets <- AnyJudgmentBucket
    Periods = {p1, p2, p3}
    Planners = {c1, c2}
    PeriodTypes = {collection, review}
    Horizon = 3
    RubricDate = 1
INVARIANT ServicesAreWellFormed
INVARIANT LatestRunDecides
INVARIANT CoverageIsFaithful
PROPERTY SuppressionIsHuman
PROPERTY ResolutionsAreSound
PROPERTY DecisionIsFinal
PROPERTY PeriodsAreSound
CHECK_DEADLOCK FALSE
