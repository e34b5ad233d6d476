SPECIFICATION CoverageSpec
CONSTANTS
    e1 = e1
    e2 = e2
    session = session
    document = document
    advocate = advocate
    Items = {e1, e2}
    Phantoms = {advocate}
    NoBreakdown = nobreakdown
    SourceOf <- TwoSources
    UnlinkedBuckets <- AnyUnlinked
    CollectorBuckets <- WorkCollectorBucket
    JudgmentBuckets <- WorkJudgmentBucket
INVARIANT ValidReportsAccepted
CHECK_DEADLOCK FALSE
