SPECIFICATION BenchSpec
CONSTANTS
    p1 = p1
    p2 = p2
    Processes = {p1, p2}
    Keys = {1, 2}
    Crons = {"hourly", "daily", "odd"}
    InvalidCrons = {"odd"}
    Declared <- DeclaredSettings
    DatabaseEdits <- ValidEdits
    NoRow = norow
    NoCron = nocron
    Executions = {e1, e2}
    MaxEdits = 1
    MaxReadings = 2
    MaxFaults = 1
    MaxCrashes = 1
    Evaluators = {v1, v2}
    NoEvaluator = noevaluator
    NoAlert = noalert
    Windows = 2
    MaxRedisFaults = 1
    MaxQueryFaults = 1
    MaxEarlyExpiries = 1
    MaxEvaluatorCrashes = 1
PROPERTY SkipsHaveAReason
CHECK_DEADLOCK FALSE
