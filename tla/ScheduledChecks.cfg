SPECIFICATION FairComposedSpec
CONSTANTS
    Processes = {p1}
    Keys = {1}
    Crons = {"hourly"}
    InvalidCrons = {}
    Declared <- DeclaredSettings
    DatabaseEdits = {}
    NoRow = norow
    NoCron = nocron
    Executions = {e1, e2}
    MaxEdits = 0
    MaxReadings = 1
    MaxFaults = 0
    MaxCrashes = 1
    Cycles = {e1, e2}
    Editors = {u1}
    FailureThreshold = 2
    RecoveryThreshold = 2
    MaxAborts = 0
INVARIANT ChecksAreConsistent
 
CHECK_DEADLOCK FALSE
