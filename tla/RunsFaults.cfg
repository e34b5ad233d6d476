SPECIFICATION Spec
CONSTANTS
    Runs = {r1, r2}
    Slots = {s1}
    Replicas = {p1, p2}
    NoSlot = noslot
    NoHost = nohost
    StaleAfter = 1
    Timely = FALSE
    MaxFaults = 2
    MaxCrashes = 0
SYMMETRY Symmetry
INVARIANT TypeOK
INVARIANT WritesAreFenced
INVARIANT SweepersReportOnce
INVARIANT SettledOnceFaultless
PROPERTY RowsAreSound
PROPERTY ImplementsContract
CHECK_DEADLOCK FALSE
