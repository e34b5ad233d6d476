SPECIFICATION FairSpec
CONSTANTS
    Runs = {r1, r2}
    Slots = {s1}
    Replicas = {p1}
    NoSlot = noslot
    NoHost = nohost
    StaleAfter = 2
    Timely = FALSE
    MaxFaults = 1
    MaxCrashes = 1
PROPERTY AbandonedRunIsClosed
CHECK_DEADLOCK FALSE
