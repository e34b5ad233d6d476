SPECIFICATION Spec
CONSTANTS
    Runs = {r1}
    Slots = {s1}
    Replicas = {p1}
    NoSlot = noslot
    NoHost = nohost
    StaleAfter = 1
    Timely = FALSE
    MaxFaults = 0
    MaxCrashes = 0
SYMMETRY Symmetry
INVARIANT TerminalEventOnce
CHECK_DEADLOCK FALSE
