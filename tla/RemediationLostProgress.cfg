SPECIFICATION PlanSpec
CONSTANTS
    Requests = {c1, c2}
    Refs = {a1, a2}
    Anchors = {a1}
    Checkpoints = {i1, i2}
    Progress = {begun, met}
    Planned = planned
SYMMETRY Symmetry
CHECK_DEADLOCK FALSE
INVARIANT ProgressIsKept
