CONSTANTS
    Nil = Nil
    MaxInt = 1
    TicksPerDay = 2
    MaxDuration = 213503
    Anchors <- MCFarAnchors
    FirstTick <- MCFirstTick
    LastTick = 1500
SPECIFICATION Spec
INVARIANTS InsidePeriod
CHECK_DEADLOCK FALSE
