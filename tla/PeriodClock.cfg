CONSTANTS
    Nil = Nil
    MaxInt = 1
    TicksPerDay = 2
    MaxDuration = 213503
    Anchors <- MCAnchors
    FirstTick <- MCFirstTick
    LastTick = 1500
SPECIFICATION Spec
INVARIANTS InsidePeriod OnAnchorDay
PROPERTIES Seamless
CHECK_DEADLOCK FALSE
