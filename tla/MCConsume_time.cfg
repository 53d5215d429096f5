SPECIFICATION Spec
CONSTANTS
    Kinds <- MCContents
    MaxQueue = 1
    Timeouts <- MCZeroOrThree
    MaxTime = 3
    Jumps <- MCBothWays
    FramePutBack = TRUE
    TicksPerUsec = 2
    UsecPerSec = 2
INVARIANTS
    TypeOK
    WaitsAtMostTimeout
    TimeoutNotEarly
PROPERTIES
    TimeoutShrinks
