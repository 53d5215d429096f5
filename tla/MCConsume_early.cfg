SPECIFICATION Spec
CONSTANTS
    Kinds <- MCAckAndDeliver
    MaxQueue = 1
    Timeouts <- MCFour
    MaxTime = 4
    Jumps <- MCNoJumps
    FramePutBack = TRUE
    TicksPerUsec = 1
    UsecPerSec = 2
INVARIANT
    TimesOutAfterTimeout
