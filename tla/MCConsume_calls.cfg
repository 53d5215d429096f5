SPECIFICATION FairSpec
CONSTANTS
    Kinds <- MCAllKinds
    MaxQueue = 2
    Timeouts <- MCZeroOrOne
    MaxTime = 0
    Jumps <- MCNoJumps
    FramePutBack = FALSE
    TicksPerUsec = 1
    UsecPerSec = 2
INVARIANTS
    ResultIsTruthful
    NoFrameSwallowed
    BuffersHeldForCallback
PROPERTIES
    KeepsPromise
    WantedFrameEndsCall
    TimedConsumeReturns
    TimedReturnsWhenQuiet
