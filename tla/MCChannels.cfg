SPECIFICATION Spec
CONSTANTS
    Handles = {a, b, c}
    Ids <- MCIds
    MaxOpens = 3
SYMMETRY HandleSymmetry
\* a program that called std::terminate stops
CHECK_DEADLOCK FALSE
INVARIANTS
    TypeOK
    OneCloserPerChannel
    UsedChannelsHoldNoReplies
PROPERTIES
    KeepsChannelPromise
    DestructorsCloseNothingOlder
