SPECIFICATION Spec
CONSTANTS
    Handles = {a, b, c}
    Ids <- MCIds
    MaxOpens = 2
\* a program that called std::terminate stops
CHECK_DEADLOCK FALSE
INVARIANT
    AsyncThrowsForItself
