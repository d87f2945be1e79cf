SPECIFICATION Spec
CONSTANTS
    MaxWork = 2
    Faults = {}
    TimeoutFlagParses = TRUE
INVARIANT NoWorkLost
CHECK_DEADLOCK FALSE
