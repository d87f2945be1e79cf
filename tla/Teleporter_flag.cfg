SPECIFICATION FairChildrenSpec
CONSTANTS
    MaxWork = 2
    Faults = {}
    TimeoutFlagParses = FALSE
PROPERTY FaultFreeCompletes
CHECK_DEADLOCK FALSE
