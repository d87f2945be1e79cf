SPECIFICATION Spec
CONSTANTS
    MaxWork = 2
    Faults = {"deadline"}
    TimeoutFlagParses = TRUE
INVARIANT RestoreErrorMeansNoCopy
CHECK_DEADLOCK FALSE
