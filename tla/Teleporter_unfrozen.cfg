SPECIFICATION Spec
CONSTANTS
    MaxWork = 2
    Faults = {"deadline"}
    TimeoutFlagParses = TRUE
INVARIANT RolledBackIsUnfrozen
CHECK_DEADLOCK FALSE
