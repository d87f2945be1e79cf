SPECIFICATION Spec
CONSTANTS
    Width = 6
    UserSpaceLimit = 4
    Spaces <- MCSpaces
    Tables <- MCTables
    Signals = {}
    MayKill = FALSE
    MaxSteps = 1
INVARIANT NoMappingMissed
CHECK_DEADLOCK FALSE
