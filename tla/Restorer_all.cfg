SPECIFICATION Spec
CONSTANTS
    Width = 16
    UserSpaceLimit = 5
    Snapshots <- MCAll
    Faults = {"kernel", "stub", "signal", "death", "open", "stdout"}
INVARIANT TypeOK
INVARIANT AcceptedIsDisjoint
INVARIANT CopyIsExact
INVARIANT ExitTellsChild
INVARIANT NoForeignDescriptor
PROPERTY ImplementsTeleporter
PROPERTY RestoreEnds
CHECK_DEADLOCK FALSE
