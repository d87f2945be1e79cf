SPECIFICATION Spec
CONSTANTS
    Width = 6
    UserSpaceLimit = 4
    Spaces <- MCSpaces
    Tables <- MCTables
    Signals = {"USR1"}
    MayKill = TRUE
    MaxSteps = 2
INVARIANT TypeOK
INVARIANT SnapshotOfOneInstant
INVARIANT StoppedOnlyByKill
INVARIANT OnlyTouchedIsWrong
INVARIANT CapturedIsRestorable
PROPERTY ImplementsTeleporter
PROPERTY TraceIsReleased
CHECK_DEADLOCK FALSE
