SPECIFICATION Spec
CONSTANTS
    Base = 8
    PageSize = 2
    MaxSnapshotBytes = 20
    MaxRetries = 1
    Snapshots <- MCLongSnapshots
    XXHash64 <- MCHash
INVARIANT ReceivesFullSnapshot
CHECK_DEADLOCK FALSE
