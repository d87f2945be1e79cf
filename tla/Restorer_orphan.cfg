SPECIFICATION Spec
CONSTANTS
    Width = 16
    UserSpaceLimit = 5
    Snapshots <- MCSnapshots
    Faults = {"stub"}
INVARIANT NoOrphan
CHECK_DEADLOCK FALSE
