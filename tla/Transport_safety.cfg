SPECIFICATION Spec
CONSTANTS
    Base = 8
    PageSize = 2
    MaxSnapshotBytes = 4
    MaxRetries = 1
    Snapshots <- MCSnapshots
    XXHash64 <- MCHash
INVARIANT TypeOK
INVARIANT ReceivedIsSent
INVARIANT ReceiverInStep
INVARIANT ErrorMeansUncommitted
PROPERTY ImplementsTeleporter
PROPERTY TransferEnds
CHECK_DEADLOCK FALSE
