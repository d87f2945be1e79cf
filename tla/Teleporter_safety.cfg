SPECIFICATION FairSpec
CONSTANTS
    MaxWork = 1
    Faults = {"ssh", "capturer", "deadline", "bind", "network", "retry", "restorer", "os", "interrupt", "signal", "source", "dest"}
    TimeoutFlagParses = TRUE
INVARIANT TypeOK
INVARIANT CommitAfterRestore
INVARIANT CompleteIsExact
INVARIANT NoChildLeftBehind
INVARIANT TransmitterHasSnapshot
INVARIANT StoppedIsReported
INVARIANT ExitStatusIsHonest
PROPERTY StateMachine
PROPERTY NoResumeAfterCommit
PROPERTY ImplementsHandoff
PROPERTY HeldBySshOnly
PROPERTY TraceEnds
CHECK_DEADLOCK FALSE
