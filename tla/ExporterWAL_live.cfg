CONSTANTS
    p1 = p1
    p2 = p2
    Empty = Empty
    Pushers <- MCPushers
    BatchesOf <- MCOneEach
    MaxAttempts = 2
    MaxCrashes = 0
    MaxFaults = 0
    CtxMayCancel = TRUE
SPECIFICATION FairSpec
CHECK_DEADLOCK FALSE
INVARIANTS
    IndicesFresh
    FlushedWhenDone
PROPERTIES
    RunnerStops
    WokenRunnerDrains
    PushReturns
