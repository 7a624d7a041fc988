CONSTANTS
    p1 = p1
    p2 = p2
    Empty = Empty
    Pushers <- MCPushers
    BatchesOf <- MCBatchesOf
    MaxAttempts = 1
    MaxCrashes = 0
    MaxFaults = 0
    CtxMayCancel = FALSE
SPECIFICATION FairSpec
CHECK_DEADLOCK FALSE
PROPERTY NoRequestStranded
