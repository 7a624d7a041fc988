CONSTANTS
    p1 = p1
    p2 = p2
    Empty = Empty
    Pushers <- MCPushers
    BatchesOf <- MCBatchesOf
    MaxAttempts = 1
    MaxCrashes = 0
    MaxFaults = 0
    CtxMayCancel = FALSE
SPECIFICATION Spec
CHECK_DEADLOCK FALSE
INVARIANT DroppedOnlyWhenPermanent
