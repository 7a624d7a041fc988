CONSTANTS
    p1 = p1
    p2 = p2
    Empty = Empty
    Pushers <- MCPushers
    BatchesOf <- MCBatchesOf
    MaxAttempts = 2
    MaxCrashes = 1
    MaxFaults = 1
    CtxMayCancel = TRUE
SPECIFICATION Spec
CHECK_DEADLOCK FALSE
INVARIANTS NoSilentLoss OkPushIsWhole NoDoubleExport
PROPERTIES ReceivedInOrder OutboxSpec
