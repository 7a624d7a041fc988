CONSTANTS
    Parts <- OnlyCharacters
    MaxBackoffs <- MCMaxBackoffs
    Pushes <- MCPushes
    Inputs <- MCInputs
    maxEntrySize <- MCMaxEntrySize
    spanDigits <- MCSpanDigits
    spanLimit <- MCSpanLimit
    configProject = "default"
    sendBatchSize = 2
    MaxPushCalls = 3
SPECIFICATION MCSpec
CHECK_DEADLOCK FALSE
INVARIANT CharactersWhole
