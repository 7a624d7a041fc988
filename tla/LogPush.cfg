CONSTANTS
    Payloads <- MCPayloads
    maxRequestSize <- MCMaxRequestSize
    MaxCalls = 2
    MaxRepeats = 1
SPECIFICATION FairSpec
CHECK_DEADLOCK FALSE
INVARIANTS
    RequestsLegal
    EachEntryOnce
    NothingForgotten
    StoredAtMostPerCall
PROPERTIES
    PushReturns
