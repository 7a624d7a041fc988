CONSTANTS
    Payloads <- MCLargePayloads
    maxRequestSize <- MCMaxRequestSize
    MaxCalls = 1
    MaxRepeats = 1
SPECIFICATION FairSpec
CHECK_DEADLOCK FALSE
PROPERTIES
    LargePayloadsAreSplit
