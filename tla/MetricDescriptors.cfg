CONSTANTS
    p1 = p1
    p2 = p2
    d1 = d1
    d2 = d2
    d3 = d3
    None = None
    Pushers <- MCPushers
    Offers <- MCOffers
    Capacity = 2
SPECIFICATION FairSpec
CHECK_DEADLOCK FALSE
INVARIANTS
    DrainedWhenDone
PROPERTIES
    ReportedOnce
    SkippedOnlyIfAnswered
    NothingHangs
    QueuedIsTried
