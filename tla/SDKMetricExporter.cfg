CONSTANTS
    Exports = {"e1", "e2"}
    Stops = {"s1", "s2"}
    MetricsOf <- MCMetricsOf
    Keys = {"k1", "k2"}
    Types = {"t1", "t2"}
    sendBatchSize = 2
    None = None
SPECIFICATION FairSpec
CHECK_DEADLOCK FALSE
INVARIANTS
    PointsAccountedFor
    DescribedOnce
    StopIsFinal
PROPERTIES
    CallsReturn
