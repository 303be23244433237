SPECIFICATION FairSpec
CONSTANTS
    v1 = v1
    v2 = v2
    r1 = r1
    r2 = r2
    View = {v1, v2}
    Req = {r1, r2}
    Impatient = {r2}
    IsoLevel <- Levels
    Calls <- OnViews
    MaxActiveViews = 2
    MaxAggregatedViews = 2
    MinBatchKeys = 2
    MaxConns = 1
    MaxVersion = 2
INVARIANTS
    ViewConsistent
PROPERTIES
    ConnsReturned
    Answered
CHECK_DEADLOCK FALSE
