\* A provider mounted twice, as StrictMode does in development builds.
CONSTANTS
    w1 = w1
    w2 = w2
    i1 = i1
    i2 = i2
    Windows = {w1}
    Items = {i1, i2}
    Connects = {"connect", "again"}
    Resyncs = {"resync"}
    MaxSeq = 3
    Capacity = 2
    OversizeMayHappen = TRUE
    SendMayFail = TRUE
SPECIFICATION FairSpec
 
PROPERTY ResyncEnds
CHECK_DEADLOCK FALSE
