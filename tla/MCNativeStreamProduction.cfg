\* One connect task per window; frames may be dropped and sends may fail.
CONSTANTS
    w1 = w1
    w2 = w2
    i1 = i1
    i2 = i2
    Windows = {w1}
    Items = {i1, i2}
    Connects = {"connect"}
    Resyncs = {"resync"}
    MaxSeq = 4
    Capacity = 2
    OversizeMayHappen = TRUE
    SendMayFail = TRUE
SPECIFICATION FairSpec
INVARIANTS TypeOK  NeverResyncs
 
CHECK_DEADLOCK FALSE
