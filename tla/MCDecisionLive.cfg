\* Every wait comes back, every connection ends, and the path implements the decision life cycle.
CONSTANTS
    r1 = r1
    r2 = r2
    n1 = n1
    n2 = n2
    Requests = {r1}
    Nonces = {n1}
    Payload <- OnePlan
    WaitTimeout = 2
    ReadTimeout = 1
    StoreMayFail = FALSE
    HostMayCrash = TRUE
SPECIFICATION FairSpec
PROPERTIES LoopComesBack  ImplementsLifecycle
CHECK_DEADLOCK FALSE
