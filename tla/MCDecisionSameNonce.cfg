\* One nonce is sent twice.
CONSTANTS
    r1 = r1
    r2 = r2
    n1 = n1
    n2 = n2
    Requests = {r1, r2}
    Nonces = {n1}
    Payload <- SameNonce
    WaitTimeout = 1
    ReadTimeout = 1
    StoreMayFail = FALSE
    HostMayCrash = FALSE
SPECIFICATION Spec
INVARIANTS NoOrphanedDecision OutputIsTheChoice
CHECK_DEADLOCK FALSE
