\* Does the hook wait as long as the decision is open?
CONSTANTS
    r1 = r1
    r2 = r2
    n1 = n1
    n2 = n2
    Requests = {r1}
    Nonces = {n1}
    Payload <- OneAsk
    WaitTimeout = 2
    ReadTimeout = 1
    StoreMayFail = FALSE
    HostMayCrash = FALSE
SPECIFICATION Spec
INVARIANT OpenDecisionHasHook
CHECK_DEADLOCK FALSE
