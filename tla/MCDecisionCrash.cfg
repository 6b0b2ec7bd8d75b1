\* One hook; audit writes may be lost and the host may crash.
CONSTANTS
    r1 = r1
    r2 = r2
    n1 = n1
    n2 = n2
    Requests = {r1}
    Nonces = {n1}
    Payload <- OneAsk
    WaitTimeout = 2
    ReadTimeout = 1
    StoreMayFail = TRUE
    HostMayCrash = TRUE
SPECIFICATION Spec
INVARIANTS TypeOK OutputIsTheChoice DeliveredWasWritten 
PROPERTY AuditIsFinal
CHECK_DEADLOCK FALSE
