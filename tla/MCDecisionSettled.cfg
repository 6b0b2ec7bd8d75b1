\* Does every accepted answer end?
CONSTANTS
    r1 = r1
    r2 = r2
    n1 = n1
    n2 = n2
    Requests = {r1}
    Nonces = {n1}
    Payload <- OneAsk
    WaitTimeout = 2
    ReadTimeout = 1
    StoreMayFail = FALSE
    HostMayCrash = FALSE
SPECIFICATION FairSpec
PROPERTY AnswerIsSettled
CHECK_DEADLOCK FALSE
