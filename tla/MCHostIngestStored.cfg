SPECIFICATION HostSpec
CONSTANTS
    k1 = k1
    k2 = k2
    l1 = l1
    Keys = {k1, k2}
    Labels = {l1}
    Commands <- MCCommands
    MaxSessions = 1
    MaxEvents = 2
    StaleAfter = 1
    MaxTime = 0
    MaxSeq = 3
    FailingWrites = TRUE
    FailingTicks = FALSE
    Restarts = FALSE
    Purges = {}
    Samples = FALSE
    AttentionCapability = "Full"
    Workers = {"ipc", "maintenance"}
    Messages <- MCMessages
    MaxJobs = 3
    Local = {k1}
    Remote = {k2}
    Asked = {"Running", "Completed"}
    Kinds = {}
    Rooted = {FALSE}
    Raised = {"None"}
INVARIANTS
    AcknowledgedIsStored
CHECK_DEADLOCK FALSE
