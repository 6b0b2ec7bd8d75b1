SPECIFICATION HostSpec
CONSTANTS
    k1 = k1
    k2 = k2
    l1 = l1
    Keys = {k1, k2}
    Labels = {l1}
    Commands <- MCCommands
    MaxSessions = 1
    MaxEvents = 2
    StaleAfter = 1
    MaxTime = 1
    MaxSeq = 3
    FailingWrites = FALSE
    FailingTicks = FALSE
    Restarts = TRUE
    Purges = {}
    Samples = FALSE
    AttentionCapability = "Full"
    Workers = {"ipc", "relay", "maintenance"}
    Messages <- MCMessages
    MaxJobs = 3
    Local = {k1}
    Remote = {k2}
    Asked = {"Starting", "Waiting", "Completed", "Stale"}
    Kinds = {"event", "remove"}
    Rooted = {TRUE}
    Raised = {"None", "Permission"}
INVARIANTS
    AcknowledgedTookEffect
    ViewIsCurrent
CHECK_DEADLOCK FALSE
