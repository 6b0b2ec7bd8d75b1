SPECIFICATION Spec
CONSTANTS
    k1 = k1
    l1 = l1
    l2 = l2
    Keys = {k1}
    Labels = {l1, l2}
    Commands <- MCCommands
    MaxSessions = 1
    MaxEvents = 2
    StaleAfter = 0
    MaxTime = 0
    MaxSeq = 3
    FailingWrites = FALSE
    FailingTicks = FALSE
    Restarts = TRUE
    Purges = {"events", "metrics", "retention"}
    Samples = TRUE
    AttentionCapability = "Full"
    Starts = {"Running"}
    Updates = {}
    Ends = {"Completed"}
    Raised = {"None", "Permission"}
    Keyed = {FALSE}
    Others = {"LifecycleEvent", "RemoveSession", "AcknowledgeAttention", "RegisterProcessRoot", "ClearProcessRoot"}
INVARIANTS
    SuppressedHasAlert
PROPERTIES
    RefusedNumberIsSkipped
