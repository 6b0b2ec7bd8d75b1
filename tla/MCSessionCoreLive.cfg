SPECIFICATION LiveSpec
CONSTANTS
    k1 = k1
    k2 = k2
    l1 = l1
    Keys = {k1, k2}
    Labels = {l1}
    Commands <- MCCommands
    MaxSessions = 1
    MaxEvents = 1
    StaleAfter = 1
    MaxTime = 1
    MaxSeq = 1
    FailingWrites = TRUE
    FailingTicks = FALSE
    Restarts = FALSE
    Purges = {}
    Samples = TRUE
    AttentionCapability = "Partial"
    Starts = {"Running"}
    Updates = {}
    Ends = {"Completed"}
    Raised = {"None"}
    Keyed = {TRUE, FALSE}
    Others = {"RemoveSession"}

    
PROPERTIES
    EndIsStoredEventually
