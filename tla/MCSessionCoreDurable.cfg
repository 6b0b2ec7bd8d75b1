SPECIFICATION Spec
CONSTANTS
    k1 = k1
    k2 = k2
    l1 = l1
    Keys = {k1, k2}
    Labels = {l1}
    Commands <- MCCommands
    MaxSessions = 1
    MaxEvents = 1
    StaleAfter = 1
    MaxTime = 1
    MaxSeq = 2
    FailingWrites = TRUE
    FailingTicks = TRUE
    Restarts = TRUE
    Purges = {"retention"}
    Samples = FALSE
    AttentionCapability = "Full"
    Starts = {"Running"}
    Updates = {"Waiting", "Running"}
    Ends = {"Completed"}
    Raised = {}
    Keyed = {TRUE}
    Others = {"LifecycleEvent", "RemoveSession"}
SYMMETRY KeySymmetry
INVARIANTS
    TypeOK
    NoSessionIsLeftOut
    StoredEndIsFinal
    AnsweredIsStored
    NextEventIsNew
