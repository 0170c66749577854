CONSTANTS
    None = None
    State <- TaskStates
    Trigger <- TaskTriggers
    Guard <- NoGuards
    Config <- TaskConfig
    InitState = "Start"
    InitialTrigger = "Go"
    Accepted <- TaskAccepted
    PostState <- TaskPosts
    PatchBody <- TaskPatches
    GetsFail = FALSE
    MaxOps = 4
    MaxClientOps = 1
    MaxCrashes = 1
SPECIFICATION Spec
INVARIANT
    ExpiryIsPending
CHECK_DEADLOCK FALSE
