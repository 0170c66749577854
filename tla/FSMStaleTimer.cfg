CONSTANTS
    None = None
    State <- TaskStates
    Trigger <- TaskTriggers
    Guard <- NoGuards
    Config <- TaskConfig
    InitState = "Start"
    InitialTrigger = "Go"
    Accepted <- TaskAccepted
    PostState <- TaskPosts
    PatchBody <- TaskPatches
    GetsFail = FALSE
    MaxOps = 4
    MaxClientOps = 1
    MaxCrashes = 0
SPECIFICATION Spec
INVARIANT
    ExpiryEndsItsOwnStay
CHECK_DEADLOCK FALSE
