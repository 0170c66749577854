CONSTANTS
    None = None
    State <- PhoneStates
    Trigger <- PhoneTriggers
    Guard <- NoGuards
    Config <- PhoneConfig
    InitState = "OffHook"
    InitialTrigger = "CallDialed"
    Accepted <- PhoneAccepted
    PostState <- PhonePosts
    PatchBody <- PhonePatches
    GetsFail = TRUE
    MaxOps = 3
    MaxClientOps = 2
    MaxCrashes = 1
SPECIFICATION Spec
INVARIANT
    InitialTransitionOnlyAtCreation
CHECK_DEADLOCK FALSE
