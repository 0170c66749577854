CONSTANTS
    None = None
    State <- SampleStates
    Trigger <- SampleTriggers
    Guard <- SampleGuards
    Config <- SampleConfig
    InitState = "InitialState"
    InitialTrigger = None
    Accepted <- SampleAccepted
    PostState <- SamplePosts
    PatchBody <- SamplePatches
    GetsFail = TRUE
    MaxOps = 3
    MaxClientOps = 2
    MaxCrashes = 1
SPECIFICATION Spec
INVARIANTS
    AnswersMatchIndex
    SlotHeldForAReason
    HandlersOverlapForAReason
    ExpiryMissingForAReason
CHECK_DEADLOCK FALSE
