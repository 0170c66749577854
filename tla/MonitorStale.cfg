CONSTANTS
    Service <- Services
    Document <- Documents
    Started <- Factories
    Manual <- AtStart
    Failures = {}
    MaxDocuments = 2
    MaxLosses = 0
    None = None
    MaxClicks = 2
    MaxLoads = 1
SPECIFICATION Spec
INVARIANT
    SelectedIsShown
CHECK_DEADLOCK FALSE
