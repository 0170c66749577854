CONSTANTS
    Service <- Services
    Document <- Documents
    Started <- Factories
    Manual <- AtStart
    Failures = {}
    MaxDocuments = 2
    MaxLosses = 1
    None = None
    MaxClicks = 2
    MaxLoads = 1
SPECIFICATION FairSpec
INVARIANTS
    TypeOK
    ServiceIsListed
    ListIsOfOneService
    PageAgreesWithSelection
    OfferedHasGraphs
PROPERTIES
    SelectionIsShown
CHECK_DEADLOCK FALSE
