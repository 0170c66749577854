CONSTANTS
    Method <- Methods
    SelfLink <- SampleLink
    UriPath <- UriPaths
    Param <- SampleParams
    Order <- Orders
    Value <- Values
    None = None
SPECIFICATION Spec
INVARIANTS
    RoundTrip
    InputsSpellPath
CHECK_DEADLOCK FALSE
