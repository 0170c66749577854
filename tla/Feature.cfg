CONSTANTS
    Token = {"Test", "Enabled", "notInitialized", "::"}
    Group <- OneGroup
    Name <- TwoNames
    Separator = "::"
    Absent = Absent
    SetupMayFail = TRUE
    MaxVersions = 3
    MaxUpdates = 5
    MaxCrashes = 1
SPECIFICATION FairSpec
INVARIANTS TypeOK CacheHoldsAVersion CacheUpToDate
PROPERTY FlagsSpec CacheCatchesUp
