SPECIFICATION FairServerSpec
CONSTANTS
    StartVersions = {0, 1, 2, 99}
    MaxStops = 2
    Handlers = {h1, h2}
    Free = Free
    MaxFailures = 1
INVARIANTS
    ServerTypeOK
    VersionIsEarned
    ServesCompleteSchema
    ClassifierBuiltOnce
PROPERTIES
    StartUpCompletes
    CallsEnd
