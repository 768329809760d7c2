SPECIFICATION ServerSpec
CONSTANTS
    StartVersions = {2}
    MaxStops = 0
    Handlers = {h1, h2}
    Free = Free
    MaxFailures = 0
INVARIANT LoadedMeansLoaded
