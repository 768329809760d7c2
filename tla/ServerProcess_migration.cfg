SPECIFICATION FairServerSpec
CONSTANTS
    StartVersions = {1}
    MaxStops = 1
    Handlers = {h1}
    Free = Free
    MaxFailures = 0
PROPERTY MigrationCompletes
