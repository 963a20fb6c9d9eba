SPECIFICATION FairSpec
CONSTANTS
    Dbs = {d1, d2}
    Clients = {c1, c2}
    Kinds <- Sharing
    Faults = {"build", "panic", "cancel"}
    CodeModels = TRUE
    MaxRequests = 2
    MaxFailures = 1
    MaxCrashes = 0
    MaxStops = 0
    NoDb = NoDb
    NoClient = NoClient
CHECK_DEADLOCK FALSE
PROPERTIES
    RequestsReturn
