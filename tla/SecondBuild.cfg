SPECIFICATION Spec
CONSTANTS
    Dbs = {d1, d2}
    Clients = {c1}
    Kinds <- Selecting
    Faults = {}
    CodeModels = TRUE
    MaxRequests = 2
    MaxFailures = 0
    MaxCrashes = 0
    MaxStops = 0
    NoDb = NoDb
    NoClient = NoClient
CHECK_DEADLOCK FALSE
SYMMETRY DbSymmetry
PROPERTIES
    SelectingRebuilds
