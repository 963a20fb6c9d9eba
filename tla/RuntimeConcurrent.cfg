SPECIFICATION Spec
CONSTANTS
    Dbs = {d1, d2}
    Clients = {c1, c2}
    Kinds <- NoImport
    Faults = {"admin", "build", "save"}
    CodeModels = FALSE
    MaxRequests = 3
    MaxFailures = 1
    MaxCrashes = 1
    MaxStops = 1
    NoDb = NoDb
    NoClient = NoClient
CHECK_DEADLOCK FALSE
SYMMETRY BothSymmetry
INVARIANTS
    TypeOK
    ActiveAgree
    HandlerOpen
    OneOpen
    CatalogExists
    ServedOrNewer
