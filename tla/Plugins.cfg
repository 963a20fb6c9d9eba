SPECIFICATION Spec
CONSTANTS
    Star = Star
    None = None
    Registered <- MCRegistered
    Extends <- MCExtends
    Extensible = {"notes"}
    Paths <- MCPaths
    Manifest <- MCManifest
    Clients = {c1}
    Points <- MCPoints
    Ops = {"create"}
    MaxBuilds = 2
    MaxFailures = 1
    MaxWrites = 2
CHECK_DEADLOCK FALSE
INVARIANTS
    NothingLeftBehind
    HealthyAnswer
PROPERTIES
    RunsByPriority
    RequestsEnd
