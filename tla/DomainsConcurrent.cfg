SPECIFICATION Spec
CONSTANTS
    Compiled = {"hr"}
    Dynamic = {"hrLeave"}
    CompiledOrder <- OneCompiled
    DynamicOrder <- OneDynamic
    Docs = {"hrBadge", "hrLeaves", "leave", "approval"}
    CodeDocs = {"hrV1"}
    DocApp <- MCDocApp
    Content <- MCContent
    Fields <- MCFields
    Columns <- MCColumns
    Entries <- MCEntries
    Bundles <- Backup
    Callers = {c1, c2}
    Faults = {}
    MaxCalls = 3
    MaxFailures = 0
    MaxCrashes = 0
    MaxUpgrades = 0
    NoLayer = NoLayer
    NoApp = NoApp
    NoCaller = NoCaller
    NoChange = NoChange
CHECK_DEADLOCK FALSE
INVARIANTS
    TypeOK
    SurfaceIntact
    LoadedAgree
    DeclaredAreActive
    NoStaleEntries
PROPERTIES
    OthersUntouched
    StoredIsMounted
