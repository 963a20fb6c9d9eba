SPECIFICATION FairSpec
CONSTANTS
    Compiled = {"hr"}
    Dynamic = {"hrLeave"}
    CompiledOrder <- OneCompiled
    DynamicOrder <- OneDynamic
    Docs = {"hrBadge", "leave", "approval"}
    CodeDocs = {"hrV1"}
    DocApp <- MCDocApp
    Content <- MCContent
    Fields <- MCFields
    Columns <- MCColumns
    Entries <- MCEntries
    Bundles <- NoBundles
    Callers = {c1, c2}
    Faults = {"read", "ddl", "security", "append"}
    MaxCalls = 2
    MaxFailures = 2
    MaxCrashes = 1
    MaxUpgrades = 0
    NoLayer = NoLayer
    NoApp = NoApp
    NoCaller = NoCaller
    NoChange = NoChange
CHECK_DEADLOCK FALSE
INVARIANTS
    SurfaceIntact
PROPERTIES
    CallsReturn
    ComesUp
