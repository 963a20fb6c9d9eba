SPECIFICATION Spec
CONSTANTS
    Compiled = {"hr", "hrPay"}
    Dynamic = {"billing", "hrLeave"}
    CompiledOrder <- TwoCompiled
    DynamicOrder <- TwoDynamic
    Docs = {"hrBadge", "hrLeaves", "leave", "approval", "strict", "billing", "hrPayruns"}
    CodeDocs = {"hrV1", "hrV2", "payV1", "payV2"}
    DocApp <- MCDocApp
    Content <- MCContent
    Fields <- MCFields
    Columns <- MCColumns
    Entries <- MCEntries
    Bundles <- NoBundles
    Callers = {c1}
    Faults = {}
    MaxCalls = 3
    MaxFailures = 0
    MaxCrashes = 2
    MaxUpgrades = 1
    NoLayer = NoLayer
    NoApp = NoApp
    NoCaller = NoCaller
    NoChange = NoChange
CHECK_DEADLOCK FALSE
PROPERTIES
    AtomicToAuthor
    LoadAllComplete
