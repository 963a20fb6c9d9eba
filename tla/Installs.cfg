SPECIFICATION Spec
CONSTANTS
    Apps <- MCApps
    Releases <- MCReleases
    Depends <- MCDepends
    Uses <- MCUses
    Provides <- MCProvides
    AutoInstall = {"core"}
    EnvLists <- MCEnvLists
    Callers = {c1, c2}
    None = None
    MaxCalls = 2
    MaxFailures = 1
    MaxRestarts = 2
CHECK_DEADLOCK FALSE
INVARIANTS
    DependsLoaded
    StampedIsMigrated
PROPERTIES
    InstalledComesBack
    UpgradeStaysVisible
    CallsReturn
