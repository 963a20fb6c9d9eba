SPECIFICATION Spec
CONSTANTS
    ann = ann
    seeder = seeder
    job = job
    Callers = {job}
    Ids = {r1}
    Fields <- MCFields
    Texts <- MCTexts
    Empty = ""
    Nil = Nil
    Fold <- MCFold
    Holding <- MCHolding
    Matching <- MCMatching
    Rank <- MCRank
    Star = Star
    NoRecord = NoRecord
    UserOf <- UserOfClients
    Internal = Internal
    RolesOf <- MCRolesOf
    Resource <- MCResource
    Required <- MCRequired
    Readonly <- MCReadonly
    Default <- MCDefault
    Valid <- MCValid
    HookWrites <- NoHooks
    CreateWith <- CreateOwned
    UpdateWith <- NoChanges
    Booted <- FullAccess
    Queries <- MCQueries
    Searches <- MCSearches
    Seeds <- Tied
    Indexings <- NotIndexing
    MaxClock = 4
    Faults = FALSE
CHECK_DEADLOCK FALSE
INVARIANTS
    DenyBeatsAllow
