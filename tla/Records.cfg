SPECIFICATION Spec
CONSTANTS
    ann = ann
    seeder = seeder
    job = job
    Callers = {ann, job}
    Ids = {r1}
    Fields <- MCFields
    Texts <- MCTexts
    Empty = ""
    Nil = Nil
    Fold <- MCFold
    Holding <- MCHolding
    Matching <- MCMatching
    Rank <- MCRank
    Star = Star
    NoRecord = NoRecord
    UserOf <- UserOfClients
    Internal = Internal
    RolesOf <- MCRolesOf
    Resource <- MCResource
    Required <- MCRequired
    Readonly <- MCReadonly
    Default <- MCDefault
    Valid <- MCValid
    HookWrites <- MCHooks
    CreateWith <- CreateOne
    UpdateWith <- Changes
    Booted <- DropOpen
    Queries <- MCQueries
    Searches <- MCSearches
    Seeds = {}
    Indexings <- MCIndexings
    MaxClock = 3
    Faults = TRUE
CHECK_DEADLOCK FALSE
INVARIANTS
    StoredIsValid
    SearchExact
PROPERTIES
    UpdatesMerge
