SPECIFICATION Spec
CONSTANTS
    None = None
    Canonical <- MCCanonical
    Column <- MCColumn
    Lower <- MCLower
    Pascal <- MCPascal
    Releases <- MCReleases
    Additions <- MCAdditions
    Others = {"crm"}
    Addon <- MCAddon
    Rights <- MCRights
INVARIANTS
    ServedIsWhole
    GrantsCoverFields
    MenuReachable
    
