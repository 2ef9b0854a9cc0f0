SPECIFICATION Spec
CONSTANTS
    Kinds <- MCKinds
    Prereleases <- MCPrereleases
    Listings <- MCListings
    First = 1
    MaxProcesses = 2
    MaxAlterations = 1
CHECK_DEADLOCK FALSE
INVARIANT NeverPartial
