SPECIFICATION Spec
CONSTANTS
    top = top
    a = a
    b = b
    f = f
    nowhere = nowhere
    Order <- MCOrder
    Up <- MCUp
    NoPath = nowhere
    DirPaths <- MCDirs
    FilteredOut <- MCHidden
    Roots <- MCRoots
    Ops <- AllOps
    Keys <- AllKeys
    Filters <- BothFilters
    MaxScans = 2
    MaxTasks = 1
    MaxChanges = 0
    MaxHistory = 2
INVARIANTS
    CurrentAlive
    TableFollowsCurrent
    FilterAgrees
    ErrorMeansUntouched
    TreemapCurrent
CHECK_DEADLOCK FALSE
