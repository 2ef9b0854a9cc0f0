SPECIFICATION Spec
CONSTANTS
    top = top
    a = a
    b = b
    f = f
    nowhere = nowhere
    Order <- MCOrder
    Up <- MCUp
    NoPath = nowhere
    DirPaths <- MCDirs
    FilteredOut <- MCHidden
    Roots <- MCRoots
    Ops <- TrashDelete
    Keys <- NoHistoryKeys
    Filters <- BothFilters
    MaxScans = 1
    MaxTasks = 2
    MaxChanges = 1
    MaxHistory = 2
INVARIANTS
    TreemapCurrent
    CurrentAlive
    RemovedIsGone
PROPERTY RemovesScanned
CHECK_DEADLOCK FALSE
