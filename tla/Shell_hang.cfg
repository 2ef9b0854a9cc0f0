SPECIFICATION Spec
CONSTANTS
    top = top
    a = a
    b = b
    f = f
    nowhere = nowhere
    Order <- MCOrder
    Up <- MCUp
    NoPath = nowhere
    DirPaths <- MCDirs
    FilteredOut <- MCHidden
    Roots <- MCRoots
    Ops <- Trash
    Keys <- HistoryKeys
    Filters <- PlainOnly
    MaxScans = 1
    MaxTasks = 2
    MaxChanges = 0
    MaxHistory = 3
INVARIANTS
    SurvivorReached
CHECK_DEADLOCK FALSE
