SPECIFICATION Spec
CONSTANTS
    top = top
    a = a
    b = b
    f = f
    nowhere = nowhere
    Order <- MCOrder
    Up <- MCUp
    NoPath = nowhere
    DirPaths <- MCDirs
    FilteredOut <- MCHidden
    Roots <- MCRoots
    Ops <- TrashClear
    Keys <- AllKeys
    Filters <- BothFilters
    MaxScans = 2
    MaxTasks = 2
    MaxChanges = 0
    MaxHistory = 1
INVARIANTS
    PlaceValid
    TreeAggregated
    AliveIsThere
CHECK_DEADLOCK FALSE
