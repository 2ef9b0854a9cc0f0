SPECIFICATION Spec
CONSTANTS
    top = top
    a = a
    b = b
    f = f
    nowhere = nowhere
    Order <- MCOrder
    Up <- MCUp
    NoPath = nowhere
    DirPaths <- MCDirs
    FilteredOut <- MCHidden
    Roots <- MCRoots
    Ops <- Delete
    Keys <- NoKeys
    Filters <- PlainOnly
    MaxScans = 1
    MaxTasks = 1
    MaxChanges = 1
    MaxHistory = 0
PROPERTY VerifiedStart
CHECK_DEADLOCK FALSE
