SPECIFICATION Spec
CONSTANTS
    top = top
    a = a
    b = b
    f = f
    nowhere = nowhere
    Order <- MCOrder
    Up <- MCUp
    NoPath = nowhere
    DirPaths <- MCDirs
    FilteredOut <- MCHidden
    Roots <- MCRoots
    Ops <- Trash
    Keys <- NoKeys
    Filters <- PlainOnly
    MaxScans = 2
    MaxTasks = 1
    MaxChanges = 0
    MaxHistory = 1
PROPERTY CallbackSurvives
CHECK_DEADLOCK FALSE
