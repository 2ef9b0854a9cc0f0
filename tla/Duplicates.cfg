SPECIFICATION Spec
CONSTANTS
    p = p
    q = q
    r = r
    s = s
    nothing = nothing
    Order <- MCOrder
    Objects <- MCObjects
    First <- MCFirst
    NoObject = nothing
    Content <- MCContent
    Ends <- MCEnds
    Size <- MCSize
    MinSize = 1
    Platforms <- Both
    Unidentified <- OneCopy
    MaxScans = 2
    MaxDetections = 2
    MaxBatches = 1
    MaxChanges = 1
INVARIANTS
    GroupsExact
    OnlyTicked
    TreeAgrees
CHECK_DEADLOCK FALSE
