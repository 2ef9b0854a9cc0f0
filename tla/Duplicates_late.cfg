SPECIFICATION Spec
CONSTANTS
    p = p
    q = q
    r = r
    s = s
    nothing = nothing
    Order <- MCOrder
    Objects <- MCObjects
    First <- MCFirst
    NoObject = nothing
    Content <- MCContent
    Ends <- MCEnds
    Size <- MCSize
    MinSize = 1
    Platforms <- Unix
    Unidentified <- None
    MaxScans = 2
    MaxDetections = 2
    MaxBatches = 1
    MaxChanges = 1
INVARIANT TickedByUser
CHECK_DEADLOCK FALSE
