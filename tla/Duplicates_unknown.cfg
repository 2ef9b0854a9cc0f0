SPECIFICATION Spec
CONSTANTS
    p = p
    q = q
    r = r
    s = s
    nothing = nothing
    Order <- MCOrder
    Objects <- MCObjects
    First <- MCFirst
    NoObject = nothing
    Content <- MCContent
    Ends <- MCEnds
    Size <- MCSize
    MinSize = 1
    Platforms <- Windows
    Unidentified <- Everything
    MaxScans = 1
    MaxDetections = 1
    MaxBatches = 1
    MaxChanges = 0
INVARIANTS
    UnknownStayApart
    SkippedIsReported
CHECK_DEADLOCK FALSE
