SPECIFICATION Spec
CONSTANTS
    RS = 2
    Meta = 2
    Root = 1
    LastRecord = 5
    Volumes <- MCNumbered
    Layouts <- MCLayouts
    Cuts <- MCCuts
    Valid <- MCValid
    Clusters = 40
    Chunk = 4
    MaxRewrites = 2
CHECK_DEADLOCK FALSE
INVARIANT EveryRecordAttached
