SPECIFICATION Spec
CONSTANTS
    RS = 2
    Meta = 2
    Root = 1
    LastRecord = 5
    Volumes <- MCNumbered
    Layouts <- MCAllLayouts
    Cuts <- MCCuts
    Valid <- MCValid
    Clusters = 40
    Chunk = 4
    MaxRewrites = 2
INVARIANTS
    RecordsInPlace
    TreeHoldsEntries
CHECK_DEADLOCK FALSE
