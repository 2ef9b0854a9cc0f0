SPECIFICATION FairPoolSpec
CONSTANTS
    w1 = w1
    w2 = w2
    w3 = w3
    j1 = j1
    j2 = j2
    j3 = j3
    j4 = j4
    Workers <- TwoWorkers
    Jobs <- ThreeJobs
    RootJob = j1
    NoJob = NoJob
    CanPanic = TRUE
PROPERTY PanicSurfaces
