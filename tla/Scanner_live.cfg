SPECIFICATION FairSpec
CONSTANTS
    w1 = w1
    w2 = w2
    root = root
    sub = sub
    mnt = mnt
    lost = lost
    link1 = link1
    link2 = link2
    sym = sym
    far = far
    NoJob = NoJob
    Workers <- MCWorkers
    CanPanic = TRUE
    RootDir = root
    Entries <- SmallEntries
    Kind <- SmallKind
    Listing <- SmallListing
    Bytes <- SmallBytes
    Device <- MCDevice
    Inode <- MCInode
    MultiLink <- MCMultiLink
    Flaky <- SmallFlaky
    InlineLimit = 1
    Chunk = 1
    FlushEvery = 2
    StayOnFilesystem = TRUE
INVARIANT
    NoSilentLoss
PROPERTY
    ScanDelivers
