SPECIFICATION Spec
CONSTANTS
    w1 = w1
    w2 = w2
    root = root
    sub = sub
    mnt = mnt
    lost = lost
    link1 = link1
    link2 = link2
    sym = sym
    far = far
    NoJob = NoJob
    Workers <- MCWorkers
    CanPanic = FALSE
    RootDir = root
    Entries <- MCEntries
    Kind <- MCKind
    Listing <- MCListing
    Bytes <- MCBytes
    Device <- MCDevice
    Inode <- MCInode
    MultiLink <- MCMultiLink
    Flaky <- MCFlaky
    InlineLimit = 1
    Chunk = 2
    FlushEvery = 2
    StayOnFilesystem = FALSE
INVARIANT
    OptionHonoured
