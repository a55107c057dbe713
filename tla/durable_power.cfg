\* Process crashes and power losses, on a file system where fsync of a file
\* makes its own name durable too.
SPECIFICATION FairSpec
CONSTANTS
    MaxSeq = 2
    MaxFile = 20
    MaxFaults = 2
    MaxGroup = 1
    MemCapacity = 1
    L0Trigger = 2
    SyncPolicy = "kNever"
    IOErrors = FALSE
    UnlinkMayFail = TRUE
    PowerLoss = TRUE
    FsyncCoversDir = TRUE
    FlushRaces = FALSE
INVARIANTS
    AckedRecoverable
PROPERTIES
    ImmFlushed
    Reopens
CHECK_DEADLOCK FALSE
