\* Power loss where only SyncDirectory makes a file's name durable.
SPECIFICATION Spec
CONSTANTS
    MaxSeq = 2
    MaxFile = 8
    MaxFaults = 1
    MaxGroup = 1
    MemCapacity = 1
    L0Trigger = 2
    SyncPolicy = "kEveryWrite"
    IOErrors = FALSE
    UnlinkMayFail = FALSE
    PowerLoss = TRUE
    FsyncCoversDir = FALSE
    FlushRaces = FALSE
INVARIANT AckedRecoverable
CHECK_DEADLOCK FALSE
