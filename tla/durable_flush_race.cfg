\* FlushMemTable switches logs under a leader that is writing.
SPECIFICATION Spec
CONSTANTS
    MaxSeq = 2
    MaxFile = 8
    MaxFaults = 1
    MaxGroup = 1
    MemCapacity = 2
    L0Trigger = 2
    SyncPolicy = "kEveryWrite"
    IOErrors = FALSE
    UnlinkMayFail = FALSE
    PowerLoss = FALSE
    FsyncCoversDir = TRUE
    FlushRaces = TRUE
INVARIANT AckedRecoverable
CHECK_DEADLOCK FALSE
