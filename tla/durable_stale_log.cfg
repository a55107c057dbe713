\* Power loss brings an unlinked log back, and recovery replays it.
SPECIFICATION Spec
CONSTANTS
    MaxSeq = 3
    MaxFile = 10
    MaxFaults = 3
    MaxGroup = 1
    MemCapacity = 1
    L0Trigger = 2
    SyncPolicy = "kEveryWrite"
    IOErrors = FALSE
    UnlinkMayFail = FALSE
    PowerLoss = TRUE
    FsyncCoversDir = TRUE
    FlushRaces = FALSE
INVARIANT AckedNotHidden
CHECK_DEADLOCK FALSE
