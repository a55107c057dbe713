\* Process crashes and I/O errors at every step; the machine stays up.
SPECIFICATION Spec
CONSTANTS
    MaxSeq = 3
    MaxFile = 20
    MaxFaults = 2
    MaxGroup = 2
    MemCapacity = 1
    L0Trigger = 1
    SyncPolicy = "kEveryWrite"
    IOErrors = TRUE
    UnlinkMayFail = FALSE
    PowerLoss = FALSE
    FsyncCoversDir = TRUE
    FlushRaces = FALSE
INVARIANTS
    TypeOK
    ManifestTablesReadable
    AckedRecoverable
    NewestSourceFirst
    AckedReadable
    SequencesNotReused
    FileNumbersFresh
PROPERTY ManifestLogAdvances
CHECK_DEADLOCK FALSE
