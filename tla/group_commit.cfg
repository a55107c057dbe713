\* Three writers, one of which also maintains; groups, rotation, and failures
\* of log, rotation and background work.
SPECIFICATION FairSpec
CONSTANTS
    t1 = t1
    t2 = t2
    t3 = t3
    Threads = {t1, t2, t3}
    Free = Free
    MaxCalls = 1
    BatchSize <- MCBatchSize
    Maintainers = {t1}
    MaxDue = 1
    SmallBatch = 2
    MaxGroupSize = 5
    Capacity = 1
    EmptySize = 0
    SyncPolicy = "kInterval"
    FsyncInterval = 1
    MaxTime = 1
    IOErrors = TRUE
INVARIANTS
    TypeOK
    LogAgreesWithMemory
    SequencesFollowLog
    SyncHonoured
    OneLeader
    AppliedKept
PROPERTIES
    Serial
    FlushWaits
    EveryCallReturns
    DestructorReturns
CHECK_DEADLOCK FALSE
