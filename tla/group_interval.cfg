\* One writer that stops writing, under kInterval.
SPECIFICATION Spec
CONSTANTS
    t1 = t1
    t2 = t2
    t3 = t3
    Threads = {t1}
    Free = Free
    MaxCalls = 1
    BatchSize <- MCOneWriter
    Maintainers = {}
    MaxDue = 0
    SmallBatch = 1
    MaxGroupSize = 3
    Capacity = 1
    EmptySize = 0
    SyncPolicy = "kInterval"
    FsyncInterval = 1
    MaxTime = 3
    IOErrors = FALSE
INVARIANT IntervalBound
CHECK_DEADLOCK FALSE
