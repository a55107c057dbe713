\* A reader and the background thread over one cache of two entries; one
\* read may fail.
SPECIFICATION FairSpec
CONSTANTS
    NumKeys = 2
    FalsePositives = {2}
    Readers = {r1}
    Compactor = bg
    Layouts <- MCLayouts
    ReadAt <- MCReadAt
    ShardOf <- OneShard
    Shards = {1}
    Capacity = 2
    BlockEntries = 1
    TargetEntries = 1
    MaxFaults = 1
INVARIANTS
    ScanRight
    GetRight
    VersionComplete
    CacheCoherent
    CacheConsistent
PROPERTIES
    CallsReturn
CHECK_DEADLOCK FALSE
