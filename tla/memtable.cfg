\* One writer, groups of up to two entries, nodes of up to three levels.
SPECIFICATION FairSpec
CONSTANTS
    NumKeys = 2
    MaxSeq = 3
    MaxGroup = 2
    kMaxHeight = 3
INVARIANTS
    NoDataRace
    Sorted
    GetFindsNewest
    ScanComplete
PROPERTY ReadersFinish
CHECK_DEADLOCK FALSE
