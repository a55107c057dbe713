\* A snapshot taken while a group is being inserted.
SPECIFICATION Spec
CONSTANTS
    s1 = s1
    Snaps = {s1}
    NumKeys = 2
    MaxSeq = 4
    MaxBatch = 2
    kNumLevels = 3
    l0_compaction_trigger = 1
    max_bytes_for_level_base = 1
    target_file_size = 1
PROPERTY SnapshotFrozen
CHECK_DEADLOCK FALSE
