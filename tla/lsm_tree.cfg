\* Two keys, two snapshots, three levels, every table at most one key large;
\* the tree and the map it implements.
SPECIFICATION Spec
CONSTANTS
    s1 = s1
    s2 = s2
    Snaps = {s1, s2}
    NumKeys = 2
    MaxSeq = 3
    MaxBatch = 2
    kNumLevels = 3
    l0_compaction_trigger = 1
    max_bytes_for_level_base = 1
    target_file_size = 1
SYMMETRY Symmetry
INVARIANTS
    TypeOK
    LevelsDisjoint
    NewerAbove
    ReadsNewest
PROPERTY IsKVStore
CHECK_DEADLOCK FALSE
