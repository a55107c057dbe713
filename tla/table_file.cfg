\* Every table of up to four of ten internal keys.
SPECIFICATION Spec
CONSTANTS
    InternalKeys <- MCInternalKeys
    Intervals = {0, 2, 3}
    BlockSizes = {16, 24}
    Hashes <- MCHashes
    MaxEntries = 4
    WordBits = 4
    Rotation = 2
    MinBits = 6
    MaxProbes = 3
    BitsPerKey = {1, 5}
INVARIANTS
    BlockFaithful
    NoFalseNegative
    TableGetFaithful
CHECK_DEADLOCK FALSE
