SPECIFICATION Spec
CONSTANTS
    StatSize = 11
    Alignment = 4
    BlockSize = 12
    HeapAlignment = 2
    BlockAddresses = {4, 6}
    UIntRange = 16
    FileSizes = {5, 8, 11}
    ForcePartialReads = TRUE
    ForcePartialWrites = TRUE
    MaxResizes = 1
    MaxShortIO = 1
INVARIANTS CopiedBytesAreRight ShrankOnlyIfTruncated
