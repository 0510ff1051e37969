SPECIFICATION FairSpec
CONSTANTS
    StatSize = 11
    Alignment = 4
    BlockSize = 12
    HeapAlignment = 2
    BlockAddresses = {4, 6}
    UIntRange = 16
    FileSizes = {5}
    ForcePartialReads = FALSE
    ForcePartialWrites = FALSE
    MaxResizes = 1
    MaxShortIO = 0
PROPERTIES RunnerTerminates
