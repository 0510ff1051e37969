SPECIFICATION FairSpec
CONSTANTS
    StatSize = 11
    Alignment = 4
    BlockSize = 12
    HeapAlignment = 2
    BlockAddresses = {4, 6}
    UIntRange = 16
    FileSizes = {4, 8, 11, 13}
    ForcePartialReads = FALSE
    ForcePartialWrites = FALSE
    MaxResizes = 2
    MaxShortIO = 2
INVARIANTS CopiedBytesAreRight OnlyRightBytesWritten BufferInBounds ReadsAligned QuietOutsideBatch
PROPERTIES RefinesRunnerService RunnerTerminates
