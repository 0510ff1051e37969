SPECIFICATION FairSpec
CONSTANTS
    big = big
    small = small
    empty = empty
    Files = {big, small, empty}
    Chunks <- ChunksOf
    ChunkBytes = 8
    Cap = 5
    RingSize = 4
    Blocks = 1
    Faults = {"write", "close"}
    MaxSessions = 2
    MaxFailures = 1
    MaxShortIO = 1
    MaxSplits = 0
INVARIANTS FdBudget NoDescriptorLeak
PROPERTIES JoinReturns
