SPECIFICATION FairSpec
CONSTANTS
    big = big
    small = small
    empty = empty
    Files = {small, empty}
    Chunks <- ChunksOf
    ChunkBytes = 8
    Cap = 4
    RingSize = 4
    Blocks = 1
    Faults = {"open"}
    MaxSessions = 1
    MaxFailures = 1
    MaxShortIO = 0
    MaxSplits = 0
PROPERTIES JoinReturns
