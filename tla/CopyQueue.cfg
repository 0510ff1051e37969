SPECIFICATION Spec
CONSTANTS
    big = big
    small = small
    empty = empty
    Files = {big, small}
    Chunks <- ChunksOf
    ChunkBytes = 8
    Cap = 6
    RingSize = 4
    Blocks = 3
    Faults = {"open", "read", "write", "close"}
    MaxSessions = 2
    MaxFailures = 1
    MaxShortIO = 1
    MaxSplits = 1
INVARIANTS TypeOK FdBudget SubmitNeverStarved FilesOpenWhileCopied ChunksCounted RingRoom CopiedWithinTotal CleanExit BlocksNotShared
PROPERTIES JoinHonest
