SPECIFICATION Spec
CONSTANTS
    big1 = big1
    big2 = big2
    small1 = small1
    small2 = small2
    empty1 = empty1
    Copies = {big1, big2, small1, small2, empty1}
    Size <- MCSize
    BIG_FILE_SIZE = 2
    SetBits = 3
    MaskBits = 2
    HighThreshold = 1
    LowThreshold = 0
    Modulus = 16
    MaxShows = 3
    MaxFailures = 1
INVARIANT IndexInBounds
CHECK_DEADLOCK FALSE
