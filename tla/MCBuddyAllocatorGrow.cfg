CONSTANTS
    MaxOrder = 2
    NumBlocks = 1
    MaxAllocation = 20
    Sizes = {0, 3, 5, 15, 16, 21}
    Counts = {1, 4}
    Word = 61
    Mappings = {m1}
    MaxLive = 4
    SbrkMayFail = FALSE
    NULL = NULL
SPECIFICATION Spec
PROPERTY GrowsInPlace
