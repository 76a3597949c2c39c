\* Two top blocks of three orders: 4, 8 and 16 units.  The sizes 3 and 7 fill
\* blocks of the first two orders to the last unit, 16 is mapped, 0 and 25 are out
\* of range; scalloc asks for the third order (4 * 3), for a product that is out of
\* range (4 * 7) and for one that wraps around to 7 (4 * 16).
CONSTANTS
    MaxOrder = 2
    NumBlocks = 2
    MaxAllocation = 24
    Sizes = {0, 3, 7, 15, 16, 25}
    Counts = {4}
    Word = 57
    Mappings = {m1}
    MaxLive = 3
    SbrkMayFail = TRUE
    NULL = NULL
SPECIFICATION Spec
INVARIANTS HeapTiled FreeListsExact HeldBlocksAreOwned FailsOnlyWhenFull
PROPERTY StatisticsKept
