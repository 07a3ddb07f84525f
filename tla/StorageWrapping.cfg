SPECIFICATION Spec
CONSTANTS
    BlockSize = 2
    TotalBlocks = 2
    WordMod = 16
    OverflowChecks = FALSE
    Byte = {0, 1}
    Handles = {nand, probe}
    ImageSizes = {0, 3, 4, 5}
    Words = {0, 1, 2, 3, 4, 5, 6, 7, 8, 9, 10, 11, 12, 13, 14, 15}
    Buffers <- SmallBuffers
VIEW FileAndHandles
CHECK_DEADLOCK FALSE
INVARIANTS
    OpenIsFull
PROPERTIES
    Contained
    ProtectionHolds
