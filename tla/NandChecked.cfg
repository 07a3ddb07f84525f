SPECIFICATION NandSpec
CONSTANTS
    BlockSize = 2
    TotalBlocks = 8
    WordMod = 64
    OverflowChecks = TRUE
    Byte = {0, 1}
    Handles = {nand, probe}
    ImageSizes = {1}
    Words = {0, 1, 2, 3, 4, 8, 16, 31, 32, 60, 61, 62, 63}
    Buffers <- SmallBuffers
    GptReserved = 1
    BackupGpt = 1
    ProdInfoBlocks = 1
    ProdInfoFBlocks = 1
    SafeBlocks = 1
    SystemBlocks = 1
    Parts = {"ProdInfo", "ProdInfoF", "System"}
VIEW FileAndHandles
CHECK_DEADLOCK FALSE
PROPERTIES
    ImplementsPartitions
