SPECIFICATION DesktopSpec
CONSTANTS
    Word <- Addressable
    ZERO = 0
    HEAP_BASE = 0
    FAKE_THREAD = 0
    FAKE_SESSION = 0
    PRIORITY = 0
    ONE = 1
    Ticks = {}
    GuestWords = {}
    SystemWord = {flags0}
    SYSTEM_ZERO = flags0
    NCores = 2
    HandleBase = 16
    PortBase = 19
    PortNames <- PortSet
    PortSlots = 2
    Entries = {}
    StackTops = {}
    Regions <- BootRegions
    SvcCalls = {}
    CoreStack = 24
    None = none
    MaxProcesses = 2
    MaxThreads = 2
    MaxRegions = 2
    MemSize = 24
    KERNEL_BASE = 4
    KERNEL_CODE_SIZE = 4
    STACK_SIZE = 4
    QLAUNCH_BASE = 16
    QLAUNCH_CODE_SIZE = 4
    CorePorts <- Ports
    NoFile = noFile
    MAGIC = 9
    HeaderSize = 2
    MaxPackage = 6
    BlockSize = 4
    TotalBlocks = 8
    WordMod = 64
    OverflowChecks = TRUE
    Byte <- Bytes
    ImageSizes = {}
    Words <- NoWords
    Buffers <- NoBuffers
    GptReserved = 1
    BackupGpt = 1
    ProdInfoBlocks = 1
    ProdInfoFBlocks = 1
    SafeBlocks = 1
    SystemBlocks = 2
    Disks <- TestDisks
    XMod = 1048576
    MaxUnlucky = 1
    Configs <- Given
CHECK_DEADLOCK FALSE
INVARIANTS
    DesktopTypeOK
    NoneDetached
    PhaseTellsBoot
    NandIsClosed
    ResultHoldsNand
    LoadsWhatIsThere
    MemoryIsLaidOut
    SystemIsUp
    TestsAreRight
PROPERTIES
    ImageKept
    JobsEnd
