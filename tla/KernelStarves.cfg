SPECIFICATION FairSpec
CONSTANTS
    Word = {zero, heap, fakeThread, fakeSession, prio, one, tick1, entry, stack, w}
    ZERO = zero
    HEAP_BASE = heap
    FAKE_THREAD = fakeThread
    FAKE_SESSION = fakeSession
    PRIORITY = prio
    ONE = one
    Ticks = {tick1}
    GuestWords = {}
    SystemWord = {flags0, flags1}
    SYSTEM_ZERO = flags0
    NCores = 2
    HandleBase = 16
    PortBase = 19
    PortNames = {}
    PortSlots = 0
    Entries = {entry}
    StackTops = {stack}
    Regions = {}
    SvcCalls = {}
    CoreStack = stack
    None = none
    MaxProcesses = 2
    MaxThreads = 3
    MaxRegions = 0
CHECK_DEADLOCK FALSE
PROPERTIES
    EveryThreadRuns
