CONSTANTS
    None = None
    WordBits = 4
    BITMAP_WORDS = 5
    FrameSize = 2
    MemoryMap <- MCMemoryMap
    bsp = bsp
    ap = ap
    Cores = {bsp, ap}
    Bsp = bsp
    MaxProcs = 2
    Images <- MCImages
    Levels = 2
    Fanout = 2
    UserPages = 8
    PageSize = 2
    USER_SPACE_MIN = 2
    USER_HEAP_START = 4
    USER_HEAP_MAX_SIZE = 4
    USER_STACK_TOP = 16
    USER_STACK_PAGES = 1
    Increments = {1, 3}
    CapIndex = {1}
    endpoint = endpoint
    send = send
    recv = recv
    Rights = {send, recv}
    BootCaps <- MCBootCaps
SPECIFICATION Spec
INVARIANTS
    FramesAccounted
    TablesOutliveEntries
    SpaceInv
    HeapBacked
    AuthorityBounded
CHECK_DEADLOCK FALSE
