CONSTANTS
    None = None
    Bsp = bsp
    Cores = {bsp, ap}
    Evictable = {}
    MaxFaults = 1
SPECIFICATION FairSpec
PROPERTY OthersStop
CHECK_DEADLOCK FALSE
