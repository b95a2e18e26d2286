\* A core evicted with nothing else to run does not take PANIC_HALT.
CONSTANTS
    None = None
    Bsp = bsp
    Cores = {bsp, ap}
    Evictable = {bsp}
    MaxFaults = 1
SPECIFICATION FairSpec
PROPERTY AllOthersGoInert
CHECK_DEADLOCK FALSE
