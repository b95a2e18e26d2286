CONSTANTS
    None = None
    Bsp = bsp
    Cores = {bsp, ap}
    Evictable = {bsp, ap}
    MaxFaults = 2
SPECIFICATION FairSpec
INVARIANTS OneReporter
PROPERTIES PanicIsReported OthersGoInert
CHECK_DEADLOCK FALSE
