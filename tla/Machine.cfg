CONSTANTS
    None = None
    Bsp = bsp
    Cores = {bsp, ap}
    MaxProcs = 2
SPECIFICATION FairSpec
INVARIANTS KernelHalfComplete CoreIndexResolves NoSelfDeadlock
PROPERTY BootCompletes
