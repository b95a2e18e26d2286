SPECIFICATION Spec
CONSTANTS
    Cores = {bsp, ap}
    bsp = bsp
    ap = ap
    Bsp = bsp
    Value = {echo, server, once}
    echo = echo
    server = server
    once = once
    Echo = echo
    Server = server
    Others = {once}
    None = None
    N = 2
    FifoDepth = 2
    MaxBytes = 2
    MaxSends = 1
    MaxPrints = 1
INVARIANTS
    NoWakeLost
    NoLockCycle
    LineIsWhole
PROPERTIES
    FifoSteps
    ConsoleServes
