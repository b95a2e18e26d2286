\* Every integration test, all its criteria included.
SPECIFICATION Spec
CONSTANTS
    None = None
    Server = Server
    Bsp = bsp
    Ap = ap
    MAX_PROCESSES = 4
    PidBase = 8
    Rounds = 12
    HeapStart = 100
    HeapMax = 8
PROPERTIES
    EveryTestPasses
CHECK_DEADLOCK FALSE
