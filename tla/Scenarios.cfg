\* Every integration test, on one core or two.
SPECIFICATION Spec
CONSTANTS
    None = None
    Server = Server
    Bsp = bsp
    Ap = ap
    MAX_PROCESSES = 4
    PidBase = 8
    Rounds = 12
    HeapStart = 100
    HeapMax = 8
INVARIANTS
    NoFailureReported
    SpacesAccounted
PROPERTIES
    TestPasses
CHECK_DEADLOCK FALSE
