SPECIFICATION Spec
CONSTANTS
    Core = {c1, c2}
    c1 = c1
    c2 = c2
    None = None
    Bsp = c1
    MaxProcesses = 2
    MaxGeneration = 1
    MaxPids = 2
    Boot = 2
    Ops = {}
CHECK_DEADLOCK FALSE
INVARIANTS
    KernelStackExclusive
