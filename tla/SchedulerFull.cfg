SPECIFICATION Spec
CONSTANTS
    Core = {c1}
    c1 = c1
    None = None
    Bsp = c1
    MaxProcesses = 1
    MaxGeneration = 1
    MaxPids = 1
    Boot = 1
    Ops = {"spawn", "full"}
CHECK_DEADLOCK FALSE
INVARIANTS
    FullTableIsRejected
