SPECIFICATION Spec
CONSTANTS
    Core = {c1, c2}
    c1 = c1
    c2 = c2
    None = None
    Bsp = c1
    MaxProcesses = 2
    MaxGeneration = 2
    MaxPids = 3
    Boot = 1
    Ops = {"spawn", "exit", "nested"}
CHECK_DEADLOCK FALSE
INVARIANTS
    ZombieHasLiveParent
