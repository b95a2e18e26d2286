\* Boot spawns two processes while the other core is already idling; both slots are
\* reused, every operation interleaved.
SPECIFICATION Spec
CONSTANTS
    Core = {c1, c2}
    c1 = c1
    c2 = c2
    None = None
    Bsp = c1
    MaxProcesses = 2
    MaxGeneration = 3
    MaxPids = 3
    Boot = 2
    Ops = {"exit", "kill", "wait", "spawn", "start", "nested", "full", "ipc", "share", "timeout"}
CHECK_DEADLOCK FALSE
INVARIANTS
    SafetyInv
    KillHitsTarget
    NoProcessLost
    StackBusyProtects
    Cr3Live
    NoSleepThroughWork
    HaltedMeansDone
