\* One boot process and up to two children on two cores: exits and kills that retry.
SPECIFICATION FairSpec
CONSTANTS
    Core = {c1, c2}
    c1 = c1
    c2 = c2
    None = None
    Bsp = c1
    MaxProcesses = 3
    MaxGeneration = 1
    MaxPids = 3
    Boot = 1
    Ops = {"exit", "kill", "spawn", "start", "retry"}
CHECK_DEADLOCK FALSE
PROPERTIES
    ReadyRuns
    KillCompletes
    LastExitHalts
