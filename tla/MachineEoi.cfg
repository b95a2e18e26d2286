CONSTANTS
    None = None
    Bsp = bsp
    Cores = {bsp, ap}
    MaxProcs = 2
SPECIFICATION FairSpec
PROPERTY IpiIsTaken
