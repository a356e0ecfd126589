SPECIFICATION FairSpec
CONSTANTS
    LastId = 2
    Window = 1
    Batch = 1
    MaxVer = 1
    MaxFaults = 2
    Signing = {TRUE, FALSE}
    Classes = {"in", "aside"}
    Deletable = {}
    Forgettable = {}
    Refusable = {2}
    Endless = TRUE
    CanLock = TRUE
PROPERTIES Delivered
CHECK_DEADLOCK FALSE
