SPECIFICATION Spec
CONSTANTS
    LastId = 2
    Window = 1
    Batch = 1
    MaxVer = 2
    MaxFaults = 1
    Signing = {TRUE, FALSE}
    Classes = {"in"}
    Deletable = {2}
    Forgettable = {2}
    Refusable = {2}
    Endless = FALSE
    CanLock = TRUE
INVARIANTS TypeOK NothingLost CursorSkipsNone FreshContent
PROPERTIES IntakeSpec
CHECK_DEADLOCK FALSE
