SPECIFICATION FairSpec
CONSTANTS
    Waits = {w1}
    NoWait = NoWait
    InQueue = {}
    Allowance = 1
    LastDay = 5
    Sweepers = {s1}
    MayDefer = TRUE
    MayStop = FALSE
PROPERTIES
    LateWaitIsChased
