SPECIFICATION Spec
CONSTANTS
    Waits = {w1}
    NoWait = NoWait
    InQueue = {}
    Allowance = 1
    LastDay = 4
    Sweepers = {s1, s2}
    MayDefer = FALSE
    MayStop = FALSE
INVARIANTS
    OneChasePerWait
