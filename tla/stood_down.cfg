SPECIFICATION MaintainedSpec
CONSTANTS
    Actions = {a1, a2, a3}
    NoAction = NoAction
    MaxSteps = 0
    LastDay = 0
SYMMETRY Symmetry
INVARIANTS
    BlockedHasOpenBlocker
CHECK_DEADLOCK FALSE
