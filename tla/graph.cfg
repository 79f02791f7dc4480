SPECIFICATION TableSpec
CONSTANTS
    Actions = {a1, a2, a3}
    NoAction = NoAction
    MaxSteps = 2
    LastDay = 1
    Projects = {p1}
    NoProject = NoProject
SYMMETRY Symmetry
INVARIANTS
    TypeOK
    BlocksAcyclic
    EdgesBetweenRows
    HiddenBehindSomething
PROPERTIES
    ClosingStandsDown
    ClosedForGood
    MaintainKeepsStates
    ClosesCleanly
