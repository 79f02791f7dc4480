SPECIFICATION Spec
CONSTANTS
    Projects = {p1, p2, p3}
    NoProject = NoProject
    LastDay = 1
SYMMETRY Symmetry
INVARIANTS
    TypeOK
    BlocksAcyclic
PROPERTIES
    OnlyJSONClosesALoop
    MaintainKeepsStatuses
    OverUntilSaidOtherwise
