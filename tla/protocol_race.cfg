SPECIFICATION ProtocolSpec
CONSTANTS
    Actions <- Numbers
    MaxActions = 3
    NoAction = NoAction
    MaxSteps = 2
    LastDay = 0
    Procs = {p1, p2}
    PRs = {pr}
    NoPR = NoPR
    Verbs = {"write", "merge"}
    StartsPipeline <- MCStartsPipeline
    Pipelines = {chain}
    NoPipeline = NoPipeline
    StepLists <- Twice
    Facts <- NothingTrue
SYMMETRY Symmetry
INVARIANTS
    NumbersHeldOnce
PROPERTIES
    ChainNeverDuplicates
    ChainFollowsTheClosed
