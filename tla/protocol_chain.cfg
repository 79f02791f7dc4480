SPECIFICATION ProtocolSpec
CONSTANTS
    Actions <- Numbers
    MaxActions = 3
    NoAction = NoAction
    MaxSteps = 2
    LastDay = 0
    Procs = {p1}
    PRs = {pr}
    NoPR = NoPR
    Verbs = {"write", "review", "merge"}
    StartsPipeline <- MCStartsPipeline
    Pipelines = {chain}
    NoPipeline = NoPipeline
    StepLists <- ReviewAndMerge
    Facts <- ReviewedOrNot
INVARIANTS
    ProtocolTypeOK
PROPERTIES
    ChainInOrder
    ImplementsActionGraph
