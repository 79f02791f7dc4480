SPECIFICATION ProtocolSpec
CONSTANTS
    Actions <- Numbers
    MaxActions = 2
    NoAction = NoAction
    MaxSteps = 1
    LastDay = 0
    Procs = {p1}
    PRs = {pr}
    NoPR = NoPR
    Verbs = {"write", "merge"}
    StartsPipeline <- MCStartsPipeline
    Pipelines = {chain}
    NoPipeline = NoPipeline
    StepLists <- OneStep
    Facts <- NothingTrue
PROPERTIES
    CompletingStartsThePipeline
