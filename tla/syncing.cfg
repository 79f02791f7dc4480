SPECIFICATION FairSyncing
CONSTANTS
    PRs = {"p1"}
    NoPR = NoPR
    Kinds <- MCKinds
    Chain <- MCChain
    Work <- MCWork
    HasMergeVerb = TRUE
    MaxMoves = 4
    MaxEnds = 2
    Interval = 3
    Floor = 7
    MaxFailures = 4
    MaxBackoff = 7
    Limit = 11
    Window = 14
    Costs = {1, 3}
    Most = 4
    CheckInterval = 3
    Waiters = {"a1"}
    Series = {"top", "api"}
    TopLevel = "top"
    History <- MCHistory
    Releases <- MCReleases
    Gates <- MCGates
    NoGate = NoGate
    NoWait = NoWait
    PageSize = 1
    MaxPages = 3
    Behind = 1
    MaxCuts = 2
    MaxSays = 1
    MaxFaults = 1
INVARIANTS
    SyncerKeepsPace
    EjectionsAreCounted
PROPERTIES
    GatesOpen
    SettledOnEvidence
    SyncGoesOn
CHECK_DEADLOCK FALSE
