SPECIFICATION FairReading
CONSTANTS
    Calls <- MCCalls
    Keys = {"k1", "k2"}
    PRBatchSize = 1
    RetryDelays <- MCRetryDelays
    TeamMaxPages = 2
    OpenPRPage = 2
    OpenPRAttempts = 2
    LimitWaits = {1, 2}
    GitHubs <- MCGitHubs
    IssueKeys = {"k1"}
    Waits = {"a"}
    IssuePollers = {1}
    MaxAge = 3
    IssueSteps <- MCIssueSteps
    Told <- MCTold
    PRs = {1, 2}
    Branch <- MCBranch
    Forks = {}
    Trunk = "main"
    Pollers = {"s", "t"}
    MaxMoves = 2
    Team = "ours"
    Teams = {"ours", "theirs"}
    People = {"ann", "bob", "eve"}
    Author = "eve"
    MembersOf <- MCMembersOf
    Paths = {1, 2, 3}
    OwnersOf <- MCOwnersOf
    IgnoreTeams = {}
    MaxRuleOwners = 1
INVARIANTS
    
    ReadsAreWhole
    LogKnowsWhatIsBroken
PROPERTIES
    RowsCatchUp
    WaitsEnd
CHECK_DEADLOCK FALSE
