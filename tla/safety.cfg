SPECIFICATION SafetySpec
CONSTANTS
    Waits = {w1}
    NoWait = NoWait
    InQueue = {}
    Allowance = 1
    LastDay = 4
    Sweepers = {s1}
    MayDefer = TRUE
    MayStop = TRUE
    Writers = {e1, e2}
    ExceptionInterval = 0
    MaxLog = 3
    MaxTime = 1
    WatchKinds = {"a", "b", "c"}
    Wanted = {"a", "b"}
    Kept = {"a"}
    Backlogs <- MCBacklogs
    MaxEvents = 5
    VerbNames = {"a"}
    Pipelines = {"p", "q"}
    Repos = {"r"}
    Registers <- MCRegisters
    Definitions <- MCDefinitions
    MaxSteps = 1
    Paths = {1, 2}
    Teams = {"x", "y"}
    People = {"a", "b"}
    Names <- MCNames
    OwnOnly = {"x"}
    CodeFiles <- MCCodeFiles
    HintLists <- MCHintLists
    Columns <- Cols
    FarColumns <- FarCols
    Filters <- MCFilters
SYMMETRY Symmetry
INVARIANTS
    TypeOK
    OneChasePerWait
    ChasesRecorded
    LogTellsTheRow
    WatchPassesOver
    ChainsAreAsAsked
    AskedSuffice
    ListsAsCelSays
CHECK_DEADLOCK FALSE
