SPECIFICATION FairUpkeep
CONSTANTS
    NoAction = NoAction
    NoWait = NoWait
    Processes = {"p1", "p2"}
    Builds = {{1, 2, 3}, {1, 3}}
    LegacyStamp = 1
    MaxCommits = 1
    MaxKills = 1
    MaxRestores = 1
PROPERTIES
    DatabaseIsWhole
    PatternsMatch
    WhatIsDueIsSwept
CHECK_DEADLOCK FALSE
