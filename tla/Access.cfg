SPECIFICATION AccessSpec
CONSTANTS
    None = None
    Directories <- MCDirectories
    ByHand <- MCByHand
    Variables <- MCVariables
    MaxLogins = 1
    MaxReloads = 2
INVARIANTS
    WhatIsInForceRuns
    SessionsFollowTheRules
CHECK_DEADLOCK FALSE
