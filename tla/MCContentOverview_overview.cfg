\* A reader looks at an entry while two jobs about it run.
SPECIFICATION OverviewSpec
CONSTANTS
    u1 = u1
    k1 = k1
    k2 = k2
    v1 = v1
    a = a
    b = b
    NULL = NULL
    Users <- OneUser
    Keys <- TwoKeys
    Versions <- OneVersion
    FirstVersion = v1
    Lanes <- TwoLanes
    Disableable <- Nobody
    Leavers <- Nobody
    MaxJobs = 2
    MaxNow = 0
    MaxAttempts = 2
    MaxToken = 1
    LeaseDuration = 1
    Timeout = 2
    FirstDelay = 1
    SecondDelay = 2
    MaxDelay = 2
    RetryAfters <- NoHint
    MaxRunning = 2
    WindowSize = 2
INVARIANTS
    OverviewReportsNoCorruption
