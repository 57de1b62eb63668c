\* Each service on an instance of its own.  Most stop when their bounds are used up.
CHECK_DEADLOCK FALSE
SPECIFICATION LifecycleSpec
CONSTANTS
    None = None
    NULL = NULL
    f1 = f1
    f2 = f2
    user1 = user1
    la = la
    lb = lb
    Feeds <- TwoFeeds
    Users <- OneUser
    AiFeeds <- FirstFeed
    Schedulers <- TwoLanes
    OrphanGrace = 1
    BatchLimit = 2
    MaxNow = 1
    BackupTargets = {1, 2}
    SlowTargets = {}
    BackupJobIds = {1}
    BackupWorkers = {"w1", "w2"}
    JobsPerPass = 1
    MaxEdits = 1
    MaxFaults = 1
    Servers = {"s1", "s2"}
    Databases = {"d1", "d2"}
    Usernames = {"n1", "n2"}
    MaxMishaps = 1
    Lanes = {1}
    MaxPanics = 2
    Pages = {"p1"}
    Connections = {1, 2}
    EventCapacity = 1
    MaxChanges = 2
    MaxBreaks = 1
INVARIANTS
    LifecycleTypeOK
    VerdictTellsTargets
    ServersTellTheTruth
PROPERTIES
    PlainOrphansArePurged
    OutcomesStand
    BackupJobsEnd
    SetupEnds
    ShutdownEnds
    PagesCatchUp
