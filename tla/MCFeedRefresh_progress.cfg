\* One feed, two lanes, with fairness: nothing that is due, queued or running waits forever.
SPECIFICATION FairSpec
CONSTANTS
    f1 = f1
    f2 = f2
    u1 = u1
    u2 = u2
    q1 = q1
    a = a
    b = b
    NULL = NULL
    Feeds <- OneFeed
    Users <- OneUser
    Requests <- NoFeeds
    Lanes <- TwoLanes
    Schedulers <- LaneA
    Disableable <- OneFeed
    Outcomes <- OkOrError
    RetryAfterTimes <- NoTimes
    MaxRuns = 3
    MaxNow = 1
    MaxLeaseToken = 2
    FailureCap = 2
    LeaseDuration = 1
    SuccessDelay = 1
    BaseBackoff = 1
    MaxDelay = 2
    MinJitter = 1
    Cooldown = 1
    OrphanGrace = 9
    HistoryAge = 9
    MaxActivePerUser = 1
    MaxSubscriptions = 1
PROPERTIES
    RunningEnds
    QueuedStarts
    DueIsFetched
