\* One feed, two lanes: leases, fencing, recovery, the schedule.
SPECIFICATION Spec
CONSTANTS
    f1 = f1
    f2 = f2
    u1 = u1
    u2 = u2
    q1 = q1
    a = a
    b = b
    NULL = NULL
    Feeds <- OneFeed
    Users <- OneUser
    Requests <- OneRequest
    Lanes <- TwoLanes
    Schedulers <- LaneA
    Disableable <- NoFeeds
    Outcomes <- OkOrError
    RetryAfterTimes <- NoTimes
    MaxRuns = 4
    MaxNow = 2
    MaxLeaseToken = 3
    FailureCap = 2
    LeaseDuration = 1
    SuccessDelay = 1
    BaseBackoff = 1
    MaxDelay = 2
    MinJitter = 1
    Cooldown = 1
    OrphanGrace = 9
    HistoryAge = 9
    MaxActivePerUser = 1
    MaxSubscriptions = 1
INVARIANTS
    RunsAreSound
    ScheduleAdvances
    LostIsRetriedOnce
PROPERTIES
    AttemptsAreFenced
    ImplementsCycle
