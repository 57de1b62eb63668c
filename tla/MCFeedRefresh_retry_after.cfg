\* One feed, two users, one lane: a new subscriber and a server that names a Retry-After instant.
SPECIFICATION Spec
CONSTANTS
    f1 = f1
    f2 = f2
    u1 = u1
    u2 = u2
    q1 = q1
    a = a
    b = b
    NULL = NULL
    Feeds <- OneFeed
    Users <- TwoUsers
    Requests <- NoFeeds
    Lanes <- LaneA
    Schedulers <- LaneA
    Disableable <- NoFeeds
    Outcomes <- AnyOutcome
    RetryAfterTimes <- OneTime
    MaxRuns = 2
    MaxNow = 2
    MaxLeaseToken = 2
    FailureCap = 1
    LeaseDuration = 1
    SuccessDelay = 1
    BaseBackoff = 1
    MaxDelay = 2
    MinJitter = 1
    Cooldown = 1
    OrphanGrace = 9
    HistoryAge = 9
    MaxActivePerUser = 1
    MaxSubscriptions = 1
PROPERTIES
    RetryAfterRespected
