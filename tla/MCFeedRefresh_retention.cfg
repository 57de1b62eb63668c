\* Two feeds, one user who may have one active run, one lane: orphans, retention,
\* the outbox and the limit, with short ages.
SPECIFICATION Spec
CONSTANTS
    f1 = f1
    f2 = f2
    u1 = u1
    u2 = u2
    q1 = q1
    a = a
    b = b
    NULL = NULL
    Feeds <- TwoFeeds
    Users <- OneUser
    Requests <- OneRequest
    Lanes <- LaneA
    Schedulers <- LaneA
    Disableable <- NoFeeds
    Outcomes <- NotPartial
    RetryAfterTimes <- NoTimes
    MaxRuns = 3
    MaxNow = 2
    MaxLeaseToken = 2
    FailureCap = 1
    LeaseDuration = 1
    SuccessDelay = 1
    BaseBackoff = 1
    MaxDelay = 1
    MinJitter = 1
    Cooldown = 1
    OrphanGrace = 1
    HistoryAge = 0
    MaxActivePerUser = 1
    MaxSubscriptions = 2
INVARIANTS
    OutboxMatchesRuns
    OrphanIffUnsubscribed
    PurgeLeavesNothing
    ActiveRunLimit
