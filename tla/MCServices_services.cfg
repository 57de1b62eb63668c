\* Each service on an instance of its own.  Most stop when their bounds are used up.
CHECK_DEADLOCK FALSE
SPECIFICATION ServicesSpec
CONSTRAINT Bounded
CONSTANTS
    NULL = NULL
    None = None
    Users = {"u1", "u2"}
    Readers = {"u1"}
    Feeds = {"f1", "f2"}
    Articles = {1, 2}
    FeedOf <- FeedOfArticle
    Dates = {1, 2}
    InitialVisible = 1
    PurgeBatch = 1
    MaxGeneration = 2
    PageLimit = 1
    AccountUsers = {"u1"}
    SessionKeys = {1, 2}
    Logins = {"l1", "l2"}
    Processes = {"p1", "p2"}
    PasswordSlots = 1
    SessionLife = 3
    SeenInterval = 1
    MaxClock = 2
    MaxOrphans = 1
    Calls = {"c1", "c2"}
    MaxRevision = 2
    MaxStates = 3
    MaxConcurrency = 1
    RequestsPerMinute = 1
    Minute = 2
    MaxMinutes = 3
    LimitedUsers = {"u1", "u2"}
    Slots = {"r1", "r2"}
    AttemptLimit = 2
    Window = 2
    MaxKeys = 1
    PermitsPerUser = 1
    MaxInstant = 3
    MaxEntries = 3
    Fetches = {"g1", "g2"}
    Urls = {"s", "t", "h"}
    Secure = {"s", "t"}
    AllowHttp = TRUE
    Addresses = {"a", "b"}
    Public = {"a", "b"}
    Nat64Prefixes = {"p"}
    Hides <- HidesB
    MaxDnsResults = 2
    MaxRedirects = 1
    MaxReplays = 1
    MaxBytes = 1
    Ttls = {1, 2}
    DnsTimeout = 1
    FirstByteTimeout = 2
    BodyIdleTimeout = 2
    HopTimeout = 3
    TotalTimeout = 4
    MaxMoment = 5
INVARIANTS
    PolicyHolds
    LimitsHold
    OverridesDiffer
    WalkShowsAll
PROPERTIES
    EndsInTime
    ReadingIsKept
    SessionsMoveOn
