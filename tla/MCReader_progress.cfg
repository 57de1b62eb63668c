\* Jobs of two users, one of whom may be disabled for good, and one lane; and a
\* request for a translation at a time; subscriptions of two users on three pages.
SPECIFICATION ReaderSpec
CONSTRAINT Bounded
CONSTANTS
    u1 = u1
    u2 = u2
    k1 = k1
    k2 = k2
    v1 = v1
    v2 = v2
    a = a
    b = b
    NULL = NULL
    Users <- TwoUsers
    Keys <- OneKey
    Versions <- OneVersion
    FirstVersion = v1
    Lanes <- OneLane
    Disableable <- SecondUser
    Leavers <- Nobody
    MaxJobs = 2
    MaxNow = 0
    MaxAttempts = 2
    MaxToken = 3
    LeaseDuration = 1
    Timeout = 1
    FirstDelay = 1
    SecondDelay = 1
    MaxDelay = 1
    RetryAfters <- NoHint
    MaxRunning = 1
    WindowSize = 2
    None = None
    Requests = {"r1"}
    SettingsPages = {"c1", "c2"}
    Texts <- ShortTexts
    Drafts <- SomeDrafts
    MaxSegments = 1
    GlobalPermits = 1
    ChannelCapacity = 1
    AnonymousChunk = 3
    AuthenticatedChunk = 4
    MaxArticleCalls = 5
    SourceLimit = 4
    MaxBatchSegments = 2
    MaxSettingsRevision = 1
    MaxUpheavals = 1
    Owners = {"u1", "u2"}
    Tabs = {"t1", "t2", "t3"}
    OwnerOf <- OwnerOfTab
    Sources = {"a", "b", "c"}
    Shelves = {"x", "y"}
    OpmlFiles <- SomeFiles
    Breakable = {"a"}
    MaxSubscriptions = 2
    MaxCategories = 1
    MaxTries = 2
    MaxRows = 3
    MaxIds = 3
    Snapshots = FALSE
INVARIANTS
    OrganizationHolds
    AttemptLog
    AnswersAreFaithful
PROPERTIES
    JobsEnd
    RequestsEnd
    SettingsEditsBuild
    ImportsAreWhole
