\* Jobs about an entry that changes, one more than may run at a time, and a
\* reader who leaves its feed; and
\* the documents, providers and attempts behind them.
SPECIFICATION ContentSpec
CONSTANTS
    u1 = u1
    u2 = u2
    k1 = k1
    k2 = k2
    k3 = k3
    v1 = v1
    v2 = v2
    a = a
    b = b
    NULL = NULL
    Users <- OneUser
    Keys <- ThreeKeys
    Versions <- TwoVersions
    FirstVersion = v1
    Lanes <- TwoLanes
    Disableable <- OneUser
    Leavers <- OneUser
    MaxJobs = 3
    MaxNow = 0
    MaxAttempts = 2
    MaxToken = 2
    LeaseDuration = 1
    Timeout = 2
    FirstDelay = 1
    SecondDelay = 2
    MaxDelay = 2
    RetryAfters <- NoHint
    MaxRunning = 2
    WindowSize = 2
    None = None
    Clients = {"c1", "c2"}
    Hosts = {"h1", "h2"}
    Bundles = {1, 2}
    s1 = s1
    s2 = s2
    Settings = {s1, s2}
    PairKeys = {"x", "y"}
    Sizes = {1, 2}
    MaxPairs = 1
    MaxTotal = 2
    MaxDocRevision = 2
    ProviderIds = {"p1", "p2"}
    Kinds = {"chat", "responses"}
    Models = {"m1", "m2"}
    Editors = {"e1", "e2"}
    ProviderLimit = 2
    MaxProviderRevision = 1
    Chosen <- SameProvider
    Price <- DearerSecond
    MaxSpend = 3
    MaxCalls = 2
    MaxParts = 3
    MaxTries = 2
CONSTRAINT
    Bounded
SYMMETRY LaneSymmetry
INVARIANTS
    ArtifactsAreSound
    ContentHolds
    CallsFollowIdentity
PROPERTIES
    NoEditIsLost
    JobsAreFenced
