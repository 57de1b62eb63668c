\* Two feeds, one of which gets AI artifacts: the pass never gets past it.
\* All feeds may be gone, and then nothing is left to do.
CHECK_DEADLOCK FALSE
SPECIFICATION FairSpec
CONSTANTS
    f1 = f1
    f2 = f2
    u1 = u1
    a = a
    b = b
    NULL = NULL
    Feeds <- TwoFeeds
    Users <- OneUser
    AiFeeds <- FirstFeed
    Schedulers <- OneLane
    OrphanGrace = 1
    BatchLimit = 2
    MaxNow = 1
PROPERTIES
    OrphansArePurged
