SPECIFICATION FairSpec
CONSTANTS
    MaxId = 3
    MaxQueued = 2
    MaxSession = 2
    Inflight = 2
    InitialBackoff = 1
    MaxBackoff = 3
    MaxWsFaults = 2
    MaxBadFrames = 1
    MaxLinkLosses = 1
    MaxDeaths = 2
INVARIANTS
    TypeOK
    AllAccounted
    ProcessedOnce
PROPERTIES
    EventuallyPublished
    AlwaysStreamingAgain
CHECK_DEADLOCK FALSE
