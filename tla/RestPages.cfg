SPECIFICATION FairSpec
CONSTANTS
    Minute = 4
    Skew = 1
    Weight = 1
    Limit = 9
    Threshold = 3
    HttpRetries = 2
    RateLimitRetries = 3
    RetryAfters = {1, 9}
    RetryAfterCap = 2
    Symbols = 2
    Pages = 3
    Burst = 8
    MaxBursts = 2
    MaxFaults = 2
INVARIANTS
    TypeOK
    UnderCap
    BackoffsPaidFor
PROPERTIES
    EventuallyBridged
