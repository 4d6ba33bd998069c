SPECIFICATION FairSpec
CONSTANTS
    MaxId = 4
    MaxDay = 3
    DayOf <- MCDayOf
    Inflight = 2
    Threads = {t1, t2}
    MaxLinkLosses = 1
    MaxDeaths = 1
    MaxDiskFaults = 1
INVARIANTS
    TypeOK
    AckedIsAccounted
    LinesAscend
PROPERTIES
    FlushedKept
    EventuallyWritten
    EventuallyCompressed
CHECK_DEADLOCK FALSE
