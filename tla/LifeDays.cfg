SPECIFICATION FairSpec
CONSTANTS
    Trades = {"btc"}
    Quotes = {"qbtc"}
    MaxId = 7
    MaxDay = 5
    PerDay = 2
    Window = 2
    FirstDay = 3
    MaxCrashes = 2
    MaxStops = 1
    MaxFetchFaults = 1
    MaxFaults = 2
    ArchiveLag = 1
    Straddle = 1
    QuietStartup = TRUE
    OldQuotesKept = FALSE
    DayOf <- MCDayOf
INVARIANTS
    TypeOK
    NoHoles
    OneLiveCopy
    NotBeforeItsDay
PROPERTIES
    FilledDaysKept
    EventuallySaved
CHECK_DEADLOCK FALSE
