SPECIFICATION Spec
CONSTANTS
    Trades = {"btc"}
    Quotes = {"qbtc"}
    MaxId = 7
    MaxDay = 5
    PerDay = 2
    Window = 2
    FirstDay = 3
    MaxCrashes = 1
    MaxStops = 0
    MaxFetchFaults = 0
    MaxFaults = 1
    ArchiveLag = 1
    Straddle = 1
    QuietStartup = TRUE
    OldQuotesKept = FALSE
    DayOf <- MCDayOf
INVARIANTS
    StaysGapFree
CHECK_DEADLOCK FALSE
