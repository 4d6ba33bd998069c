SPECIFICATION Spec
CONSTANTS
    Trades = {"btc"}
    Quotes = {"qbtc"}
    MaxId = 7
    MaxDay = 5
    PerDay = 2
    Window = 2
    FirstDay = 3
    MaxCrashes = 1
    MaxStops = 0
    MaxFetchFaults = 0
    MaxFaults = 1
    ArchiveLag = 1
    Straddle = 0
    QuietStartup = TRUE
    OldQuotesKept = TRUE
    DayOf <- MCDayOf
INVARIANTS
    NoHoles
CHECK_DEADLOCK FALSE
