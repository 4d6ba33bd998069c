SPECIFICATION Spec
CONSTANTS
    Trades = {"btc"}
    Quotes = {"qbtc"}
    MaxId = 4
    MaxDay = 3
    LastOfDay2 = 3
    MaxQueued = 10
    QueueMax = 10
    BatchMax = 2
    Page = 1
    RestLead = 1
    RestLag = 0
    MaxCrashes = 1
    MaxStops = 0
    MaxOutages = 1
    MaxSessionLoss = 1
    QuietReconnect = TRUE
    ClocksSynced = TRUE
    DayOf <- MCDayOf
INVARIANTS
    GapFree
    AtMostOnce
    FloorIsHighestStored
    UnflaggedHasNoGap
PROPERTIES
    SavedRowsKept
CHECK_DEADLOCK FALSE
