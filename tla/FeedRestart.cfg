SPECIFICATION Spec
CONSTANTS
    Trades = {"btc"}
    Quotes = {}
    MaxId = 4
    MaxDay = 3
    LastOfDay2 = 3
    MaxQueued = 10
    QueueMax = 10
    BatchMax = 2
    Page = 2
    RestLead = 1
    RestLag = 0
    MaxCrashes = 0
    MaxStops = 1
    MaxOutages = 0
    MaxSessionLoss = 0
    QuietReconnect = TRUE
    ClocksSynced = TRUE
    DayOf <- MCDayOf
INVARIANTS
    GapFree
CHECK_DEADLOCK FALSE
