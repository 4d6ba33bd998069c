SPECIFICATION Spec
CONSTANTS
    Trades = {"btc"}
    Quotes = {"qbtc"}
    MaxId = 4
    MaxDay = 3
    LastOfDay2 = 3
    MaxQueued = 2
    QueueMax = 2
    BatchMax = 2
    Page = 2
    RestLead = 1
    RestLag = 1
    MaxCrashes = 1
    MaxStops = 1
    MaxOutages = 1
    MaxSessionLoss = 1
    QuietReconnect = FALSE
    ClocksSynced = FALSE
    DayOf <- MCDayOf
INVARIANTS
    TypeOK
    RdbSound
CHECK_DEADLOCK FALSE
