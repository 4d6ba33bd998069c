SPECIFICATION FairSpec
CONSTANTS
    Trades = {"btc"}
    Quotes = {}
    MaxId = 6
    MaxDay = 3
    LastOfDay2 = 4
    MaxQueued = 10
    QueueMax = 10
    BatchMax = 2
    Page = 2
    RestLead = 1
    RestLag = 0
    MaxCrashes = 1
    MaxStops = 0
    MaxOutages = 2
    MaxSessionLoss = 0
    QuietReconnect = TRUE
    ClocksSynced = TRUE
    DayOf <- MCDayOf
PROPERTIES
    EventuallyApplied
    ImplementsTradeLog
CHECK_DEADLOCK FALSE
