SPECIFICATION Spec
CONSTANTS
    MaxRow = 8
    MaxPrice = 2
    Time <- MCTime
    Price <- MCPrice
    Qty <- MCQty
    BuyerMaker <- MCBuyerMaker
    BarSize = 1
    Trades <- MCTrades
    DayLength = 4
    Window = 1
    Sizes = {1, 2, 4}
    MaxDeaths = 2
    MaxStops = 1
INVARIANTS
    TypeOK
    BarsMatchRows
PROPERTIES
    RowsLostOnlyByDeath
CHECK_DEADLOCK FALSE
