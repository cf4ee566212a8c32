\* Seven days, the first four of them before the store is created; the stock's
\* source is down for good, and one outage, exception or crash happens.
SPECIFICATION FairSpec
CONSTANTS
    stock = stock
    coin = coin
    Asset = {stock, coin}
    AssetOrder <- InOrder
    NoJob = NoJob
    Price <- Prices
    Unavailable <- OnlyStock
    Garbled <- None
    FirstDay = 4
    LastDay = 7
    Window = 2
    ThresholdNum = 5
    ThresholdDen = 2
    BARS_LOOKBACK = 1
    DETECT_TAIL = 3
    BackfillDays = 3
    MaxFaults = 1
INVARIANTS
    TypeOK
    NoHoles
    RecordedTripped
PROPERTIES
    EveryAnomalyRecorded
    AnsweringSourceIngested
    TicksEnd
