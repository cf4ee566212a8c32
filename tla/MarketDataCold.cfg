\* Nothing fails but once: an outage during the cold start is enough.
SPECIFICATION FairSpec
CONSTANTS
    stock = stock
    coin = coin
    Asset = {stock, coin}
    AssetOrder <- InOrder
    NoJob = NoJob
    Price <- Prices
    Unavailable <- None
    Garbled <- None
    FirstDay = 4
    LastDay = 5
    Window = 2
    ThresholdNum = 5
    ThresholdDen = 2
    BARS_LOOKBACK = 1
    DETECT_TAIL = 3
    BackfillDays = 3
    MaxFaults = 1
PROPERTIES
    SkippedIsRetried
