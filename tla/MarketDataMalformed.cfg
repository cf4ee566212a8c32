\* No fault at all: the stock's bars carry a price that is no number.
SPECIFICATION FairSpec
CONSTANTS
    stock = stock
    coin = coin
    Asset = {stock, coin}
    AssetOrder <- InOrder
    NoJob = NoJob
    Price <- Prices
    Unavailable <- None
    Garbled <- OnlyStock
    FirstDay = 4
    LastDay = 5
    Window = 2
    ThresholdNum = 5
    ThresholdDen = 2
    BARS_LOOKBACK = 1
    DETECT_TAIL = 3
    BackfillDays = 3
    MaxFaults = 0
PROPERTIES
    AnsweringSourceIngested
