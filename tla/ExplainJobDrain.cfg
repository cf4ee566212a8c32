\* One process, no failure; as many anomalies that never parse as fit a batch.
SPECIFICATION FairSpec
CONSTANTS
    Process = {app}
    NoProcess = NoProcess
    NAnomalies = 3
    Unparseable <- UnparseableBatch
    EXPLAIN_BATCH = 2
    NArticles = 0
    AssetOf <- TwoAssets
    BarDay <- Days
    About <- Feeds
    Published <- NewsDays
    NEWS_WINDOW = 3
    BAR_SPAN = 1
    MAX_NEWS = 0
    NoAsset = NoAsset
    MaxFaults = 0
PROPERTY
    BacklogDrains
