\* One process running both jobs, three anomalies: replies for the newest never
\* parse, Telegram refuses the second; one failure of any kind in the explain job,
\* two in the notify job.
SPECIFICATION FairSpec
CONSTANTS
    Process = {app}
    NoProcess = NoProcess
    NAnomalies = 3
    Unparseable <- Newest
    Refused <- SecondNewest
    EXPLAIN_BATCH = 2
    NOTIFY_BATCH = 1
    Attempts = 2
    MaxExplainFaults = 1
    MaxNotifyFaults = 2
    NArticles = 0
    AssetOf <- OneAsset
    BarDay <- Days
    About <- NoNews
    Published <- NoNews
    NEWS_WINDOW = 3
    BAR_SPAN = 1
    MAX_NEWS = 0
    NoAsset = NoAsset
INVARIANT
    TickSpendBounded
PROPERTIES
    AlertKeepsItsWhy
    DetectedIsDelivered
