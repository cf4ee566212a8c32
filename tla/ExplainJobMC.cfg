\* Two processes, two anomalies in one batch; three articles, of which the model is
\* shown the newest one; one failure of any kind, a reply that breaks the contract
\* among them (anomalies whose replies never parse are AlertPipelineMC's).
SPECIFICATION Spec
CONSTANTS
    Process = {app, demo}
    NoProcess = NoProcess
    NAnomalies = 2
    Unparseable <- UnparseableNone
    EXPLAIN_BATCH = 2
    NArticles = 3
    AssetOf <- TwoAssets
    BarDay <- Days
    About <- Feeds
    Published <- NewsDays
    NEWS_WINDOW = 3
    BAR_SPAN = 1
    MAX_NEWS = 1
    NoAsset = NoAsset
    MaxFaults = 1
SYMMETRY Symmetry
INVARIANTS
    TypeOK
    SpendBounded
    EvidenceHonest
PROPERTIES
    ImplementsExplanations
    ExplanationsFinal
