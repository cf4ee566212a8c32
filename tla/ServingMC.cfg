\* Four updates: one to answer that has no integer id, one whose handling raises
\* (one outside the allowlist takes the same step), one to answer, and one that is
\* no JSON object, which ends the poller's task for good.  One recurring job, which
\* scores headlines, and the cold start.  The process stops once and one call fails
\* or the host sleeps once.
SPECIFICATION ServingFairSpec
CONSTANTS
    NUpdates = 4
    InMyChat = {1, 2, 3}
    FromMe = {1, 2, 3}
    Poisoned = {2}
    Malformed = {4}
    NoId = {1}
    MaxStops = 1
    MaxFaults = 1
    Recurring <- MCRecurring
    Inferring <- MCRecurring
INVARIANTS
    HostTypeOK
    NeverLost
    ExtraRepliesAccounted
    NothingRunsOn
PROPERTIES
    HealthyHandled
    TeardownCompletes
    ColdStartRuns
    JobsRecur
