\* Two processes (the app and the demo), two alerts, up to three failures of any kind.
SPECIFICATION Spec
CONSTANTS
    Process = {app, demo}
    NoProcess = NoProcess
    NAnomalies = 2
    Refused <- RefusedNone
    NOTIFY_BATCH = 2
    Attempts = 2
    MaxFaults = 3
SYMMETRY Symmetry
INVARIANTS
    TypeOK
    NoStaleSend
    NeverSilentlyMissing
    DuplicatesAccounted
    OkTickDelivered
    AuditTruthful
PROPERTY
    ImplementsDelivery
