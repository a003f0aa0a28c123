SPECIFICATION Spec
CONSTANTS
    None = None
    CPUSaturationThreshold = 85
    MinConfidenceThreshold = 50
    TrafficHighLoadThreshold = 35
    Horizons <- MCHorizons
    Replies <- MCReplies
    RMSEDegradedAt = 900
    RetryAttempts = 1
    Timeout = 1
    RetryDelay = 1
    CacheEnabled = TRUE
    PredictionTTL = 1
    Requests = {r1, r2}
    MaxWorkers = 1
    WINDOW_SIZE = 2
    Errors = {5}
    ModelOutputs <- MCModelOutputs
    ReportedRMSE <- MCReportedRMSE
    LastStep = 1
INVARIANTS
    CallBounded
    AnswersAreRecent
    AnswersAsAssumed
    OneErrorPerStep
PROPERTIES
    ImplementsMonitor
