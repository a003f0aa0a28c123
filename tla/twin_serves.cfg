SPECIFICATION ClientSpec
CONSTANTS
    None = None
    CPUSaturationThreshold = 85
    MinConfidenceThreshold = 50
    TrafficHighLoadThreshold = 35
    Horizons = {1}
    Replies <- MCDeployedReplies
    RMSEDegradedAt = 900
    RetryAttempts = 1
    Timeout = 1
    RetryDelay = 1
    CacheEnabled = FALSE
    PredictionTTL = 1
    Requests = {r1, r2}
    MaxWorkers = 1
    WINDOW_SIZE = 1
    Errors = {5}
    ModelOutputs <- MCDeployedOutputs
    ReportedRMSE <- MCReportedRMSE
    LastStep = 1
PROPERTIES
    EveryPredictionReturns
    StepsTakenUp
