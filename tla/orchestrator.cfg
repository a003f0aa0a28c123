SPECIFICATION LoopFairSpec
CONSTANTS
    None = None
    CPUSaturationThreshold = 85
    MinConfidenceThreshold = 50
    TrafficHighLoadThreshold = 35
    PredictionWeight = 50
    ScaleUpThreshold = 0
    ScaleDownThreshold = 30
    PostponeWindow = 2
    ResumeImminence = 1
    Observations <- MCObservations
    Workloads <- MCWorkloads
    Horizons <- MCHorizons
    Namespace <- MCNamespace
    CustomResources <- MCCustomResources
    Registered <- MCRegistered
    Counts = {1, 3}
    RetryAttempts = 1
    Samples <- MCSamples
    NodeResponses <- MCNodeResponses
    CacheTTL = 1
    Replies <- MCReplies
    RMSEDegradedAt = 90
INVARIANT OnlyResumptionsAct
PROPERTIES
    ChangesAreResumptions
    AllocatorSpecified
    DeferralEnds
    NewcomersObserved
    ShutdownCompletes
