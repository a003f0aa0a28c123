SPECIFICATION FairSpec
CONSTANTS
    None = None
    CPUSaturationThreshold = 85
    MinConfidenceThreshold = 50
    TrafficHighLoadThreshold = 35
    PredictionWeight = 50
    ScaleUpThreshold = 0
    ScaleDownThreshold = 30
    PostponeWindow = 3
    ResumeImminence = 1
    Workloads <- DeferralWorkloads
    Observations <- DeferralObservations
    Horizons <- MCHorizons
INVARIANTS
    TypeOK
    OneDeadline
    GateDefersAll
PROPERTIES
    DeferralKept
    DeferralAnnounced
    DeferredStaysSuspended
    DeferredResumed
