SPECIFICATION Spec
CONSTANTS
    None = None
    CPUSaturationThreshold = 85
    MinConfidenceThreshold = 50
    TrafficHighLoadThreshold = 35
    PredictionWeight = 50
    ScaleUpThreshold = 0
    ScaleDownThreshold = 30
    PostponeWindow = 3
    ResumeImminence = 1
    Workloads <- SharedWorkloads
    Observations <- SharedObservations
    Horizons <- MCHorizons
INVARIANT
    RoomIsGrantedOnce
