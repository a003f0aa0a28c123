SPECIFICATION UnansweredSpec
CONSTANTS
    None = None
    Callers = {c1, c2}
    Names <- MCNames
    Workloads <- MCWorkloads
    Kinds <- MCKinds
    Objects <- KindObjects
    Containers <- MCContainers
    Contents <- MCContents
    Directives <- KindDirectives
    Infos <- KindInfos
    MaxConcurrentExecutions = 1
    RetryAttempts = 1
    HistoryCap = 1
INVARIANT PermitsAccounted
PROPERTIES
    EveryCallReturns
    CancelledCallsReturn
