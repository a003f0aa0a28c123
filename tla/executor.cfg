SPECIFICATION Spec
CONSTANTS
    None = None
    Callers = {c1, c2}
    Names <- MCNames
    Workloads <- MCWorkloads
    Kinds <- MCKinds
    Objects <- MCObjects
    Containers <- MCContainers
    Contents <- MCContents
    Directives <- MCDirectives
    Infos <- MCInfos
    MaxConcurrentExecutions = 2
    RetryAttempts = 1
    HistoryCap = 1
INVARIANT TypeOK
PROPERTIES
    ImplementsCalls
    CallsRunOut
