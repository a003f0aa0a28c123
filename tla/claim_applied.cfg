SPECIFICATION UndisturbedSpec
CONSTANTS
    None = None
    Callers = {c1}
    Names <- MCNames
    Workloads <- MCWorkloads
    Kinds <- MCKinds
    Objects <- MCObjects
    Containers <- MCContainers
    Contents <- MCContents
    Directives <- MCDirectives
    Infos = {}
    MaxConcurrentExecutions = 2
    RetryAttempts = 1
    HistoryCap = 1
INVARIANT DirectivesAreApplied
