SPECIFICATION JobsFairSpec
CONSTANTS
    Requests = {j1, j2}
    Limit = 1
    Workers = {w1}
    NoWorker = NoWorker
    Batch = 2
    MaxRetries = 1
    MaxCrashes = 1
    FaultSets <- JobFaultSets
INVARIANTS JobsOK
PROPERTIES VerdictIsFinal ProgressNeverBack ImplementsLifecycle AcceptedGetsVerdict SlotsReturn
CHECK_DEADLOCK FALSE
