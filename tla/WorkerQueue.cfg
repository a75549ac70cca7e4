SPECIFICATION QueueFairSpec
CONSTANTS
    Msgs = {m1, m2, m3}
    Workers = {w1, w2}
    NoWorker = NoWorker
    Batch = 2
    MaxRetries = 1
    MaxCrashes = 2
    OutageSets <- AllOutageSets
INVARIANTS QueueOK
PROPERTIES NoSilentDrop WaitingIsServed
CHECK_DEADLOCK FALSE
