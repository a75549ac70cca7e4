SPECIFICATION QueueFairSpec
CONSTANTS
    Msgs = {m1, m2}
    Workers = {w1, w2}
    NoWorker = NoWorker
    Batch = 10
    MaxRetries = 3
    MaxCrashes = 1
    OutageSets <- NoOutageSets
PROPERTIES UnackedIsRedelivered
CHECK_DEADLOCK FALSE
