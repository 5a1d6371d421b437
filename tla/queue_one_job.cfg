CONSTANTS
    j1 = j1
    w1 = w1
    w2 = w2
    s1 = s1
    e1 = e1
    Jobs = {j1}
    Workers = {w1, w2}
    ApiTasks = {}
    Scanners = {s1}
    Evictors = {e1}
    MaxRetries = 2
    MaxCrashes = 3
    NoJob = NoJob
    NoWorker = NoWorker
SPECIFICATION FairJobQueueSpec
INVARIANTS QueueInv AttemptsBounded DlqOnlyExhausted NothingLost
PROPERTIES EveryJobAnswered
CHECK_DEADLOCK FALSE
