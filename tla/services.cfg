CONSTANTS
    j1 = j1
    w1 = w1
    s1 = s1
    l1 = l1
    e1 = e1
    e2 = e2
    c1 = c1
    c2 = c2
    v1 = v1
    v2 = v2
    Jobs = {j1}
    Workers = {w1}
    ApiTasks = {}
    Scanners = {s1}
    Evictors = {}
    MaxRetries = 1
    MaxCrashes = 2
    NoJob = NoJob
    NoWorker = NoWorker
    Loops = {l1}
    Events = {e1, e2}
    Poison = {e2}
    MaxPending = 2
    MaxOutages = 2
    Conns = {c1, c2}
    Batches = {0, 2}
    RateLimit = 3
    RateWindow = 2
    MaxBreaks = 1
    Missing = Missing
    MaxRuns = 3
    MaxChanges = 1
    ServerVoices = {v1, v2}
    MaxStarts = 3
    MaxDbChanges = 2
    ApiMaxRetries = 6
    ApiBaseDelay = 1
    ApiMaxDelay = 30
    LoopBaseDelay = 1
    LoopMaxDelay = 5
    MaxFailures = 4
SPECIFICATION FairServicesSpec
INVARIANTS EventsAccounted SetupAllOrNothing StartsConverge EntriesAgree
PROPERTIES DetectionServed HealthTold ConnectionsServed 
CHECK_DEADLOCK FALSE
