CONSTANTS
    v1 = v1
    e1 = e1
    e2 = e2
    d1 = d1
    c1 = c1
    c2 = c2
    j1 = j1
    j2 = j2
    w1 = w1
    s1 = s1
    t1 = t1
    Jobs = {j1, j2}
    Workers = {w1}
    ApiTasks = {}
    Scanners = {s1}
    Evictors = {}
    MaxRetries = 0
    MaxCrashes = 1
    MaxExpiries = 0
    NoJob = NoJob
    NoWorker = NoWorker
    None = None
    Variants = {v1}
    Entries = {e1}
    Conns = {c1}
    Tasks = {t1}
    VariantOf <- MCOneVariantOf
    DocOf <- MCOneDocOf
    ConnDoc <- MCConnDocOne
SPECIFICATION FairSpec
INVARIANTS InflightOwned
PROPERTIES InflightReleased SubscriberNotified
CHECK_DEADLOCK FALSE
