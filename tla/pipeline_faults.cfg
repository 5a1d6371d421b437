CONSTANTS
    v1 = v1
    e1 = e1
    e2 = e2
    d1 = d1
    c1 = c1
    c2 = c2
    j1 = j1
    j2 = j2
    w1 = w1
    t1 = t1
    Jobs = {j1, j2}
    Workers = {w1}
    ApiTasks = {w1}
    Scanners = {}
    Evictors = {c1}
    MaxRetries = 1
    MaxCrashes = 1
    MaxExpiries = 1
    NoJob = NoJob
    NoWorker = NoWorker
    None = None
    Variants = {v1}
    Entries = {e1}
    Conns = {c1, c2}
    Tasks = {t1}
    VariantOf <- MCOneVariantOf
    DocOf <- MCOneDocOf
    ConnDoc <- MCConnDoc
SPECIFICATION Spec
SYMMETRY JobWorkerSymmetry
INVARIANTS PipelineInv
CHECK_DEADLOCK FALSE
