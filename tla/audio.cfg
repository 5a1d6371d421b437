CONSTANTS
    a = a
    b = b
    Variants = {a, b}
    Timed = {b}
    Warm = {a}
    AudioSize <- Sizes
    StampSize = 1
    MaxSize = 3
    MaxBatch = 2
    MaxRequests = 3
    MaxEvents = 1
    d1 = d1
    d2 = d2
    k1 = k1
    k2 = k2
    Docs = {d1, d2}
    Voices = {k1, k2}
    NoDoc = NoDoc
    NBlocks = 3
    Collapsed = {1}
    BatchSize = 1
    RefillThreshold = 1
    EvictBehind = 0
    MaxSynthesisFailures = 2
    MaxResends = 1
    Calls = {1, 2, 3, 4, 5, 6, 7, 8}
    MaxClicks = 2
    MaxSignals = 1
SPECIFICATION AudioSpec
INVARIANTS CacheInv AudioKept
PROPERTIES EveryAudioPersisted PlaybackHeard
CHECK_DEADLOCK FALSE
