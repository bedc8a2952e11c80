SPECIFICATION Spec
CONSTANTS
    Parts = {"process"}
    PoolSize = 2
    RequestCount = 1
    SvcFaultBound = 0
    StallAfter = 3
    FetchAttempts = 4
    RoundsPerTick = 2
    LadderSteps = 5
    HlthFaultBound = 2
    MaxBuffer = 3
    ShipBatch = 2
    LineBound = 7
    ShipFaultBound = 3
    MemTxs = {1, 2, 3, 4}
    Kind <- MCKind
    MemBatch = 2
    PoolMoves = 2
    MemFaultBound = 2
    CacheTtl = 3
    CacheBackoff = 2
    Callers = 2
    FeedFaultBound = 3
INVARIANT LeasesReturn
CHECK_DEADLOCK FALSE
