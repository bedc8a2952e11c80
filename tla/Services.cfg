SPECIFICATION Spec
CONSTANTS
    Parts = {"process", "health", "logs", "mempool", "feed"}
    PoolSize = 2
    RequestCount = 2
    SvcFaultBound = 1
    StallAfter = 3
    FetchAttempts = 4
    RoundsPerTick = 2
    LadderSteps = 5
    HlthFaultBound = 2
    MaxBuffer = 3
    ShipBatch = 2
    LineBound = 7
    ShipFaultBound = 3
    MemTxs = {1, 2, 3, 4}
    Kind <- MCKind
    MemBatch = 2
    PoolMoves = 2
    MemFaultBound = 2
    CacheTtl = 3
    CacheBackoff = 2
    Callers = 2
    FeedFaultBound = 3
INVARIANT LeaseSafe
PROPERTIES DrainSound VerdictSound StreamKept PendingFollowsNode FeedSound
CHECK_DEADLOCK FALSE
