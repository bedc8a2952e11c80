SPECIFICATION MCSpec
CONSTANTS
    s = s
    d = d
    Subjects = {"armed", "crossing", "delegated", "clock", "batch", "outputs"}
    Addresses = {s, d}
    FirstTime = 20
    TimeSteps <- BackAndForth
    Offsets = {0, 2}
    MaxHeight = 5
    MaxTxs = 1
    SafeDepth = 2
    Depth = 2
    GraceSeconds = 1
    RealignAt <- Armed
    CancelGraceAt <- Armed
    ParentFloorAt <- Armed
    PurgeGraceAt <- Armed
    Span = 3
    Stamps = {1, 2, 3, 4, 5, 6, 7}
    BelowBound = 3
    StoredBound = 6
    FloorFrom = 3
    Commands <- MCCommands
    ListBound = 3
    CommandLimit = 2
    WeightBudget = 3
    Weights <- MCWeights
    Creates <- MCCreates
    Payers = {"s", "t"}
    TxBound = 2
    BatchBound = 2
    AddressId <- MCAddressId
    DefaultDays = 2
    MaxSafe = 5
INVARIANTS
    Reversible PurgedStayExpired ArmedCaptured
    ProtocolTimeSound CaptureMirrorsIndexer RegistryMirrorsIndexer
CHECK_DEADLOCK FALSE
