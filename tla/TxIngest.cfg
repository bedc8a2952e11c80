SPECIFICATION MCSpec
CONSTANTS
    Subjects = {"block", "parse"}
    Chains <- Branches
    Txs <- NoTrailingSkip
    MaxRetries = 2
    Transactions <- MCTransactions
    Ledger <- MCLedger
    Networks <- MCNetworks
    Heights = {1, 2, 3}
    OpenAddresses = {"d"}
    FeeAddress = "fee"
    FundingVoutBase = 10
    LookupFaultBound = 2
INVARIANTS RowsMatchChain OnlyPoisonQuarantined QuarantineAudited NoIndexCollision TxIndexParity ParseAgrees
PROPERTIES CatchesUp ParseSettles
