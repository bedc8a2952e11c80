SPECIFICATION MCSpec
CONSTANTS
    Subjects = {"block"}
    Chains <- Branches
    Txs <- ForkedTxs
    MaxRetries = 2
    Transactions <- MCTransactions
    Ledger <- MCLedger
    Networks <- MCNetworks
    Heights = {1}
    OpenAddresses = {}
    FeeAddress = "fee"
    FundingVoutBase = 10
    LookupFaultBound = 0
INVARIANT TxIndexParity
