CONSTANTS
    Trx <- MCTrx
    Account = {"a"}
    AccountOf <- MCAccountOf
    Expiry <- MCExpiry
    Bills <- MCBills
    Request <- MCRequest
    TrxOf <- MCTrxOf
    Persist <- MCPersist
    CanProduce = TRUE
    MaxIncoming = 2
    MaxFailures = 1
    MaxRequests = 2
    MaxBlocks = 3
SPECIFICATION FairSpec
INVARIANTS TransactionsKept BillsAddUp
PROPERTY AnsweredAtLast
