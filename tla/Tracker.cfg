SPECIFICATION Spec
CONSTANTS
    NULL = NULL
    BaseTable = "customers"
    Tables <- ShopTables
    Columns <- ShopColumns
    QueryJoins <- ShopJoins
    Depth <- ShopDepth
    Path <- ShopPath
    Ids = {1, 2}
    Domain <- ShopDomain
    InitialDb <- ShopDb
    BatchSizes = {1, 10}
    ReplicaFull = TRUE
    Cleanup = TRUE
    MaxChanges = 2
    MaxFailures = 1
INVARIANTS
    TypeOK
    DirectChangesSettled
    StreamSettles
    StreamInv
    LossesExplained
    DeferralInv
PROPERTIES
    PendingUntilResolved
CHECK_DEADLOCK FALSE
