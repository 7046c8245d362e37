\* Two connections, two allocations, every placement, one draft planned twice.
SPECIFICATION FairSpec
CONSTANTS
    Txn = {t1, t2}
    NoTxn = NoTxn
    NoRow = NoRow
    Path = {p1, p2}
    Resource = {"ul", "dl"}
    Placement <- MCPlacement
    Grant <- MCGrant
    SuspendedRetains = FALSE
    Entering = {"PLANNED"}
    Asked = {"PLANNED", "SUSPENDED"}
    Replanned = {p1}
INVARIANTS NoOverlap OnlyEntitledRows
PROPERTIES  ImplementsLedger EveryTransactionEnds
