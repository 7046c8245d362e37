SPECIFICATION Spec
CONSTANTS
    a1 = a1
    a2 = a2
    r1 = r1
    r2 = r2
    None = None
    Admin = {a1, a2}
    Request = {r1, r2}
    InitialRows <- Inventory
    Submitted <- Typed
    InitialBeam <- TheBeam
    InitialChains <- Chains
    DirectionForm <- Forms
    MaxTime = 2
    MaxRows = 16
    MaxRequests = 3
SYMMETRY Symmetric
CHECK_DEADLOCK FALSE
INVARIANTS PathsRunTheirWay RestsOnActive BadgeIsTrue
PROPERTIES InUseKeepsItsValues EvidenceStays NothingOverwrittenUnseen
