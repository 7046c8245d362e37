SPECIFICATION SweepSpec
CONSTANTS
    Top = 4
    MaxEntitlements = 2
    MaxOccupied = 3
    MinimumWidth = 1
    NoGap = NoGap
    EntitlementLists <- MCEntitlementLists
    OccupiedLists <- MCOccupiedLists
INVARIANTS ExactlyTheFreeSpectrum CapacityAddsUp OffersAreTrue
CHECK_DEADLOCK FALSE
