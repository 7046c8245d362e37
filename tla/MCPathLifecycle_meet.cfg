\* Two requests at once, on one path or on several, five in all, revisions, and creation in any status.
SPECIFICATION Spec
CONSTANTS
    Path = {p1, p2, p3}
    User = {u1, u2}
    Request = {r1, r2}
    Content = {c1, c2}
    None = None
    RequireSeparateApprover = TRUE
    Posted = {"DRAFT", "PLANNED", "PENDING_APPROVAL", "ON_AIR", "SUSPENDED", "RETIRED", "CANCELLED", "IMPORT_REVIEW"}
    SuspendedRetains = FALSE
    MaxRequests = 5
    MaxRevision = 2
SYMMETRY Interchangeable
INVARIANTS NoDoubleHolding ChainNeverBranches TerminalHoldsNothing HoldsWhatItSays OnAirAsApproved OneLiveRevision
\* Stops when all the requests have been served.
CHECK_DEADLOCK FALSE
