\* The spectrum of an allocation that is on air under two requests at once.
SPECIFICATION Spec
CONSTANTS
    Path = {p1}
    User = {u1, u2}
    Request = {r1, r2}
    Content = {c1, c2}
    None = None
    RequireSeparateApprover = TRUE
    Posted = {"DRAFT", "PLANNED"}
    SuspendedRetains = TRUE
    MaxRequests = 4
    MaxRevision = 2
SYMMETRY Interchangeable
INVARIANT OnAirHoldsSpectrum
\* Stops when all the requests have been served.
CHECK_DEADLOCK FALSE
