\* Revisions asked for on the screen and by calls of the service.
SPECIFICATION Spec
CONSTANTS
    Moment = {0, 1, 2, 3}
    Kept = Kept
    None = None
    MaxRevision = 3
PROPERTY LaterIsAccepted
\* Stops when the bound on the revisions is reached.
CHECK_DEADLOCK FALSE
