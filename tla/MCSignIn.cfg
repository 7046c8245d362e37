SPECIFICATION Spec
CONSTANTS
    b1 = b1
    b2 = b2
    None = None
    Browser = {b1, b2}
    LOGIN_FAILURE_LIMIT = 2
    LockoutSteps = 1
    PendingSteps = 1
    VALID_WINDOW = 1
    RECOVERY_CODE_COUNT = 1
    MaxNow = 3
    MaxEvents = 5
SYMMETRY Symmetric
CHECK_DEADLOCK FALSE
INVARIANTS OneCodeOnePass OneLiveSet EnrolledSecretWasProved JudgedWithinLimit
PROPERTIES WholeSignIn
