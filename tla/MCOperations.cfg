SPECIFICATION Spec
CONSTANTS
    e1 = e1
    e2 = e2
    None = None
    Editor = {e1, e2}
    Text = {"seeded", "edited"}
    Seeded = "seeded"
    Source = "vsat"
    Scratch = {"vsat_restore_drill"}
    ServesTestClient = TRUE
    MaxChanges = 2
    MaxBackups = 2
    MaxVerifications = 2
SYMMETRY Symmetric
CHECK_DEADLOCK FALSE
PROPERTIES VerifiedHoldsTheDump NoFalseAlarm NothingReplacedUnseen
