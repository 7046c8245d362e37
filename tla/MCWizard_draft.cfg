\* A draft that reaches past its Beam is moved to PLANNED.
SPECIFICATION Spec
CONSTANTS
    p1 = p1
    others = others
    u1 = u1
    u2 = u2
    d1 = d1
    Path = {p1}
    Other = others
    Resource = {u1, u2, d1}
    ResourcesOf <- MCResourcesOf
    Assignments <- Renewed
    CanonicalLeg = "UPLINK"
    Translation <- MCTranslation
    SatnetValidity <- Forever
    BeamValidity <- MCBeam
    SatnetPolicy <- FixedGuards
    Request <- EvenAndOdd
    Policy <- MaxOfGuards
    Centre = {8}
    Validity <- Soon
    OtherRange <- OneRange
    MaxNow = 1
    MaxOther = 1
    None = None
SYMMETRY Interchangeable
INVARIANT ActiveWithinItsParents
