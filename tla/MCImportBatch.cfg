\* One plan, uploaded and committed more than once, while others work.
SPECIFICATION Spec
SYMMETRY Symmetric
CONSTANTS
    b1 = b1
    b2 = b2
    r1 = r1
    r2 = r2
    s1 = s1
    s2 = s2
    l1 = l1
    c1 = c1
    c2 = c2
    i1 = i1
    Batch = {b1, b2}
    Request = {r1, r2}
    Satnet = {s1, s2}
    Label = {l1}
    Code = {c1, c2}
    Id = {i1}
    File <- Files
    InitialMeaning <- Meaning
    MaxEvents = 2
    MaxRows = 4
    None = None
INVARIANTS NeverTwice RecordIsTrue
PROPERTY AllAtOnce
CHECK_DEADLOCK FALSE
