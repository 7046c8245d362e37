\* An administrator and an operator; at most four changes.
SPECIFICATION Spec
CONSTANTS
    admin = admin
    operator = operator
    User = {admin, operator}
    Satnet = {s1, s2}
    Gateway = {g1, g2}
    Code = {c1, c2}
    Request = {r1, r2}
    None = None
    InitialRoles <- MCRoles
    MaxChanges = 4
SYMMETRY Interchangeable
PROPERTIES JudgedByItsGrants ClosedStaysClosed RolesAsChosen
\* Stops when the bound is reached.
CHECK_DEADLOCK FALSE
