CONSTANTS
    Existing = {u1}
    Create = {}
    Patch = {p1, p2}
    Delete = {}
    Address = {e1, e2}
    Role = {x, y}
    GivenStatus = {}
    MaxConnections = 2
    None = None
SPECIFICATION Spec
SYMMETRY Symmetry
INVARIANTS
    RoleChangesTakeEffect
    DeadlocksChangeAddresses
\* Every request may have been answered.
CHECK_DEADLOCK FALSE
