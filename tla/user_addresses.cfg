CONSTANTS
    Existing = {u1, u2}
    Create = {}
    Patch = {p1, p2}
    Delete = {}
    Address = {e1, e2, e3}
    Role = {x}
    GivenStatus = {"Deleted"}
    MaxConnections = 2
    None = None
SPECIFICATION Spec
SYMMETRY Symmetry
INVARIANTS
    TypeOK
    UniqueEmails
PROPERTIES
    CommitsAreWhole
\* Every request may have been answered.
CHECK_DEADLOCK FALSE
