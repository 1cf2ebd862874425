CONSTANTS
    Existing = {u1}
    Create = {c1}
    Patch = {p1}
    Delete = {d1}
    Address = {e1, e2}
    Role = {}
    GivenStatus = {"Unknown"}
    MaxConnections = 2
    None = None
SPECIFICATION FairSpec
INVARIANTS
    FoundUsersStay
PROPERTIES
    EveryRequestIsAnswered
\* Every request may have been answered.
CHECK_DEADLOCK FALSE
