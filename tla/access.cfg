CONSTANTS
    User = {u1, u2}
    Password = {p1, p2}
    Role = {"Admin", "Viewer"}
    Action = {"Users.View All", "Users"}
    Malformed = {"Users"}
    SuperRole = "Admin"
    RoleHas <- SeedRoleHas
    Login = {l1}
    Refresh = {f1}
    Call = {c1}
    AccessTtl = 1
    RefreshTtl = 2
    MaxClock = 3
    None = None
SPECIFICATION Spec
SYMMETRY Symmetry
INVARIANTS
    TypeOK
    SessionsAreEarned
    EntitledAreAdmitted
PROPERTIES
    IdleSessionsEnd
    DecidesAtOneMoment
