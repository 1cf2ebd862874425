CONSTANTS
    User = {u1}
    Address = {a1, a2}
    Recovery = {c1, c2}
    Reset = {s1, s2}
    None = None
    Ttl = 0
    Skew = 0
    MaxTime = 1
SPECIFICATION SerialSpec
PROPERTIES
    KeepsContract
CHECK_DEADLOCK FALSE
