CONSTANTS
    User = {u1}
    Address = {a1, a2}
    Recovery = {c1}
    Reset = {s1}
    None = None
    Ttl = 1
    Skew = 0
    MaxTime = 2
SPECIFICATION Spec
PROPERTY SuccessMeansChanged
CHECK_DEADLOCK FALSE
