CONSTANTS
    User = {u1}
    Address = {a1}
    Recovery = {c1}
    Reset = {s1, s2}
    None = None
    Ttl = 1
    Skew = 0
    MaxTime = 2
SPECIFICATION Spec
INVARIANT TokenIsSingleUse
CHECK_DEADLOCK FALSE
