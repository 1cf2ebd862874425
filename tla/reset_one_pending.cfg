CONSTANTS
    User = {u1}
    Address = {a1}
    Recovery = {c1, c2}
    Reset = {s1}
    None = None
    Ttl = 1
    Skew = 0
    MaxTime = 2
SPECIFICATION Spec
INVARIANT OnePendingPerAddress
CHECK_DEADLOCK FALSE
