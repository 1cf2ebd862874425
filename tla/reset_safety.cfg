CONSTANTS
    User = {u1}
    Address = {a1, a2}
    Recovery = {c1, c2}
    Reset = {s1, s2}
    None = None
    Ttl = 0
    Skew = 1
    MaxTime = 2
SPECIFICATION Spec
SYMMETRY Symmetry
INVARIANTS
    TypeOK
    PasswordsAreAuthorised
    SecondRequestReplacesFirst
    SpentTokenIsRefused
    UndisturbedLinkIsLive
\* Every request may have been answered and the clock may have stopped.
CHECK_DEADLOCK FALSE
