CONSTANTS
    u1 = u1
    u2 = u2
    u3 = u3
    User = {u1, u2, u3}
    NameRank <- RankOf
    FirstName = {1, 2}
    Pages <- QueryPages
    PerPages <- QueryPerPages
    SortBys = {"user_name", "first_name"}
    Orders = {"asc", "sideways"}
    Statuses = {"Active"}
    DefaultPerPage = 2
    MaxPerPage = 3
    MaxInt = 7
    MaxChanges = 2
    None = None
CHECK_DEADLOCK FALSE
SPECIFICATION FairSpec
INVARIANTS
    TypeOK
    WalkMissesNobody
    WalkShowsNobodyTwice
    LinksLeadToPages
    LinksNeverOverflow
PROPERTIES
    WalkEnds
