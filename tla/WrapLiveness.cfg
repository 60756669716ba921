CONSTANTS
    Uuid = {u1, u2}
    Proc = {p1}
    Sock = {s1, s2}
    Mode = {ask, bypass}
    None = None
SPECIFICATION FairSpec
INVARIANTS
    DashboardInSync
PROPERTIES
    DeadWrapSettles
CHECK_DEADLOCK FALSE
