CONSTANTS
    Uuid = {u1, u2}
    Proc = {p1, p2}
    Sock = {s1, s2}
    Mode = {ask}
    None = None
SPECIFICATION Spec
SYMMETRY Symmetry

    
PROPERTIES
    KillsOnlyTheClosed
CHECK_DEADLOCK FALSE
