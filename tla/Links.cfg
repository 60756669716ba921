CONSTANTS
    Phone = {p1}
    Env = {e1, e2}
    Never = Never
    Fresh = 1
    Beat = 1
    IdleLimit = 2
    Cap = 1
    MaxLag = 1
    MaxTime = 3
    MaxCopies = 2
    MaxDrops = 1
    r1 = r1
    r2 = r2
    sA = sA
    sB = sB
    w1 = w1
    w2 = w2
    Req = {r1, r2}
    Session = {sA, sB}
    Window = {w1, w2}
    None = None
    User = User
    Target <- MCTarget
    Covers <- MCCovers
    Ways <- MCWays
    Depth <- MCDepth
    Titled <- MCTitled
    MaxSock = 2
    Overlap = FALSE
SPECIFICATION Spec
INVARIANTS
    
    OneLink
    AnswerTellsTruth
PROPERTIES
    RelayLinkComesBack
CHECK_DEADLOCK FALSE
