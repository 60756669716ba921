CONSTANTS
    c1 = c1
    r1 = r1
    Uuid = {c1, r1}
    None = None
    RowUuid = {u1}
    Qid = {q1, q2}
    Codex = {c1}
    RealOf <- MCRealOf
    Tab = {t1, t2, t3}
    Card = {k1, k2}
    Launch = {l1, l2}
    Named = {l1}
    Off = None
    MaxChange = 3
    MaxLabels = 1
    MaxWire = 2
    MaxTrouble = 1
    MaxInstant = 4
    MaxEvents = 2
    MaxFlaws = 1
    MaxVersion = 2
    MaxMoves = 3
    MaxBlips = 1
    MaxOut = 2
    SwitchWhileSending = FALSE
    GrowsWhileRead = FALSE
    MaxPosts = 2
    MaxUpsets = 1
    ArmFor = 2
    FlashFor = 2
    StaleAfter = 3
    Debounce = 1
    MaxWait = 2
    MaxTicks = 8
    MaxWrites = 4
    Grace = 1
    Patience = 1
    MaxMoment = 4
    MaxPosted = 2
    Value = {v1, v2}
    Launched = v1
    Unset = Unset
    MaxPicks = 2
    MaxDrops = 1
    MaxClears = 1
    ClaudeLine <- MCClaudeLine
    CodexLine <- MCCodexLine
    Window = 2
    Limits = {1, 2, 4}
    MaxLines = 3
SPECIFICATION Spec
INVARIANTS
    DismissedStaysAway
    CellTellsTruth
    
    
    ModesSettle
PROPERTIES
    FeedConverges
    
    TranscriptConverges
    BannerSettles
CHECK_DEADLOCK FALSE
