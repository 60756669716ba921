CONSTANTS
    Claude = {k1}
    Codex = {r1, r2}
    Pending = {p1}
    Dir = {d1, d2}
    None = None
    MaxTime = 1
    MaxHooks = 2
    MaxNotify = 1
    MaxRuns = 2
    MaxChars = 1
    Card = {c1, c2}
    File = {r1, r2}
    Folder = {d1, d2}
    Nil = Nil
    Slack = 1
    Near = 1
    MaxClock = 2
    Daemon = {D1, D2, D3}
    Wrapper = {W1}
    LastPort = 1
    NoPort = NoPort
    MaxMishaps = 1
SPECIFICATION MCSpec
SYMMETRY MCSymmetry
INVARIANTS
    NewestWins
    
    CardsShowTheirOwn
    ReplyAfterPrompt
    
    OneHome

CHECK_DEADLOCK FALSE
