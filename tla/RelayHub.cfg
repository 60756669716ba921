SPECIFICATION MCSpec
CONSTANTS
    Phone = {p1, p2}
    OneTime = {c1}
    MaxUnauth = 2
    MaxGen = 2
    MaxUp = 1
    MaxDown = 1
    MaxLosses = 1
    MaxClaims = 2
    None = None
    here = here
    there = there
    guess = guess
    near = near
    far = far
    Token = {lasting, once, guess}
    Kept = {lasting}
    Daemon = {here, there}
    Nobody = Nobody
    DrawnBy <- MCDrawnBy
    Prefix = {near, far}
    PrefixOf <- MCPrefixOf
    Ttl = 1
    RateWindow = 2
    RateLimit = 2
    FailWindow = 2
    FailMax = 2
    MaxPending = 1
    MaxBuckets = 1
    MaxNow = 3
    MaxCalls = 2
SYMMETRY Symmetry
INVARIANTS
    OneTimeCodePairsOne
    
    BelieverIsListed
    LimitsHold
PROPERTIES
    KeepsCodes
CHECK_DEADLOCK FALSE
