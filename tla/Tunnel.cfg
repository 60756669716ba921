CONSTANTS
    Req = {r1}
    Wsid = {w1}
    MaxMsgs = 2
    MaxSends = 1
    MaxCuts = 1
    MaxNet = 2
SPECIFICATION FairSpec
INVARIANTS
    StreamIntact
PROPERTIES
    CallsAreCalls
    CallSettles
    SocketsSettle
CHECK_DEADLOCK FALSE
