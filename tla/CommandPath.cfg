CONSTANTS
    d1 = d1
    d2 = d2
    d3 = d3
    r2 = r2
    r3 = r3
    r4 = r4
    r5 = r5
    NoRequest = NoRequest
    Devices = {d1, d2, d3}
    Requests = {r2, r4, r5}
    Target <- MCTarget
    Frags <- MCFrags
    Pages <- MCPages
    MaxPending = 2
    MaxAttempts = 1
    MaxExecs = 1
    MaxDevices = 2
    MaxReaps = 1
SPECIFICATION PathSpec
CHECK_DEADLOCK FALSE
PROPERTIES
    OneAnswerEach
    NoTruncatedBurst
    NoReplyThrownAway
    FullOnlyAfterReap
