CONSTANTS
    d1 = d1
    d2 = d2
    r1 = r1
    r2 = r2
    r3 = r3
    NoRequest = NoRequest
    Devices = {d1}
    Requests = {r1, r2}
    Target <- MCTarget
    Frags <- MCFrags
    Pages <- MCPages
    MaxPending = 2
    MaxAttempts = 2
    MaxExecs = 2
SPECIFICATION FairSpec
CHECK_DEADLOCK FALSE
INVARIANTS
    TypeOK
    OneCommandPerDevice
    NoRequestForgotten
    AnswerWellFormed
PROPERTIES
    ImplementsCommandService
    OneResendPastAck
    CommandsAnswered
