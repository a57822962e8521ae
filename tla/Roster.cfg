CONSTANTS
    m1 = m1
    m2 = m2
    NoMac = NoMac
    Macs = {m1, m2}
    MaxDevices = 2
SPECIFICATION Spec
SYMMETRY DevicesAlike
CONSTRAINT OneKindOfCollision
INVARIANTS
    TypeOK
    UniqueMacs
    OnlyHelloPartsPeers
    OnlyDataMisplacesUid
    OnlyPollOutlivesTarget
