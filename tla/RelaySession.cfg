CONSTANTS
    d1 = d1
    d2 = d2
    f1 = f1
    f2 = f2
    f3 = f3
    Nobody = Nobody
    NoFile = NoFile
    Devices = {d1, d2}
    Files = {f1, f2, f3}
    Wants <- MCWants
    Size <- MCSize
    Length <- MCLength
    ChunkUnits = 2
    FragsPerChunk = 2
    MaxAttempts = 2
SPECIFICATION FairSpec
INVARIANTS
    TypeOK
    OneRelayAtATime
    ChunkIsNextInStream
PROPERTIES
    
    RelayEnds
