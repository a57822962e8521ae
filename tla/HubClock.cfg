SPECIFICATION ClockSpec
CONSTANTS
    MaxInFlight = 3
INVARIANTS
    ClockTypeOK
    NewestReadingKept
    SampleSound
PROPERTIES
    SyncedByBackend
