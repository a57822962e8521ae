CONSTANTS
    Channels = {"stable", "beta"}
    Stable = "stable"
    LastRelease <- MCLastRelease
    FileUnits = 1
    MaxAnswers = 1
SPECIFICATION PolicyFairSpec
INVARIANTS
    PolicyTypeOK
    BootImageSound
    OpenOnlyAfterMismatch
    CorrectionUnderWay
PROPERTIES
    RequiredUpdateInstalled
    PairingLockLifted
