CONSTANTS
    Registers <- MCRegisters
    Networks = {"home"}
    Threshold = 3
SPECIFICATION StartupFairSpec
INVARIANTS
    StartupTypeOK
    WifiImpliesIdentity
    TargetComplete
    SetupMeansFresh
    ConfiguredIsVerified
PROPERTIES
    SettingsKept
    CounterForgotten
