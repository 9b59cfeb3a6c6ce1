CONSTANTS
    MaxLaunch = 1
    MaxMessage = 2
    MaxGeneration = 3
    MaxCrashes = 0
    MaxEpoch = 1
    Retry = 1
    Interval = 1
    MAX_SESSION_MESSAGES = 2
    AlertCount = 2
    Routes = {"native"}
    Kinds <- EveryKind
SPECIFICATION Spec
CHECK_DEADLOCK FALSE
INVARIANTS
    WakeKeyUnused
