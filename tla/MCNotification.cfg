CONSTANTS
    MaxLaunch = 2
    MaxMessage = 1
    MaxGeneration = 3
    MaxCrashes = 1
    MaxEpoch = 1
    Retry = 1
    Interval = 1
    MAX_SESSION_MESSAGES = 1
    AlertCount = 1
    Routes = {"structured", "hook", "none"}
    Kinds <- EveryKind
SPECIFICATION Spec
CHECK_DEADLOCK FALSE
INVARIANTS
    TypeOK
    NoDoubleWake
    NoSilentMail
    AttemptOnRunning
