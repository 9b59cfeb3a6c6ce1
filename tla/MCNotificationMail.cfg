CONSTANTS
    MaxLaunch = 1
    MaxMessage = 2
    MaxGeneration = 4
    MaxCrashes = 0
    MaxEpoch = 1
    Retry = 1
    Interval = 1
    MAX_SESSION_MESSAGES = 2
    AlertCount = 1
    Routes = {"native"}
    Kinds <- Windowed
SPECIFICATION FairSpec
CHECK_DEADLOCK FALSE
INVARIANTS
    NoSilentMail
    UrgentBypasses
PROPERTIES
    QueuedIsTried
