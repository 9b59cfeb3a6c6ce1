CONSTANTS
    Keys = {"reply"}
    Replies = {"reply"}
    MaxMsgs = 1
    MaxTime = 3
    MaxIncarnation = 2
    SenderStates = {"ready", "down", "replaced"}
    MaxCrashes = 1
    Lifetime = 2
    Retention = 1
    MaxExpiry = 2
    ParentExpiry = 2
    AckRetention = 1
    TerminalRetention = 0
    MAX_PENDING = 2
    MAX_RETAINED_IDS = 2
    MAX_SESSION_MESSAGES = 2
    MAX_TERMINAL_MESSAGES = 1
    MAX_RECEIPTS = 1
SPECIFICATION FairSpec
CHECK_DEADLOCK FALSE
INVARIANTS
    AtMostOnce
    OutcomeIsTrue
    ReplySettles
PROPERTIES
    OutcomeReached
    FailureIsTold
