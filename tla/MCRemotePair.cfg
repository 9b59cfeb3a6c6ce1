CONSTANTS
    Keys = {"mail", "reply"}
    Replies = {"reply"}
    MaxMsgs = 2
    MaxTime = 2
    MaxIncarnation = 1
    SenderStates = {"ready"}
    MaxCrashes = 1
    Lifetime = 1
    Retention = 1
    MaxExpiry = 2
    ParentExpiry = 1
    AckRetention = 1
    TerminalRetention = 0
    MAX_PENDING = 1
    MAX_RETAINED_IDS = 2
    MAX_SESSION_MESSAGES = 2
    MAX_TERMINAL_MESSAGES = 1
    MAX_RECEIPTS = 1
SPECIFICATION Spec
CHECK_DEADLOCK FALSE
INVARIANTS
    KeyNamesOneMessage
    AtMostOnce
    LiveReceiptKept
VIEW PairView
