CONSTANTS
    Agents = {"codex", "claude"}
    MAX_TRANSIENT_ATTEMPTS = 2
    MaxTurn = 3
    MaxRevision = 7
    MaxCalls = 2
SPECIFICATION FairSpec
INVARIANTS NeverReplayed CapacityBudget ResumedIsWritten
PROPERTIES UserWins ClaimSettles
