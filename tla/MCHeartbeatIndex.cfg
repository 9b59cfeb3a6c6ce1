CONSTANTS
    Sessions = {s1}
    Authorities = {a1, a2}
    NoAuthority = a0
    None = None
    BrokerStates = {"ready", "recovering", "degraded"}
    MaxCommits = 3
SPECIFICATION Spec
INVARIANTS
    AuthorityIsCommitted
    SkipIsSafe
