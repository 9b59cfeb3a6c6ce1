CONSTANTS
    Sessions = {s1}
    Incarnations = {i1}
    ClaimIds = {c1}
    LeaseIds = {l1}
    None = None
    Repositories = {repo}
    Worktrees = {s1}
    ProviderRefs = {pr1}
    Components = {dirA, dirB}
    repo = repo
    dirA = dirA
    dirB = dirB
    pr1 = pr1
    launched = i1
    Inputs <- OneInput
    TargetSets <- OneTargetSet
    ProviderTargetSets <- OneProviderTargetSet
    Checkout <- MCCheckout
    MaxWorktrees = 2
    Descendants = {"none", "live"}
    Phases = {"working", "stopping", "quiet", "needs_input", "waiting", "unknown"}
    Ttl = 2
    RenewMargin = 1
    Gap = 1
    Grace = 1
    Retention = 1
    EventTtl = 3
    MaxEvents = 2
    MaxRevision = 2
SPECIFICATION TurnsSpec
INVARIANTS
    AcceptedCompletionFits
PROPERTIES
    OutcomeWins
    NeverPreempted
    LeaseReclaimed
    DeadClaimEnds
