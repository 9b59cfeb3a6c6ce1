CONSTANTS
    Sessions = {s1}
    Incarnations = {i1, i2}
    ClaimIds = {c1}
    LeaseIds = {l1}
    None = None
    Repositories = {repo}
    Worktrees = {s1}
    ProviderRefs = {pr1}
    Components = {dirA, dirB}
    repo = repo
    dirA = dirA
    dirB = dirB
    pr1 = pr1
    launched = i1
    Inputs <- OneInput
    TargetSets <- OneTargetSet
    ProviderTargetSets <- OneProviderTargetSet
    Checkout <- MCCheckout
    MaxWorktrees = 2
    Descendants = {"none"}
    Phases = {"working", "waiting"}
    Ttl = 1
    RenewMargin = 0
    Gap = 1
    Grace = 1
    Retention = 1
    EventTtl = 2
    MaxEvents = 1
    MaxRevision = 2
SPECIFICATION Spec
SYMMETRY Symmetry
INVARIANTS
    TypeOK
    OperationFence
    ClaimAnswered
    AcceptedCompletionFits
PROPERTIES
    NeverPreempted
