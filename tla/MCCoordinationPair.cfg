CONSTANTS
    Sessions = {s1, s2}
    Incarnations = {i1}
    ClaimIds = {c1, c2, c3}
    LeaseIds = {l1, l2}
    None = None
    Repositories = {repo}
    Worktrees = {s1, s2}
    ProviderRefs = {pr1}
    Components = {dirA, dirB}
    repo = repo
    dirA = dirA
    dirB = dirB
    pr1 = pr1
    launched = i1
    Inputs <- MCInputs
    TargetSets <- MCTargetSets
    ProviderTargetSets <- MCProviderTargetSets
    Checkout <- MCCheckout
    MaxWorktrees = 2
    Descendants = {"none"}
    Phases = {"working", "waiting"}
    Ttl = 1
    RenewMargin = 0
    Gap = 1
    Grace = 1
    Retention = 1
    EventTtl = 1
    MaxEvents = 1
    MaxRevision = 2
SPECIFICATION PairSpec
SYMMETRY Symmetry
INVARIANTS
    MutationExclusion
PROPERTIES
    ImplementsLock
