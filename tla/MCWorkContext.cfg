CONSTANTS
    Repositories = {r1, r2}
    Worktrees = {}
    ProviderRefs = {}
    Components = {a, b}
    MaxDepth = 3
SPECIFICATION Spec
INVARIANTS
    OverlapIsShared
    CoverIsContained
