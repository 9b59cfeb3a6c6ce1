----------------------------- MODULE WorkContext -----------------------------
(***************************************************************************)
(* Declared work contexts and when two of them conflict                    *)
(* (coordination/context.rs).  A context names repositories, worktree      *)
(* fingerprints, provider references and scopes; a scope is a whole        *)
(* repository, one path, or everything below a path.  A path is the        *)
(* sequence of its components, as canonical_relative_path leaves it; the   *)
(* value "." of a repository scope is the empty sequence.                  *)
(***************************************************************************)
EXTENDS Naturals, Sequences

CONSTANTS
    Repositories,   \* canonical owner/name pairs
    Worktrees,      \* worktree fingerprints of the current epoch
    ProviderRefs,   \* provider references (kind, repository, number)
    Components      \* path components

Paths == Seq(Components) \ {<<>>}

Scope ==
    [repository : Repositories, kind : {"repository"}, value : {<<>>}]
    \cup [repository : Repositories, kind : {"path_exact", "path_prefix"},
          value : Paths]

\* What validate_and_canonicalize lets through: a scope's repository is one
\* the context declares.
Context ==
    {c \in [repositories : SUBSET Repositories, worktrees : SUBSET Worktrees,
            provider_refs : SUBSET ProviderRefs, scopes : SUBSET Scope] :
        \A scope \in c.scopes : scope.repository \in c.repositories}

\* path is prefix itself or lies below it: prefix, then a separator.
PathIsWithin(path, prefix) ==
    /\ Len(prefix) <= Len(path)
    /\ \A i \in 1 .. Len(prefix) : path[i] = prefix[i]

\* Mutant: only the exact path and what lies below the left one.
ScopesOverlapOneWay(left, right) ==
    /\ left.repository = right.repository
    /\ \/ "repository" \in {left.kind, right.kind}
       \/ left.kind = "path_exact" /\ right.kind = "path_exact"
            /\ left.value = right.value
       \/ right.kind = "path_prefix" /\ PathIsWithin(left.value, right.value)

ScopesOverlap(left, right) ==
    /\ left.repository = right.repository
    /\ \/ left.kind = "repository"
       \/ right.kind = "repository"
       \/ /\ left.kind = "path_exact" /\ right.kind = "path_exact"
          /\ left.value = right.value
       \/ /\ left.kind = "path_exact" /\ right.kind = "path_prefix"
          /\ PathIsWithin(left.value, right.value)
       \/ /\ left.kind = "path_prefix" /\ right.kind = "path_exact"
          /\ PathIsWithin(right.value, left.value)
       \/ /\ left.kind = "path_prefix" /\ right.kind = "path_prefix"
          /\ \/ PathIsWithin(left.value, right.value)
             \/ PathIsWithin(right.value, left.value)

\* Mutant: an exact claim covers everything below its path.
ScopeCoversBelow(claim, target) ==
    /\ claim.repository = target.repository
    /\ \/ claim.kind = "repository"
       \/ /\ claim.kind \in {"path_exact", "path_prefix"}
          /\ target.kind \in {"path_exact", "path_prefix"}
          /\ PathIsWithin(target.value, claim.value)

ScopeCovers(claim, target) ==
    /\ claim.repository = target.repository
    /\ \/ claim.kind = "repository"
       \/ /\ claim.kind = "path_exact" /\ target.kind = "path_exact"
          /\ claim.value = target.value
       \/ /\ claim.kind = "path_prefix"
          /\ target.kind \in {"path_exact", "path_prefix"}
          /\ PathIsWithin(target.value, claim.value)

\* evaluate, one peer at a time: the reasons that make its verdict Conflict.
\* PotentialConflict, Unknown, NoKnownConflict and Clear block nothing.
Conflict(candidate, peer) ==
    \/ candidate.worktrees \cap peer.worktrees # {}
    \/ candidate.provider_refs \cap peer.provider_refs # {}
    \/ \E repository \in candidate.repositories \cap peer.repositories :
        \E left \in candidate.scopes, right \in peer.scopes :
            /\ left.repository = repository
            /\ right.repository = repository
            /\ ScopesOverlap(left, right)

\* The targets of an operation lie inside a context (admit).
Covered(context, targets, providerTargets) ==
    /\ \A target \in targets :
        \E scope \in context.scopes : ScopeCovers(scope, target)
    /\ providerTargets \subseteq context.provider_refs

-----------------------------------------------------------------------------
(* What a scope stands for: the files it may touch.                        *)

Denotes(scope) ==
    IF scope.kind = "repository" THEN Paths
    ELSE IF scope.kind = "path_exact" THEN {scope.value}
    ELSE {path \in Paths : PathIsWithin(path, scope.value)}

=============================================================================
