---------------------------- MODULE MCWorkContext ----------------------------
(***************************************************************************)
(* Every pair of scopes over a small tree of paths, one state a pair.      *)
(***************************************************************************)
EXTENDS WorkContext, FiniteSets

CONSTANT MaxDepth   \* bound: components of a path

ASSUME TreeAssumption == MaxDepth \in Nat \ {0} /\ Components # {}

SmallPaths == UNION {[1 .. n -> Components] : n \in 1 .. MaxDepth}

SmallScopes ==
    {s \in [repository : Repositories,
            kind : {"repository", "path_exact", "path_prefix"},
            value : SmallPaths \cup {<<>>}] :
        (s.kind = "repository") = (s.value = <<>>)}

\* Denotes, over the small tree.
SmallDenotes(scope) ==
    IF scope.kind = "repository" THEN SmallPaths
    ELSE IF scope.kind = "path_exact" THEN {scope.value}
    ELSE {path \in SmallPaths : PathIsWithin(path, scope.value)}

VARIABLES left, right

Init == left \in SmallScopes /\ right \in SmallScopes

Next == right' \in SmallScopes /\ left' = left

Spec == Init /\ [][Next]_<<left, right>>

\* scopes_overlap answers yes exactly of two scopes of one repository that
\* have a file in common.
OverlapIsShared ==
    ScopesOverlap(left, right) <=>
        /\ left.repository = right.repository
        /\ SmallDenotes(left) \cap SmallDenotes(right) # {}

\* scope_covers answers yes only of a target all of whose files the claimed
\* scope holds, so what overlaps the target overlaps the claim as well.
CoverIsContained ==
    ScopeCovers(left, right) =>
        /\ left.repository = right.repository
        /\ SmallDenotes(right) \subseteq SmallDenotes(left)
        /\ \A other \in SmallScopes :
            ScopesOverlap(right, other) => ScopesOverlap(left, other)

=============================================================================
