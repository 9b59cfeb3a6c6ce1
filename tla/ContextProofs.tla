---------------------------- MODULE ContextProofs ----------------------------
(***************************************************************************)
(* scopes_overlap and scope_covers mean what they should, for trees of any *)
(* depth and any path components: overlap is a common file, coverage is    *)
(* containment.  The pairs of scopes are those of MCWorkContext, which TLC *)
(* enumerates over one small tree.                                         *)
(***************************************************************************)
EXTENDS MCWorkContext, TLAPS

\* A path of the tree is a sequence of components that is not empty.
LEMMA SmallPath ==
    ASSUME NEW p \in SmallPaths
    PROVE  p \in Seq(Components) /\ Len(p) \in Nat \ {0} /\ p # <<>>
<1>1. PICK n \in 1 .. MaxDepth : p \in [1 .. n -> Components]
  BY DEF SmallPaths
<1>2. n \in Nat \ {0}
  BY <1>1, TreeAssumption
<1>3. p \in Seq(Components) /\ Len(p) = n
  BY <1>1, <1>2
<1> QED BY <1>2, <1>3

LEMMA SomePath == \E p : p \in SmallPaths
<1>1. PICK c : c \in Components
  BY TreeAssumption
<1>2. [i \in 1 .. 1 |-> c] \in [1 .. 1 -> Components]
  BY <1>1
<1>3. 1 \in 1 .. MaxDepth
  BY TreeAssumption
<1> QED BY <1>2, <1>3 DEF SmallPaths

LEMMA SmallScope ==
    ASSUME NEW s \in SmallScopes
    PROVE  /\ s.kind \in {"repository", "path_exact", "path_prefix"}
           /\ s.kind # "repository" => s.value \in SmallPaths
BY DEF SmallScopes

\* A path lies within itself, and within what a directory above it lies in.
LEMMA Itself ==
    ASSUME NEW p \in SmallPaths
    PROVE  PathIsWithin(p, p)
BY SmallPath DEF PathIsWithin

LEMMA Nested ==
    ASSUME NEW p \in SmallPaths, NEW q \in SmallPaths, NEW r \in SmallPaths,
           PathIsWithin(p, q), PathIsWithin(q, r)
    PROVE  PathIsWithin(p, r)
BY SmallPath DEF PathIsWithin

\* Of two directories above one path, one lies in the other.
LEMMA OnOneLine ==
    ASSUME NEW p \in SmallPaths, NEW q \in SmallPaths, NEW r \in SmallPaths,
           PathIsWithin(p, q), PathIsWithin(p, r)
    PROVE  PathIsWithin(q, r) \/ PathIsWithin(r, q)
<1>1. CASE Len(q) <= Len(r)
  BY <1>1, SmallPath DEF PathIsWithin
<1>2. CASE Len(r) <= Len(q)
  BY <1>2, SmallPath DEF PathIsWithin
<1> QED BY <1>1, <1>2, SmallPath

\* Every scope holds a file of the tree.
LEMMA NotEmpty ==
    ASSUME NEW s \in SmallScopes
    PROVE  SmallDenotes(s) # {} /\ SmallDenotes(s) \subseteq SmallPaths
<1>1. CASE s.kind = "repository"
  BY <1>1, SomePath DEF SmallDenotes
<1>2. CASE s.kind = "path_exact"
  BY <1>2, SmallScope DEF SmallDenotes
<1>3. CASE s.kind = "path_prefix"
  BY <1>3, SmallScope, Itself DEF SmallDenotes
<1> QED BY <1>1, <1>2, <1>3, SmallScope

\* Two scopes overlap exactly if they share a file.
LEMMA Shared ==
    ASSUME NEW a \in SmallScopes, NEW b \in SmallScopes
    PROVE  ScopesOverlap(a, b) <=>
               /\ a.repository = b.repository
               /\ SmallDenotes(a) \cap SmallDenotes(b) # {}
<1> SUFFICES ASSUME a.repository = b.repository
             PROVE  ScopesOverlap(a, b) <=> SmallDenotes(a) \cap SmallDenotes(b) # {}
  BY DEF ScopesOverlap
<1>1. CASE a.kind = "repository" \/ b.kind = "repository"
  <2>1. ScopesOverlap(a, b)
    BY <1>1 DEF ScopesOverlap
  <2>2. SmallDenotes(a) = SmallPaths \/ SmallDenotes(b) = SmallPaths
    BY <1>1 DEF SmallDenotes
  <2> QED BY <2>1, <2>2, NotEmpty
<1>2. CASE a.kind = "path_exact" /\ b.kind = "path_exact"
  BY <1>2 DEF ScopesOverlap, SmallDenotes
<1>3. CASE a.kind = "path_exact" /\ b.kind = "path_prefix"
  BY <1>3, SmallScope DEF ScopesOverlap, SmallDenotes
<1>4. CASE a.kind = "path_prefix" /\ b.kind = "path_exact"
  BY <1>4, SmallScope DEF ScopesOverlap, SmallDenotes
<1>5. CASE a.kind = "path_prefix" /\ b.kind = "path_prefix"
  <2>1. /\ a.value \in SmallPaths /\ b.value \in SmallPaths
        /\ SmallDenotes(a) = {p \in SmallPaths : PathIsWithin(p, a.value)}
        /\ SmallDenotes(b) = {p \in SmallPaths : PathIsWithin(p, b.value)}
        /\ ScopesOverlap(a, b) <=> (\/ PathIsWithin(a.value, b.value)
                                    \/ PathIsWithin(b.value, a.value))
    BY <1>5, SmallScope DEF ScopesOverlap, SmallDenotes
  <2>2. PathIsWithin(a.value, a.value) /\ PathIsWithin(b.value, b.value)
    BY <2>1, Itself
  <2>3. ScopesOverlap(a, b) => SmallDenotes(a) \cap SmallDenotes(b) # {}
    BY <2>1, <2>2
  <2>4. ASSUME NEW p \in SmallDenotes(a) \cap SmallDenotes(b)
        PROVE  ScopesOverlap(a, b)
    BY <2>1, <2>4, OnOneLine
  <2> QED BY <2>3, <2>4
<1> QED BY <1>1, <1>2, <1>3, <1>4, <1>5, SmallScope

\* A covered target holds no file that the claim does not hold.
LEMMA Contained ==
    ASSUME NEW a \in SmallScopes, NEW b \in SmallScopes, ScopeCovers(a, b)
    PROVE  a.repository = b.repository /\ SmallDenotes(b) \subseteq SmallDenotes(a)
<1>1. a.repository = b.repository
  BY DEF ScopeCovers
<1>2. CASE a.kind = "repository"
  BY <1>1, <1>2, NotEmpty DEF SmallDenotes
<1>3. CASE a.kind = "path_exact"
  BY <1>1, <1>3 DEF ScopeCovers, SmallDenotes
<1>4. CASE a.kind = "path_prefix"
  <2>1. /\ b.kind \in {"path_exact", "path_prefix"}
        /\ PathIsWithin(b.value, a.value)
        /\ a.value \in SmallPaths /\ b.value \in SmallPaths
    BY <1>4, SmallScope DEF ScopeCovers
  <2>2. \A p \in SmallPaths : PathIsWithin(p, b.value) => PathIsWithin(p, a.value)
    BY <2>1, Nested
  <2> QED BY <1>1, <1>4, <2>1, <2>2 DEF SmallDenotes
<1> QED BY <1>2, <1>3, <1>4, SmallScope

TwoScopes == left \in SmallScopes /\ right \in SmallScopes

LEMMA Pairs == Spec => []TwoScopes
<1>1. Init => TwoScopes
  BY DEF Init, TwoScopes
<1>2. TwoScopes /\ [Next]_<<left, right>> => TwoScopes'
  BY DEF Next, TwoScopes
<1> QED BY <1>1, <1>2, PTL DEF Spec

\* scopes_overlap answers yes exactly of two scopes of one repository with a
\* file in common, in a tree of any depth over any components.
THEOREM OverlapTheorem == Spec => []OverlapIsShared
<1>1. TwoScopes => OverlapIsShared
  BY Shared DEF OverlapIsShared, TwoScopes
<1> QED BY <1>1, Pairs, PTL

\* scope_covers answers yes only of a target whose files the claimed scope
\* holds, and whatever overlaps the target overlaps the claim.
THEOREM CoverTheorem == Spec => []CoverIsContained
<1>1. ASSUME left \in SmallScopes, right \in SmallScopes PROVE CoverIsContained
  <2> SUFFICES ASSUME ScopeCovers(left, right)
               PROVE  /\ left.repository = right.repository
                      /\ SmallDenotes(right) \subseteq SmallDenotes(left)
                      /\ \A other \in SmallScopes :
                          ScopesOverlap(right, other) => ScopesOverlap(left, other)
    BY DEF CoverIsContained
  <2>1. /\ left.repository = right.repository
        /\ SmallDenotes(right) \subseteq SmallDenotes(left)
    BY <1>1, Contained
  <2>2. ASSUME NEW other \in SmallScopes, ScopesOverlap(right, other)
        PROVE  ScopesOverlap(left, other)
    <3>1. /\ right.repository = other.repository
          /\ SmallDenotes(right) \cap SmallDenotes(other) # {}
      BY <1>1, <2>2, Shared
    <3>2. SmallDenotes(left) \cap SmallDenotes(other) # {}
      BY <2>1, <3>1
    <3> QED BY <1>1, <2>1, <3>1, <3>2, Shared
  <2> QED BY <2>1, <2>2
<1>2. TwoScopes => CoverIsContained
  BY <1>1 DEF TwoScopes
<1> QED BY <1>2, Pairs, PTL

=============================================================================
