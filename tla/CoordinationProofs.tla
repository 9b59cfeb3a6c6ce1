------------------------- MODULE CoordinationProofs -------------------------
(***************************************************************************)
(* Operation leases are mutually exclusive, for any number of sessions,    *)
(* launches, claims and leases and for any timing constants.               *)
(*                                                                         *)
(* The inductive invariant is Safe: open leases are fenced by their claim  *)
(* (Fenced), a session has at most one (Single), and the contexts of two   *)
(* do not conflict (Disjoint).  Fenced alone is inductive; Disjoint needs  *)
(* the other two, because admit compares claims and looks only at the      *)
(* claims of other principals.  Every action but Admit keeps (Keeps), and  *)
(* what keeps is safe.                                                     *)
(***************************************************************************)
EXTENDS Coordination, SequenceTheorems, FiniteSetTheorems, WellFoundedInduction,
        TLAPS

-----------------------------------------------------------------------------
(* Work contexts: what evaluate and the coverage test of admit have to do  *)
(* with each other.  Operations covered by contexts that do not conflict   *)
(* have no target in common.                                               *)

\* Two directories above the same path lie one below the other.
LEMMA Comparable ==
    ASSUME NEW p \in Seq(Components), NEW q \in Seq(Components),
           NEW r \in Seq(Components),
           PathIsWithin(p, q), PathIsWithin(p, r)
    PROVE  PathIsWithin(q, r) \/ PathIsWithin(r, q)
<1>1. CASE Len(q) <= Len(r)
  BY <1>1 DEF PathIsWithin
<1>2. CASE Len(r) <= Len(q)
  BY <1>2 DEF PathIsWithin
<1> QED BY <1>1, <1>2

\* Below is transitive.
LEMMA WithinTransitive ==
    ASSUME NEW p \in Seq(Components), NEW q \in Seq(Components),
           NEW r \in Seq(Components),
           PathIsWithin(p, q), PathIsWithin(q, r)
    PROVE  PathIsWithin(p, r)
BY DEF PathIsWithin

LEMMA WithinItself ==
    ASSUME NEW p \in Seq(Components)
    PROVE  PathIsWithin(p, p)
BY DEF PathIsWithin

LEMMA ScopeValue ==
    ASSUME NEW scope \in Scope
    PROVE  /\ scope.value \in Seq(Components)
           /\ scope.kind \in {"repository", "path_exact", "path_prefix"}
           /\ scope.repository \in Repositories
<1>1. <<>> \in Seq(Components) OBVIOUS
<1> QED BY <1>1 DEF Scope, Paths

\* evaluate does not depend on who is the candidate.
LEMMA OverlapSymmetric ==
    ASSUME NEW a, NEW b
    PROVE  ScopesOverlap(a, b) <=> ScopesOverlap(b, a)
BY DEF ScopesOverlap

LEMMA ConflictSymmetric ==
    ASSUME NEW c, NEW d
    PROVE  Conflict(c, d) <=> Conflict(d, c)
<1>1. \A a, b : ScopesOverlap(a, b) <=> ScopesOverlap(b, a)
  BY OverlapSymmetric
<1> QED BY <1>1 DEF Conflict

\* A scope that covers a target overlaps whatever the target overlaps.
LEMMA OverlapLifts ==
    ASSUME NEW a \in Scope, NEW b \in Scope, NEW t \in Scope, NEW u \in Scope,
           ScopeCovers(a, t), ScopeCovers(b, u), ScopesOverlap(t, u)
    PROVE  ScopesOverlap(a, b)
<1>1. a.repository = b.repository
  BY DEF ScopeCovers, ScopesOverlap
<1>2. CASE "repository" \in {a.kind, b.kind}
  BY <1>1, <1>2 DEF ScopesOverlap
<1>3. CASE ~("repository" \in {a.kind, b.kind})
  <2>1. /\ a.value \in Seq(Components) /\ b.value \in Seq(Components)
        /\ t.value \in Seq(Components) /\ u.value \in Seq(Components)
        /\ a.kind \in {"path_exact", "path_prefix"}
        /\ b.kind \in {"path_exact", "path_prefix"}
    BY <1>3, ScopeValue
  <2>2. /\ t.kind \in {"path_exact", "path_prefix"}
        /\ u.kind \in {"path_exact", "path_prefix"}
        /\ a.kind = "path_exact" => t.kind = "path_exact" /\ a.value = t.value
        /\ b.kind = "path_exact" => u.kind = "path_exact" /\ b.value = u.value
    BY <1>3, <2>1 DEF ScopeCovers
  <2>3. PathIsWithin(t.value, a.value) /\ PathIsWithin(u.value, b.value)
    BY <1>3, <2>1, WithinItself DEF ScopeCovers
  <2>4. PathIsWithin(t.value, u.value) \/ PathIsWithin(u.value, t.value)
    BY <2>1, <2>2, WithinItself DEF ScopesOverlap
  <2>5. PathIsWithin(t.value, b.value) \/ PathIsWithin(u.value, a.value)
    BY <2>1, <2>3, <2>4, WithinTransitive
  <2>6. PathIsWithin(a.value, b.value) \/ PathIsWithin(b.value, a.value)
    BY <2>1, <2>3, <2>5, Comparable
  <2>7. CASE a.kind = "path_exact" /\ b.kind = "path_exact"
    <3>1. a.value = b.value
      BY <2>2, <2>7 DEF ScopesOverlap
    <3> QED BY <1>1, <2>7, <3>1 DEF ScopesOverlap
  <2>8. CASE a.kind = "path_exact" /\ b.kind = "path_prefix"
    <3>1. PathIsWithin(a.value, b.value)
      <4>1. CASE u.kind = "path_exact"
        <5>1. t.kind = "path_exact" /\ t.value = a.value
          BY <2>2, <2>8
        <5>2. t.value = u.value
          BY <4>1, <5>1 DEF ScopesOverlap
        <5> QED BY <2>3, <5>1, <5>2
      <4>2. CASE u.kind = "path_prefix"
        <5>1. t.kind = "path_exact" /\ t.value = a.value
          BY <2>2, <2>8
        <5>2. PathIsWithin(t.value, u.value)
          BY <4>2, <5>1 DEF ScopesOverlap
        <5> QED BY <2>1, <2>3, <5>1, <5>2, WithinTransitive
      <4> QED BY <2>2, <4>1, <4>2
    <3> QED BY <1>1, <2>8, <3>1 DEF ScopesOverlap
  <2>9. CASE a.kind = "path_prefix" /\ b.kind = "path_exact"
    <3>1. PathIsWithin(b.value, a.value)
      <4>1. CASE t.kind = "path_exact"
        <5>1. u.kind = "path_exact" /\ u.value = b.value
          BY <2>2, <2>9
        <5>2. t.value = u.value
          BY <4>1, <5>1 DEF ScopesOverlap
        <5> QED BY <2>3, <5>1, <5>2
      <4>2. CASE t.kind = "path_prefix"
        <5>1. u.kind = "path_exact" /\ u.value = b.value
          BY <2>2, <2>9
        <5>2. PathIsWithin(u.value, t.value)
          BY <4>2, <5>1 DEF ScopesOverlap
        <5> QED BY <2>1, <2>3, <5>1, <5>2, WithinTransitive
      <4> QED BY <2>2, <4>1, <4>2
    <3> QED BY <1>1, <2>9, <3>1 DEF ScopesOverlap
  <2>10. CASE a.kind = "path_prefix" /\ b.kind = "path_prefix"
    BY <1>1, <2>6, <2>10 DEF ScopesOverlap
  <2> QED BY <2>1, <2>7, <2>8, <2>9, <2>10
<1> QED BY <1>2, <1>3

\* Operations under contexts that do not conflict have disjoint targets: the
\* conflict test on claims (evaluate) protects every covered operation (admit).
THEOREM CoveredApart ==
    ASSUME NEW c \in Context, NEW d \in Context,
           NEW T \in SUBSET Scope, NEW U \in SUBSET Scope, NEW P, NEW Q,
           Covered(c, T, P), Covered(d, U, Q), ~Conflict(c, d)
    PROVE  /\ P \cap Q = {}
           /\ \A t \in T, u \in U : ~ScopesOverlap(t, u)
<1>1. P \cap Q = {}
  BY DEF Covered, Conflict
<1>2. ASSUME NEW t \in T, NEW u \in U, ScopesOverlap(t, u) PROVE FALSE
  <2>1. PICK a \in c.scopes : ScopeCovers(a, t)
    BY DEF Covered
  <2>2. PICK b \in d.scopes : ScopeCovers(b, u)
    BY DEF Covered
  <2>3. /\ a \in Scope /\ b \in Scope
        /\ a.repository \in c.repositories /\ b.repository \in d.repositories
    BY DEF Context
  <2>4. ScopesOverlap(a, b)
    BY <1>2, <2>1, <2>2, <2>3, OverlapLifts
  <2>5. a.repository = b.repository
    BY <2>4 DEF ScopesOverlap
  <2> QED BY <2>3, <2>4, <2>5 DEF Conflict
<1> QED BY <1>1, <1>2

-----------------------------------------------------------------------------
(* Registries: what their functions do to open leases and the claims that  *)
(* back them.  Keeps(R, S) says that S locks nothing that R did not: its   *)
(* open leases are open in R with the same holder, claim and targets, and  *)
(* their claims stand.  Maintenance, draining, cleaning and every way of   *)
(* giving claims up keep; only admit does not.                             *)

SameHold(x, y) ==
    /\ x.session = y.session
    /\ x.inc = y.inc
    /\ x.claim = y.claim
    /\ x.targets = y.targets
    /\ x.provider_targets = y.provider_targets

\* The leases open in S are open in R, and are the same locks.
Shrinks(R, S) ==
    \A l \in LeaseIds : OpenLease(S, l) =>
        OpenLease(R, l) /\ SameHold(R.leases[l], S.leases[l])

Stands(R, S, c) ==
    ActiveClaim(R, c) =>
        /\ ActiveClaim(S, c)
        /\ S.claims[c].session = R.claims[c].session
        /\ S.claims[c].inc = R.claims[c].inc
        /\ S.claims[c].context = R.claims[c].context

\* The claims of the leases open in S have not moved since R.
Backs(R, S) ==
    \A l \in LeaseIds : OpenLease(S, l) => Stands(R, S, S.leases[l].claim)

Keeps(R, S) == Shrinks(R, S) /\ Backs(R, S)

\* An open lease has the fields of one.
LEMMA OpenIsLease ==
    ASSUME NEW R \in Registry, NEW l \in LeaseIds, OpenLease(R, l)
    PROVE  R.leases[l] \in Lease
BY DEF Registry, OpenLease, ClosedLease, Open, Closed

LEMMA ActiveIsClaim ==
    ASSUME NEW R \in Registry, NEW c \in ClaimIds, ActiveClaim(R, c)
    PROVE  R.claims[c] \in Claim
BY DEF Registry, ActiveClaim, ClosedClaim

\* A declared context is a context.
LEMMA DeclarableIsContext == Declarable \subseteq Context
<1> SUFFICES ASSUME NEW s \in Sessions, NEW input \in Inputs
             PROVE  WithCheckout(s, input) \in Context
  BY DEF Declarable
<1>1. input \in Context /\ Checkout[s] \in Worktrees
  BY InputAssumption
<1> QED BY <1>1 DEF Context, WithCheckout

LEMMA KeepsItself ==
    ASSUME NEW R
    PROVE  Keeps(R, R)
BY DEF Keeps, Shrinks, Backs, Stands, SameHold

LEMMA KeepsTransitive ==
    ASSUME NEW R, NEW S, NEW T, Keeps(R, S), Keeps(S, T)
    PROVE  Keeps(R, T)
<1>1. Shrinks(R, T)
  BY DEF Keeps, Shrinks, SameHold
<1>2. ASSUME NEW l \in LeaseIds, OpenLease(T, l)
      PROVE  Stands(R, T, T.leases[l].claim)
  <2>1. OpenLease(S, l) /\ S.leases[l].claim = T.leases[l].claim
    BY <1>2 DEF Keeps, Shrinks, SameHold
  <2>2. Stands(R, S, T.leases[l].claim) /\ Stands(S, T, T.leases[l].claim)
    BY <1>2, <2>1 DEF Keeps, Backs
  <2> QED BY <2>2 DEF Stands
<1> QED BY <1>1, <1>2 DEF Keeps, Backs

LEMMA CloseLeaseType ==
    ASSUME NEW x \in Lease, NEW state \in Closed
    PROVE  CloseLease(x, state) \in ClosedLease
BY BoundAssumption DEF CloseLease, ClosedLease, Lease

LEMMA CloseClaimType ==
    ASSUME NEW state \in {"released", "expired"}
    PROVE  CloseClaim(state) \in ClosedClaim
BY BoundAssumption DEF CloseClaim, ClosedClaim

LEMMA ClosedIsNotOpen ==
    ASSUME NEW R, NEW l, R.leases[l] \in ClosedLease
    PROVE  ~OpenLease(R, l)
BY DEF OpenLease, ClosedLease, Open, Closed

\* Leases that stay, close or change other fields, with the claims in place.
LEMMA KeepsByLeases ==
    ASSUME NEW R, NEW S, S.claims = R.claims,
           \A l \in LeaseIds :
              \/ S.leases[l] = R.leases[l]
              \/ S.leases[l] \in ClosedLease
              \/ S.leases[l] = None
              \/ OpenLease(R, l) /\ SameHold(R.leases[l], S.leases[l])
    PROVE  Keeps(R, S)
<1>1. Shrinks(R, S)
  <2> SUFFICES ASSUME NEW l \in LeaseIds, OpenLease(S, l)
               PROVE  OpenLease(R, l) /\ SameHold(R.leases[l], S.leases[l])
    BY DEF Shrinks
  <2>1. S.leases[l] \notin ClosedLease /\ S.leases[l] # None
    BY ClosedIsNotOpen DEF OpenLease
  <2>2. CASE S.leases[l] = R.leases[l]
    BY <2>2 DEF OpenLease, SameHold
  <2> QED BY <2>1, <2>2
<1>2. Backs(R, S)
  BY DEF Backs, Stands, ActiveClaim
<1> QED BY <1>1, <1>2 DEF Keeps

\* Claims that stay, change other fields or close without an open lease.
LEMMA KeepsByClaims ==
    ASSUME NEW R, NEW S, S.leases = R.leases,
           \A c \in ClaimIds :
              \/ S.claims[c] = R.claims[c]
              \/ ~HasOpenLease(R, c)
              \/ Stands(R, S, c),
           \A l \in LeaseIds : OpenLease(R, l) => R.leases[l].claim \in ClaimIds
    PROVE  Keeps(R, S)
<1>1. Shrinks(R, S)
  BY DEF Shrinks, OpenLease, SameHold
<1>2. ASSUME NEW l \in LeaseIds, OpenLease(S, l)
      PROVE  Stands(R, S, S.leases[l].claim)
  <2>1. OpenLease(R, l) /\ HasOpenLease(R, R.leases[l].claim)
    BY <1>2 DEF OpenLease, HasOpenLease
  <2>2. R.leases[l].claim \in ClaimIds /\ S.leases[l].claim = R.leases[l].claim
    BY <2>1
  <2>3. CASE S.claims[R.leases[l].claim] = R.claims[R.leases[l].claim]
    BY <2>2, <2>3 DEF Stands, ActiveClaim
  <2> QED BY <2>1, <2>2, <2>3
<1> QED BY <1>1, <1>2 DEF Keeps, Backs

LEMMA OpenLeaseClaim ==
    ASSUME NEW R \in Registry, NEW l \in LeaseIds, OpenLease(R, l)
    PROVE  R.leases[l].claim \in ClaimIds
BY OpenIsLease DEF Lease

-----------------------------------------------------------------------------
(* Draining.                                                               *)

\* A nonempty set of positions has a first one.
LEMMA FirstIsIn ==
    ASSUME NEW S \in SUBSET Nat, S # {}
    PROVE  First(S) \in S /\ \A m \in S : First(S) <= m
<1> DEFINE T == {1 .. n : n \in S}
<1>1. T \subseteq FiniteSubsetsOf(Nat) /\ T # {}
  <2>1. \A n \in S : 1 .. n \in SUBSET Nat /\ IsFiniteSet(1 .. n)
    BY FS_Interval
  <2> QED BY <2>1 DEF FiniteSubsetsOf
<1>2. PICK X \in T : \A Y \in T : <<Y, X>> \notin StrictSubsetOrdering(Nat)
  BY <1>1, WFMin, FS_StrictSubsetOrderingWellFounded
<1>3. PICK n \in S : X = 1 .. n
  BY <1>2
<1>4. ASSUME NEW m \in S, m < n PROVE FALSE
  <2>1. 1 .. m \in T /\ 1 .. m \subseteq 1 .. n /\ 1 .. m # 1 .. n
    <3>1. n \in 1 .. n /\ n \notin 1 .. m
      BY <1>4
    <3> QED BY <1>4, <3>1
  <2>2. <<1 .. m, 1 .. n>> \in StrictSubsetOrdering(Nat)
    BY <2>1 DEF StrictSubsetOrdering
  <2> QED BY <1>2, <1>3, <2>1, <2>2
<1>5. \A m \in S : n <= m
  BY <1>4
<1> QED BY <1>5 DEF First

\* The events that fit are among the queued ones.
LEMMA FittingIsQueued ==
    ASSUME NEW R \in Registry, NEW l \in LeaseIds, Fitting(R, l) # {}
    PROVE  /\ OpenLease(R, l)
           /\ First(Fitting(R, l)) \in 1 .. Len(R.events[l])
           /\ R.events[l][First(Fitting(R, l))] \in Event
<1>1. OpenLease(R, l) /\ Fitting(R, l) \subseteq 1 .. Len(R.events[l])
  BY DEF Fitting
<1>2. R.events[l] \in Seq(Event)
  BY DEF Registry
<1>3. First(Fitting(R, l)) \in Fitting(R, l)
  BY <1>1, <1>2, FirstIsIn
<1> QED BY <1>1, <1>2, <1>3, ElementOfSeq

\* A queue without one of its events.
LEMMA QueueWithout ==
    ASSUME NEW q \in Seq(Event), NEW n \in 1 .. Len(q)
    PROVE  SubSeq(q, 1, n - 1) \o SubSeq(q, n + 1, Len(q)) \in Seq(Event)
<1>1. Len(q) \in Nat /\ \A i \in 1 .. Len(q) : q[i] \in Event
  BY ElementOfSeq
<1>2. SubSeq(q, 1, n - 1) \in Seq(Event)
  BY <1>1, SubSeqProperties
<1>3. SubSeq(q, n + 1, Len(q)) \in Seq(Event)
  BY <1>1, SubSeqProperties
<1> QED BY <1>2, <1>3, ConcatProperties

\* Draining closes leases with a verdict and takes their events from the queue.
LEMMA DrainKeeps ==
    ASSUME NEW R \in Registry, NEW L
    PROVE  Drain(R, L) \in Registry /\ Keeps(R, Drain(R, L))
<1> DEFINE D == Drain(R, L)
           hit(l) == l \in L /\ Fitting(R, l) # {}
           at(l) == First(Fitting(R, l))
           closed(l) == CloseLease(R.leases[l], Verdict(R.events[l][at(l)].outcome))
           rest(l) == SubSeq(R.events[l], 1, at(l) - 1)
                        \o SubSeq(R.events[l], at(l) + 1, Len(R.events[l]))
           leases == [l \in LeaseIds |-> IF hit(l) THEN closed(l) ELSE R.leases[l]]
           events == [l \in LeaseIds |-> IF hit(l) THEN rest(l) ELSE R.events[l]]
<1>1. D = [R EXCEPT !.leases = leases, !.events = events]
  BY DEF Drain
<1>2. ASSUME NEW l \in LeaseIds, hit(l)
      PROVE  closed(l) \in ClosedLease /\ rest(l) \in Seq(Event)
  <2>1. /\ R.leases[l] \in Lease
        /\ at(l) \in 1 .. Len(R.events[l])
        /\ R.events[l][at(l)] \in Event
    BY <1>2, FittingIsQueued, OpenIsLease
  <2>2. Verdict(R.events[l][at(l)].outcome) \in Closed
    BY DEF Verdict, Closed
  <2>3. R.events[l] \in Seq(Event)
    BY DEF Registry
  <2> QED BY <2>1, <2>2, <2>3, CloseLeaseType, QueueWithout
<1>3. /\ leases \in [LeaseIds -> Lease \cup ClosedLease \cup {None}]
      /\ events \in [LeaseIds -> Seq(Event)]
  <2> HIDE DEF closed, rest, hit
  <2> QED BY <1>2 DEF Registry
<1>4. D \in Registry /\ D.claims = R.claims /\ D.leases = leases
  <2> HIDE DEF leases, events, D
  <2> QED BY <1>1, <1>3 DEF Registry
<1>5. Keeps(R, D)
  <2>1. \A l \in LeaseIds : D.leases[l] = R.leases[l] \/ D.leases[l] \in ClosedLease
    <3> HIDE DEF closed, rest, hit, D
    <3> QED BY <1>2, <1>4
  <2> QED BY <1>4, <2>1, KeepsByLeases
<1> QED BY <1>4, <1>5

-----------------------------------------------------------------------------
(* Maintenance.                                                            *)

LEMMA RenewClaimsKeeps ==
    ASSUME NEW R \in Registry
    PROVE  RenewClaims(R) \in Registry /\ Keeps(R, RenewClaims(R))
<1> DEFINE S == RenewClaims(R)
           renewed(c) == [R.claims[c] EXCEPT !.due = Ttl]
<1>1. /\ S.claims \in [ClaimIds -> Claim \cup ClosedClaim \cup {None}]
      /\ \A c \in ClaimIds : \/ S.claims[c] = R.claims[c]
                             \/ /\ ActiveClaim(R, c)
                                /\ S.claims[c] = renewed(c)
                                /\ renewed(c) \in Claim
  <2>1. ASSUME NEW c \in ClaimIds, ActiveClaim(R, c)
        PROVE  renewed(c) \in Claim
    BY <2>1, ActiveIsClaim, BoundAssumption DEF Claim
  <2> HIDE DEF renewed
  <2>2. S.claims = [c \in ClaimIds |->
            IF /\ ActiveClaim(R, c)
               /\ R.claims[c].due <= RenewMargin
               /\ Healthy(R, R.claims[c].session, R.claims[c].inc)
               /\ record[R.claims[c].session] # None
            THEN renewed(c) ELSE R.claims[c]]
    BY DEF RenewClaims, renewed, Registry
  <2> HIDE DEF S
  <2> QED BY <2>1, <2>2 DEF Registry
<1>2. S \in Registry /\ S.leases = R.leases
  BY <1>1 DEF RenewClaims, Registry
<1>3. ASSUME NEW c \in ClaimIds, ActiveClaim(R, c), S.claims[c] = renewed(c),
             renewed(c) \in Claim
      PROVE  Stands(R, S, c)
  <2>1. R.claims[c] \in Claim
    BY <1>3, ActiveIsClaim
  <2>2. /\ renewed(c).session = R.claims[c].session
        /\ renewed(c).inc = R.claims[c].inc
        /\ renewed(c).context = R.claims[c].context
        /\ renewed(c).state = "active"
    BY <2>1 DEF Claim
  <2> QED BY <1>3, <2>2, NoneAssumption DEF Stands, ActiveClaim
<1>4. Keeps(R, S)
  <2> HIDE DEF S, renewed
  <2> QED BY <1>1, <1>2, <1>3, OpenLeaseClaim, KeepsByClaims
<1> QED BY <1>2, <1>4

LEMMA PruneBrokersKeeps ==
    ASSUME NEW R \in Registry, NEW e
    PROVE  PruneBrokers(R, e) \in Registry /\ Keeps(R, PruneBrokers(R, e))
<1> DEFINE S == PruneBrokers(R, e)
<1>1. S \in Registry /\ S.claims = R.claims /\ S.leases = R.leases
  BY DEF PruneBrokers, Registry
<1> QED BY <1>1, KeepsByLeases

LEMMA RenewLeasesKeeps ==
    ASSUME NEW R \in Registry, NEW e
    PROVE  RenewLeases(R, e) \in Registry /\ Keeps(R, RenewLeases(R, e))
<1> DEFINE S == RenewLeases(R, e)
           renewed(l) == [R.leases[l] EXCEPT !.state = "active", !.due = Ttl, !.gap = 0]
<1>1. ASSUME NEW l \in LeaseIds, OpenLease(R, l)
      PROVE  renewed(l) \in Lease /\ SameHold(R.leases[l], renewed(l))
  <2>1. R.leases[l] \in Lease
    BY <1>1, OpenIsLease
  <2> QED BY <2>1, BoundAssumption DEF Lease, Open, SameHold
<1>2. /\ S.leases \in [LeaseIds -> Lease \cup ClosedLease \cup {None}]
      /\ \A l \in LeaseIds : \/ S.leases[l] = R.leases[l]
                             \/ OpenLease(R, l) /\ S.leases[l] = renewed(l)
  <2> HIDE DEF renewed
  <2>1. S.leases = [l \in LeaseIds |->
            IF /\ OpenLease(R, l)
               /\ R.leases[l].due <= RenewMargin
               /\ Healthy(R, R.leases[l].session, R.leases[l].inc)
               /\ RuntimeRunning(R.leases[l], e)
               /\ \/ phase[R.leases[l].session] \in Working /\ ~R.leases[l].over
                  \/ DescendantLive(l, R.leases[l], e)
            THEN renewed(l) ELSE R.leases[l]]
    BY DEF RenewLeases, renewed, Registry
  <2> HIDE DEF S
  <2> QED BY <1>1, <2>1 DEF Registry
<1>3. S \in Registry /\ S.claims = R.claims
  BY <1>2 DEF RenewLeases, Registry
<1>4. Keeps(R, S)
  <2> HIDE DEF S, renewed
  <2> QED BY <1>1, <1>2, <1>3, KeepsByLeases
<1> QED BY <1>3, <1>4

LEMMA ReclaimKeeps ==
    ASSUME NEW R \in Registry, NEW e
    PROVE  Reclaim(R, e) \in Registry /\ Keeps(R, Reclaim(R, e))
<1> DEFINE expired == {l \in LeaseIds :
                        /\ OpenLease(R, l)
                        /\ R.leases[l].due = 0
                        /\ record[R.leases[l].session] = R.leases[l].inc}
           D == Drain(R, expired)
           S == Reclaim(R, e)
           closed(l) == CloseLease(R.leases[l], "abandoned")
           abandons(l) == /\ l \in expired
                          /\ Fitting(R, l) = {}
                          /\ RuntimeRunning(R.leases[l], e)
                          /\ Quiescent(l, R.leases[l], e)
           leases == [l \in LeaseIds |-> IF abandons(l) THEN closed(l) ELSE D.leases[l]]
<1>1. S = [D EXCEPT !.leases = leases]
  BY DEF Reclaim
<1>2. D \in Registry /\ Keeps(R, D)
  BY DrainKeeps
<1>3. \A l \in LeaseIds : abandons(l) => closed(l) \in ClosedLease
  BY OpenIsLease, CloseLeaseType DEF Closed
<1>4. /\ leases \in [LeaseIds -> Lease \cup ClosedLease \cup {None}]
      /\ \A l \in LeaseIds : leases[l] = D.leases[l] \/ leases[l] \in ClosedLease
  <2> HIDE DEF D, closed, abandons
  <2> QED BY <1>2, <1>3 DEF Registry
<1>5. S \in Registry /\ S.claims = D.claims /\ S.leases = leases
  <2> HIDE DEF D, S, leases
  <2> QED BY <1>1, <1>2, <1>4 DEF Registry
<1>6. Keeps(D, S)
  <2> HIDE DEF D, S, leases
  <2> QED BY <1>4, <1>5, KeepsByLeases
<1> QED BY <1>2, <1>5, <1>6, KeepsTransitive

\* lock_registry_within takes nothing from an operation's lock but its end.
LEMMA MaintainKeeps ==
    ASSUME NEW R \in Registry, NEW e
    PROVE  Maintain(R, e) \in Registry /\ Keeps(R, Maintain(R, e))
<1> DEFINE A == RenewClaims(R)
           B == PruneBrokers(A, e)
           C == RenewLeases(B, e)
           D == Reclaim(C, e)
<1>1. A \in Registry /\ Keeps(R, A)
  BY RenewClaimsKeeps
<1>2. B \in Registry /\ Keeps(A, B)
  BY <1>1, PruneBrokersKeeps
<1>3. C \in Registry /\ Keeps(B, C)
  BY <1>2, RenewLeasesKeeps
<1>4. D \in Registry /\ Keeps(C, D)
  BY <1>3, ReclaimKeeps
<1>5. Maintain(R, e) = D
  BY DEF Maintain
<1> HIDE DEF A, B, C, D
<1> QED BY <1>1, <1>2, <1>3, <1>4, <1>5, KeepsTransitive

LEMMA UnexpiredIsQueue ==
    ASSUME NEW queue \in Seq(Event)
    PROVE  Unexpired(queue) \in Seq(Event)
<1> DEFINE young == {n \in 1 .. Len(queue) : queue[n].due > 0}
<1>1. Len(queue) \in Nat /\ \A i \in 1 .. Len(queue) : queue[i] \in Event
  BY ElementOfSeq
<1>2. CASE young = {}
  BY <1>2 DEF Unexpired
<1>3. CASE young # {}
  <2>1. First(young) \in 1 .. Len(queue)
    <3>1. young \subseteq 1 .. Len(queue) /\ young \subseteq Nat
      BY <1>1
    <3> HIDE DEF young
    <3>2. First(young) \in young
      BY <1>3, <3>1, FirstIsIn
    <3> QED BY <3>1, <3>2
  <2>2. SubSeq(queue, First(young), Len(queue)) \in Seq(Event)
    <3> DEFINE n == First(young)
    <3>1. n \in 1 .. Len(queue)
      BY <2>1
    <3> HIDE DEF n
    <3>2. \A i \in n .. Len(queue) : queue[i] \in Event
      BY <1>1, <3>1
    <3>3. SubSeq(queue, n, Len(queue)) \in Seq(Event)
      BY <1>1, <3>1, <3>2, SubSeqProperties
    <3> QED BY <3>3 DEF n
  <2> QED BY <1>3, <2>2 DEF Unexpired
<1> QED BY <1>2, <1>3

\* clean_expired: a lease past its TTL stays a lock, and a claim that a lease
\* is open under does not expire.
LEMMA CleanKeeps ==
    ASSUME NEW R \in Registry, NEW e
    PROVE  Clean(R, e) \in Registry /\ Keeps(R, Clean(R, e))
<1> DEFINE S == Clean(R, e)
           fenced(l) == [R.leases[l] EXCEPT !.state = "completing", !.revision = @ + 1]
<1>1. ASSUME NEW l \in LeaseIds, R.leases[l] # None, R.leases[l].state = "active"
      PROVE  /\ OpenLease(R, l)
             /\ fenced(l) \in Lease
             /\ SameHold(R.leases[l], fenced(l))
  <2>1. OpenLease(R, l)
    BY <1>1 DEF OpenLease, Open
  <2>2. R.leases[l] \in Lease
    BY <2>1, OpenIsLease
  <2>3. R.leases[l].revision + 1 \in Nat
    BY <2>2 DEF Lease
  <2>4. fenced(l) \in Lease
    BY <2>2, <2>3 DEF Lease, Open
  <2>5. SameHold(R.leases[l], fenced(l))
    BY <2>2 DEF Lease, SameHold
  <2> QED BY <2>1, <2>4, <2>5
<1>2. \A l \in LeaseIds :
        \/ S.leases[l] = R.leases[l]
        \/ S.leases[l] = None
        \/ /\ R.leases[l] # None /\ R.leases[l].state = "active"
           /\ S.leases[l] = fenced(l)
  BY DEF Clean
<1>3. S.leases \in [LeaseIds -> Lease \cup ClosedLease \cup {None}]
  <2>1. S.leases = [l \in LeaseIds |-> S.leases[l]]
    BY DEF Clean
  <2>2. \A l \in LeaseIds : S.leases[l] \in Lease \cup ClosedLease \cup {None}
    <3> HIDE DEF S, fenced
    <3> QED BY <1>1, <1>2 DEF Registry
  <2> HIDE DEF S
  <2> QED BY <2>1, <2>2
<1>4. \A c \in ClaimIds :
        \/ S.claims[c] = R.claims[c]
        \/ S.claims[c] = None /\ ~ActiveClaim(R, c)
        \/ S.claims[c] = CloseClaim("expired") /\ ~HasOpenLease(R, c)
  BY DEF Clean, ActiveClaim
<1>5. S.claims \in [ClaimIds -> Claim \cup ClosedClaim \cup {None}]
  <2>1. S.claims = [c \in ClaimIds |-> S.claims[c]]
    BY DEF Clean
  <2>2. \A c \in ClaimIds : S.claims[c] \in Claim \cup ClosedClaim \cup {None}
    <3> HIDE DEF S
    <3> QED BY <1>4, CloseClaimType DEF Registry
  <2> HIDE DEF S
  <2> QED BY <2>1, <2>2
<1>6. S.events \in [LeaseIds -> Seq(Event)]
  <2>1. S.events = [l \in LeaseIds |-> S.events[l]]
    BY DEF Clean
  <2>2. \A l \in LeaseIds : S.events[l] = Unexpired(R.events[l]) \/ S.events[l] = <<>>
    BY DEF Clean
  <2>3. \A l \in LeaseIds : S.events[l] \in Seq(Event)
    <3> HIDE DEF S
    <3>1. \A l \in LeaseIds : R.events[l] \in Seq(Event)
      BY DEF Registry
    <3>2. <<>> \in Seq(Event)
      BY EmptySeq
    <3> QED BY <2>2, <3>1, <3>2, UnexpiredIsQueue
  <2> HIDE DEF S
  <2> QED BY <2>1, <2>3
<1>7. S \in Registry
  <2>1. S = [brokers |-> R.brokers, claims |-> S.claims,
             leases |-> S.leases, events |-> S.events]
    BY DEF Clean
  <2> HIDE DEF S
  <2> QED BY <1>3, <1>5, <1>6, <2>1 DEF Registry
<1>8. Shrinks(R, S)
  <2> SUFFICES ASSUME NEW l \in LeaseIds, OpenLease(S, l)
               PROVE  OpenLease(R, l) /\ SameHold(R.leases[l], S.leases[l])
    BY DEF Shrinks
  <2>1. S.leases[l] # None
    BY DEF OpenLease
  <2>2. CASE S.leases[l] = R.leases[l]
    BY <2>2 DEF OpenLease, SameHold
  <2> HIDE DEF S, fenced
  <2> QED BY <1>1, <1>2, <2>1, <2>2
<1>9. Backs(R, S)
  <2> SUFFICES ASSUME NEW l \in LeaseIds, OpenLease(S, l)
               PROVE  Stands(R, S, S.leases[l].claim)
    BY DEF Backs
  <2> DEFINE c == S.leases[l].claim
  <2>1. /\ OpenLease(R, l) /\ R.leases[l].claim = c
        /\ c \in ClaimIds
    BY <1>8, OpenLeaseClaim DEF Shrinks, SameHold
  <2>2. HasOpenLease(R, c)
    BY <2>1 DEF HasOpenLease
  <2>3. S.claims[c] = R.claims[c] \/ ~ActiveClaim(R, c)
    BY <1>4, <2>1, <2>2
  <2> HIDE DEF S, c
  <2>4. Stands(R, S, c)
    BY <2>3 DEF Stands, ActiveClaim
  <2> QED BY <2>4 DEF c
<1> QED BY <1>7, <1>8, <1>9 DEF Keeps

-----------------------------------------------------------------------------
(* Giving claims up, and making new ones.                                  *)

LEMMA ReleaseOwnedType ==
    ASSUME NEW R \in Registry, NEW s, NEW i
    PROVE  /\ ReleaseOwned(R, s, i) \in Registry
           /\ ReleaseOwned(R, s, i).brokers = R.brokers
           /\ ReleaseOwned(R, s, i).leases = R.leases
           /\ ReleaseOwned(R, s, i).events = R.events
           /\ \A c \in ClaimIds :
                ReleaseOwned(R, s, i).claims[c] =
                    IF Owns(R, c, s, i) THEN CloseClaim("released") ELSE R.claims[c]
<1>1. CloseClaim("released") \in ClosedClaim
  BY CloseClaimType
<1> QED BY <1>1 DEF ReleaseOwned, Registry

\* A principal without an open lease may give its claims up.
LEMMA ReleaseOwnedKeeps ==
    ASSUME NEW R \in Registry, NEW s, NEW i, NoOwnedLease(R, s, i)
    PROVE  Keeps(R, ReleaseOwned(R, s, i))
<1> DEFINE S == ReleaseOwned(R, s, i)
<1>1. \A c \in ClaimIds : S.claims[c] = R.claims[c] \/ ~HasOpenLease(R, c)
  BY ReleaseOwnedType DEF NoOwnedLease
<1>2. S.leases = R.leases
  BY ReleaseOwnedType
<1> HIDE DEF S
<1>3. Keeps(R, S)
  BY <1>1, <1>2, OpenLeaseClaim, KeepsByClaims
<1> QED BY <1>3 DEF S

\* claim and set_declared put the new claim where no lease looks.
LEMMA NewClaimKeeps ==
    ASSUME NEW R \in Registry, NEW c \in ClaimIds, NEW s \in Sessions,
           NEW i \in Incarnations, NEW context \in Declarable,
           NoOwnedLease(R, s, i), FreshClaim(R, c)
    PROVE  NewClaim(R, c, s, i, context) \in Registry
           /\ Keeps(R, NewClaim(R, c, s, i, context))
<1> DEFINE Q == ReleaseOwned(R, s, i)
           S == NewClaim(R, c, s, i, context)
           new == [session |-> s, inc |-> i, context |-> context, state |-> "active",
                   revision |-> 1, due |-> Ttl]
<1>1. new \in Claim
  BY BoundAssumption DEF Claim
<1>2. Q \in Registry /\ Q.leases = R.leases
  BY ReleaseOwnedType
<1>3. S = [Q EXCEPT !.claims[c] = new]
  BY DEF NewClaim
<1>4. /\ S \in Registry /\ S.leases = R.leases
      /\ \A k \in ClaimIds : k # c => S.claims[k] = Q.claims[k]
  <2> HIDE DEF Q, S, new
  <2> QED BY <1>1, <1>2, <1>3 DEF Registry
<1>5. ~HasOpenLease(R, c)
  BY DEF FreshClaim, HasOpenLease
<1>6. \A k \in ClaimIds : S.claims[k] = R.claims[k] \/ ~HasOpenLease(R, k)
  <2>1. \A k \in ClaimIds : Q.claims[k] = R.claims[k] \/ ~HasOpenLease(R, k)
    BY ReleaseOwnedType DEF NoOwnedLease
  <2> HIDE DEF Q, S
  <2> QED BY <1>4, <1>5, <2>1
<1>7. Keeps(R, S)
  <2> HIDE DEF S
  <2> QED BY <1>4, <1>6, OpenLeaseClaim, KeepsByClaims
<1> QED BY <1>4, <1>7

\* revoke, provision and stop give a launch's claims up together with the
\* leases under them: in a fenced registry no lease loses only its claim.
LEMMA GiveUpKeeps ==
    ASSUME NEW R \in Registry, NEW s, NEW I, Fenced(R)
    PROVE  GiveUp(R, s, I) \in Registry /\ Keeps(R, GiveUp(R, s, I))
<1> DEFINE S == GiveUp(R, s, I)
           closed(l) == CloseLease(R.leases[l], "abandoned")
           gone(c) == \E i \in I : Owns(R, c, s, i)
           claims == [c \in ClaimIds |->
                        IF gone(c) THEN CloseClaim("released") ELSE R.claims[c]]
           leases == [l \in LeaseIds |->
                        IF l \in LeasesOf(R, s, I) THEN closed(l) ELSE R.leases[l]]
<1>1. S = [R EXCEPT !.claims = claims, !.leases = leases]
  BY DEF GiveUp
<1>2. claims \in [ClaimIds -> Claim \cup ClosedClaim \cup {None}]
  BY CloseClaimType DEF Registry
<1>3. \A l \in LeasesOf(R, s, I) : closed(l) \in ClosedLease
  BY OpenIsLease, CloseLeaseType DEF LeasesOf, Closed
<1>4. leases \in [LeaseIds -> Lease \cup ClosedLease \cup {None}]
  <2> HIDE DEF closed
  <2> QED BY <1>3 DEF Registry
<1>5. S \in Registry /\ S.claims = claims /\ S.leases = leases
  <2> HIDE DEF S, claims, leases
  <2> QED BY <1>1, <1>2, <1>4 DEF Registry
<1>6. ASSUME NEW l \in LeaseIds, OpenLease(S, l)
      PROVE  OpenLease(R, l) /\ S.leases[l] = R.leases[l] /\ l \notin LeasesOf(R, s, I)
  <2>1. l \notin LeasesOf(R, s, I)
    <3> HIDE DEF S, closed
    <3> QED BY <1>3, <1>5, <1>6, ClosedIsNotOpen
  <2>2. S.leases[l] = R.leases[l]
    <3> HIDE DEF S, closed
    <3> QED BY <1>5, <2>1
  <2> HIDE DEF S
  <2> QED BY <1>6, <2>1, <2>2 DEF OpenLease
<1>7. ASSUME NEW l \in LeaseIds, OpenLease(S, l)
      PROVE  Stands(R, S, S.leases[l].claim)
  <2> DEFINE c == R.leases[l].claim
  <2>1. /\ OpenLease(R, l) /\ S.leases[l].claim = c /\ l \notin LeasesOf(R, s, I)
        /\ c \in ClaimIds
    BY <1>6, <1>7, OpenLeaseClaim
  <2>2. Owns(R, c, R.leases[l].session, R.leases[l].inc)
    BY <2>1 DEF Fenced
  <2>3. ~gone(c)
    BY <2>1, <2>2 DEF LeasesOf, Owns
  <2>4. S.claims[c] = R.claims[c]
    <3> HIDE DEF S, c, gone
    <3> QED BY <1>5, <2>1, <2>3
  <2> HIDE DEF S, c
  <2> QED BY <2>1, <2>4 DEF Stands, ActiveClaim
<1> HIDE DEF S
<1>8. Keeps(R, S)
  BY <1>6, <1>7 DEF Keeps, Shrinks, Backs, SameHold
<1> QED BY <1>5, <1>8 DEF S

-----------------------------------------------------------------------------
(* The world around the registry.                                          *)

LEMMA EndTurnKeeps ==
    ASSUME NEW R \in Registry, NEW s
    PROVE  EndTurn(R, s) \in Registry /\ Keeps(R, EndTurn(R, s))
<1> DEFINE S == EndTurn(R, s)
           over(l) == [R.leases[l] EXCEPT !.over = TRUE]
           leases == [l \in LeaseIds |->
                        IF OpenLease(R, l) /\ R.leases[l].session = s
                        THEN over(l) ELSE R.leases[l]]
<1>1. S = [R EXCEPT !.leases = leases]
  BY DEF EndTurn
<1>2. ASSUME NEW l \in LeaseIds, OpenLease(R, l)
      PROVE  over(l) \in Lease /\ SameHold(R.leases[l], over(l))
  <2>1. R.leases[l] \in Lease
    BY <1>2, OpenIsLease
  <2> QED BY <2>1 DEF Lease, SameHold
<1>3. leases \in [LeaseIds -> Lease \cup ClosedLease \cup {None}]
  <2> HIDE DEF over
  <2> QED BY <1>2 DEF Registry
<1>4. S \in Registry /\ S.claims = R.claims /\ S.leases = leases
  <2> HIDE DEF S, leases
  <2> QED BY <1>1, <1>3 DEF Registry
<1>5. \A l \in LeaseIds : \/ S.leases[l] = R.leases[l]
                          \/ OpenLease(R, l) /\ SameHold(R.leases[l], S.leases[l])
  <2> HIDE DEF S, over
  <2> QED BY <1>2, <1>4
<1> HIDE DEF S
<1>6. Keeps(R, S)
  BY <1>4, <1>5, KeepsByLeases
<1> QED BY <1>4, <1>6 DEF S

-----------------------------------------------------------------------------
(* The invariant, action by action.                                        *)

Single(R) ==
    \A l, m \in LeaseIds :
        OpenLease(R, l) /\ OpenLease(R, m) /\ l # m
            => R.leases[l].session # R.leases[m].session

Disjoint(R) ==
    \A l, m \in LeaseIds :
        OpenLease(R, l) /\ OpenLease(R, m) /\ l # m
            => ~Conflict(LeaseContext(R, l), LeaseContext(R, m))

Safe(R) == Fenced(R) /\ Single(R) /\ Disjoint(R)

\* What a lease of S holds, it held in R.
LEMMA KeptLease ==
    ASSUME NEW R \in Registry, NEW S, Fenced(R), Keeps(R, S),
           NEW l \in LeaseIds, OpenLease(S, l)
    PROVE  /\ OpenLease(R, l)
           /\ SameHold(R.leases[l], S.leases[l])
           /\ Owns(S, S.leases[l].claim, S.leases[l].session, S.leases[l].inc)
           /\ LeaseContext(S, l) = LeaseContext(R, l)
<1>1. OpenLease(R, l) /\ SameHold(R.leases[l], S.leases[l])
  BY DEF Keeps, Shrinks
<1>2. Owns(R, R.leases[l].claim, R.leases[l].session, R.leases[l].inc)
  BY <1>1 DEF Fenced
<1>3. Stands(R, S, S.leases[l].claim)
  BY DEF Keeps, Backs
<1>4. S.leases[l].claim = R.leases[l].claim
  BY <1>1 DEF SameHold
<1> QED BY <1>1, <1>2, <1>3, <1>4 DEF Stands, Owns, SameHold, LeaseContext

LEMMA KeepsFenced ==
    ASSUME NEW R \in Registry, NEW S, Fenced(R), Keeps(R, S)
    PROVE  Fenced(S)
<1> SUFFICES ASSUME NEW l \in LeaseIds, OpenLease(S, l)
             PROVE  /\ Owns(S, S.leases[l].claim, S.leases[l].session, S.leases[l].inc)
                    /\ Covered(LeaseContext(S, l), S.leases[l].targets,
                               S.leases[l].provider_targets)
  BY DEF Fenced
<1>1. /\ OpenLease(R, l) /\ SameHold(R.leases[l], S.leases[l])
      /\ Owns(S, S.leases[l].claim, S.leases[l].session, S.leases[l].inc)
      /\ LeaseContext(S, l) = LeaseContext(R, l)
  BY KeptLease
<1>2. Covered(LeaseContext(R, l), R.leases[l].targets, R.leases[l].provider_targets)
  BY <1>1 DEF Fenced
<1> QED BY <1>1, <1>2 DEF SameHold

\* A registry that locks nothing new is as safe as the one before.
LEMMA KeepsSafe ==
    ASSUME NEW R \in Registry, NEW S, Safe(R), Keeps(R, S)
    PROVE  Safe(S)
<1>1. Fenced(R) /\ Single(R) /\ Disjoint(R)
  BY DEF Safe
<1>2. Fenced(S)
  BY <1>1, KeepsFenced
<1>3. Single(S)
  BY <1>1, KeptLease DEF Single, SameHold
<1>4. Disjoint(S)
  BY <1>1, KeptLease DEF Disjoint
<1> QED BY <1>2, <1>3, <1>4 DEF Safe

\* Safe operations exclude each other.
LEMMA SafeExcludes ==
    ASSUME NEW R \in Registry, Safe(R), NEW l \in LeaseIds, NEW m \in LeaseIds,
           OpenLease(R, l), OpenLease(R, m), l # m
    PROVE  /\ R.leases[l].provider_targets \cap R.leases[m].provider_targets = {}
           /\ \A t \in R.leases[l].targets, u \in R.leases[m].targets : ~ScopesOverlap(t, u)
<1> DEFINE x == R.leases[l]
           y == R.leases[m]
           c == LeaseContext(R, l)
           d == LeaseContext(R, m)
<1>1. /\ Owns(R, x.claim, x.session, x.inc) /\ Covered(c, x.targets, x.provider_targets)
      /\ Owns(R, y.claim, y.session, y.inc) /\ Covered(d, y.targets, y.provider_targets)
  BY DEF Safe, Fenced
<1>2. x \in Lease /\ y \in Lease
  BY OpenIsLease
<1>3. x.targets \in SUBSET Scope /\ y.targets \in SUBSET Scope
      /\ x.claim \in ClaimIds /\ y.claim \in ClaimIds
  BY <1>2 DEF Lease
<1>4. R.claims[x.claim] \in Claim /\ R.claims[y.claim] \in Claim
  BY <1>1, <1>3, ActiveIsClaim DEF Owns
<1>5. c \in Context /\ d \in Context
  BY <1>4, DeclarableIsContext DEF Claim, LeaseContext
<1>6. ~Conflict(c, d)
  BY DEF Safe, Disjoint
<1> DEFINE T == x.targets
           U == y.targets
           P == x.provider_targets
           Q == y.provider_targets
<1>7. /\ T \in SUBSET Scope /\ U \in SUBSET Scope
      /\ Covered(c, T, P) /\ Covered(d, U, Q)
  BY <1>1, <1>3
<1> HIDE DEF x, y, c, d, T, U, P, Q
<1>8. P \cap Q = {} /\ \A t \in T, u \in U : ~ScopesOverlap(t, u)
  BY <1>5, <1>6, <1>7, CoveredApart
<1> QED BY <1>8 DEF x, y, T, U, P, Q

-----------------------------------------------------------------------------
(* The registries a section starts from.                                   *)

LEMMA MaintainedKeeps ==
    ASSUME registry \in Registry, NEW R \in Maintained
    PROVE  R \in Registry /\ Keeps(registry, R)
BY MaintainKeeps DEF Maintained

LEMMA SweptKeeps ==
    ASSUME registry \in Registry, NEW R \in Swept
    PROVE  R \in Registry /\ Keeps(registry, R)
<1>1. PICK e \in Evidence : R = Clean(Maintain(registry, e), e)
  BY DEF Swept
<1> DEFINE M == Maintain(registry, e)
<1>2. M \in Registry /\ Keeps(registry, M)
  BY MaintainKeeps
<1>3. Clean(M, e) \in Registry /\ Keeps(M, Clean(M, e))
  BY <1>2, CleanKeeps
<1> HIDE DEF M
<1> QED BY <1>1, <1>2, <1>3, KeepsTransitive DEF M

-----------------------------------------------------------------------------
(* Every action but Admit keeps.  R is the maintained or swept registry.   *)

\* TypeOK without the registry; a launch in progress has a record.
EnvOK ==
    /\ record \in [Sessions -> Incarnations \cup {None}]
    /\ running \in [Sessions -> Incarnations \cup {None}]
    /\ resuming \in [Sessions -> [launch : Incarnations \cup {None},
                                  phase : Phases \cup {"starting"}] \cup {None}]
    /\ phase \in [Sessions -> Phases \cup {"starting"}]
    /\ armed \in [Sessions -> SUBSET Incarnations]
    /\ beat \in [Sessions -> Incarnations \cup {None}]
    /\ \A s \in Sessions : resuming[s] # None => record[s] # None

LEMMA TypeParts ==
    ASSUME registry \in Registry, EnvOK
    PROVE  TypeOK
BY DEF TypeOK, EnvOK

LEMMA EnvUnchanged ==
    ASSUME EnvOK, UNCHANGED env
    PROVE  EnvOK'
BY DEF EnvOK, env

\* The launch of a record is a launch.
LEMMA PrincipalType ==
    ASSUME EnvOK, NEW s \in Sessions, record[s] # None
    PROVE  record[s] \in Incarnations
BY DEF EnvOK

LEMMA WithCheckoutDeclarable ==
    ASSUME NEW s \in Sessions, NEW input \in Inputs
    PROVE  WithCheckout(s, input) \in Declarable
BY DEF Declarable

\* Claims change only when no operation runs under them.
LEMMA ClaimsKeep ==
    ASSUME EnvOK, NEW R \in Registry, NEW s \in Sessions, Claims(R, s)
    PROVE  registry' \in Registry /\ EnvOK' /\ Keeps(R, registry')
<1> DEFINE i == record[s]
<1>1. ASSUME NEW input \in Inputs, ClaimWork(R, s, input)
      PROVE  registry' \in Registry /\ UNCHANGED env /\ Keeps(R, registry')
  <2>1. PICK c \in ClaimIds :
            /\ Principal(s, i) /\ NoOwnedLease(R, s, i) /\ FreshClaim(R, c)
            /\ registry' = NewClaim(R, c, s, i, WithCheckout(s, input))
            /\ UNCHANGED env
    BY <1>1 DEF ClaimWork
  <2>2. i \in Incarnations /\ WithCheckout(s, input) \in Declarable
    BY <2>1, PrincipalType, WithCheckoutDeclarable DEF Principal
  <2> QED BY <2>1, <2>2, NewClaimKeeps
<1>2. ASSUME NEW input \in Inputs, NEW rejectConflict \in BOOLEAN, NEW ifAbsent \in BOOLEAN,
             SetDeclared(R, s, input, rejectConflict, ifAbsent)
      PROVE  registry' \in Registry /\ UNCHANGED env /\ Keeps(R, registry')
  <2>1. PICK c \in ClaimIds :
            /\ Principal(s, i) /\ NoOwnedLease(R, s, i) /\ FreshClaim(R, c)
            /\ registry' = NewClaim(R, c, s, i, WithCheckout(s, input))
            /\ UNCHANGED env
    BY <1>2 DEF SetDeclared
  <2>2. i \in Incarnations /\ WithCheckout(s, input) \in Declarable
    BY <2>1, PrincipalType, WithCheckoutDeclarable DEF Principal
  <2> QED BY <2>1, <2>2, NewClaimKeeps
<1>3. ASSUME ClearDeclared(R, s)
      PROVE  registry' \in Registry /\ UNCHANGED env /\ Keeps(R, registry')
  <2>1. NoOwnedLease(R, s, i) /\ registry' = ReleaseOwned(R, s, i) /\ UNCHANGED env
    BY <1>3 DEF ClearDeclared
  <2> QED BY <2>1, ReleaseOwnedType, ReleaseOwnedKeeps
<1>4. ASSUME NEW revision \in 1 .. MaxRevision, RenewClaim(R, s, revision)
      PROVE  registry' \in Registry /\ UNCHANGED env /\ Keeps(R, registry')
  <2>1. PICK c \in ClaimIds :
            /\ Owns(R, c, s, i)
            /\ R.claims[c].revision = revision
            /\ registry' = [R EXCEPT !.claims[c].revision = revision + 1,
                                     !.claims[c].due = Ttl]
            /\ UNCHANGED env
    BY <1>4 DEF RenewClaim
  <2>2. R.claims[c] \in Claim
    BY <2>1, ActiveIsClaim DEF Owns
  <2> DEFINE new == [R.claims[c] EXCEPT !.revision = revision + 1, !.due = Ttl]
  <2>3. /\ new \in Claim
        /\ new.session = R.claims[c].session /\ new.inc = R.claims[c].inc
        /\ new.context = R.claims[c].context /\ new.state = "active"
    <3>1. revision + 1 \in Nat
      OBVIOUS
    <3> QED BY <2>2, <3>1, BoundAssumption DEF Claim
  <2>4. registry' = [R EXCEPT !.claims[c] = new]
    BY <2>1, <2>2 DEF Registry, Claim
  <2> HIDE DEF new
  <2>5. /\ registry' \in Registry /\ registry'.leases = R.leases
        /\ registry'.claims[c] = new
        /\ \A k \in ClaimIds : k # c => registry'.claims[k] = R.claims[k]
    BY <2>3, <2>4 DEF Registry
  <2>6. Stands(R, registry', c)
    BY <2>3, <2>5, NoneAssumption DEF Stands, ActiveClaim
  <2>7. Keeps(R, registry')
    BY <2>5, <2>6, OpenLeaseClaim, KeepsByClaims
  <2> QED BY <2>1, <2>5, <2>7
<1>5. ASSUME NEW revision \in 1 .. MaxRevision, ReleaseClaim(R, s, revision)
      PROVE  registry' \in Registry /\ UNCHANGED env /\ Keeps(R, registry')
  <2>1. PICK c \in ClaimIds :
            /\ ~HasOpenLease(R, c)
            /\ registry' = [R EXCEPT !.claims[c] = CloseClaim("released")]
            /\ UNCHANGED env
    BY <1>5 DEF ReleaseClaim
  <2>2. /\ registry' \in Registry /\ registry'.leases = R.leases
        /\ \A k \in ClaimIds : k # c => registry'.claims[k] = R.claims[k]
    BY <2>1, CloseClaimType DEF Registry
  <2>3. \A k \in ClaimIds : registry'.claims[k] = R.claims[k] \/ ~HasOpenLease(R, k)
    BY <2>1, <2>2
  <2>4. Keeps(R, registry')
    BY <2>2, <2>3, OpenLeaseClaim, KeepsByClaims
  <2> QED BY <2>1, <2>2, <2>4
<1> QED BY <1>1, <1>2, <1>3, <1>4, <1>5, EnvUnchanged DEF Claims

\* Closing one open lease.
LEMMA CloseOneKeeps ==
    ASSUME NEW R \in Registry, NEW l \in LeaseIds, OpenLease(R, l), NEW state \in Closed
    PROVE  /\ [R EXCEPT !.leases[l] = CloseLease(R.leases[l], state)] \in Registry
           /\ Keeps(R, [R EXCEPT !.leases[l] = CloseLease(R.leases[l], state)])
<1> DEFINE new == CloseLease(R.leases[l], state)
           S == [R EXCEPT !.leases[l] = new]
<1>1. new \in ClosedLease
  BY OpenIsLease, CloseLeaseType
<1> HIDE DEF new
<1>2. /\ S \in Registry /\ S.claims = R.claims
      /\ S.leases[l] = new
      /\ \A m \in LeaseIds : m # l => S.leases[m] = R.leases[m]
  BY <1>1 DEF Registry
<1> HIDE DEF S
<1>3. \A m \in LeaseIds : S.leases[m] = R.leases[m] \/ S.leases[m] \in ClosedLease
  BY <1>1, <1>2
<1>4. Keeps(R, S)
  BY <1>2, <1>3, KeepsByLeases
<1> QED BY <1>2, <1>4 DEF S, new

\* Completing, draining and reconciling only end leases or age them.
LEMMA CompletionsKeep ==
    ASSUME registry \in Registry, EnvOK, Completions
    PROVE  registry' \in Registry /\ EnvOK' /\ Keeps(registry, registry')
<1>1. ASSUME NEW R \in Registry, NEW l \in LeaseIds, NEW outcome \in Outcomes,
             CompleteEnqueue(R, l, outcome)
      PROVE  registry' \in Registry /\ UNCHANGED env /\ Keeps(R, registry')
  <2> DEFINE event == [revision |-> R.leases[l].revision, outcome |-> outcome,
                       due |-> EventTtl]
  <2>1. /\ OpenLease(R, l)
        /\ registry' = [R EXCEPT !.events[l] = Append(R.events[l], event)]
        /\ UNCHANGED env
    BY <1>1 DEF CompleteEnqueue, Registry
  <2>2. event \in Event
    BY <2>1, OpenIsLease, BoundAssumption DEF Event, Lease
  <2>3. R.events[l] \in Seq(Event)
    BY DEF Registry
  <2> HIDE DEF event
  <2>4. Append(R.events[l], event) \in Seq(Event)
    BY <2>2, <2>3, AppendProperties
  <2>5. registry' \in Registry /\ registry'.claims = R.claims /\ registry'.leases = R.leases
    BY <2>1, <2>4 DEF Registry
  <2> QED BY <2>1, <2>5, KeepsByLeases
<1>2. ASSUME NEW R \in Registry, DrainQueue(R)
      PROVE  registry' \in Registry /\ UNCHANGED env /\ Keeps(R, registry')
  BY <1>2, DrainKeeps DEF DrainQueue
<1>3. ASSUME NEW R \in Registry, MaintainOnly(R)
      PROVE  registry' \in Registry /\ UNCHANGED env /\ Keeps(R, registry')
  BY <1>3, KeepsItself DEF MaintainOnly
<1>4. ASSUME NEW l \in LeaseIds, NEW outcome \in Outcomes, Reconcile(l, outcome)
      PROVE  registry' \in Registry /\ UNCHANGED env /\ Keeps(registry, registry')
  <2>1. PICK e \in Evidence :
            LET R == Drain(Maintain(registry, e), LeaseIds)
                x == R.leases[l]
            IN /\ OpenLease(R, l)
               /\ \/ registry' = [R EXCEPT !.leases[l] =
                        [x EXCEPT !.state = "reconcile_pending",
                                  !.revision = @ + 1, !.gap = Gap]]
                  \/ registry' = [R EXCEPT !.leases[l] = CloseLease(x, Verdict(outcome))]
               /\ UNCHANGED env
    BY <1>4 DEF Reconcile
  <2> DEFINE M == Maintain(registry, e)
             R == Drain(M, LeaseIds)
             pending == [R.leases[l] EXCEPT !.state = "reconcile_pending",
                                            !.revision = @ + 1, !.gap = Gap]
  <2>2. M \in Registry /\ Keeps(registry, M)
    BY MaintainKeeps
  <2>3. R \in Registry /\ Keeps(M, R)
    BY <2>2, DrainKeeps
  <2>4. Keeps(registry, R)
    BY <2>2, <2>3, KeepsTransitive
  <2>5. /\ OpenLease(R, l) /\ UNCHANGED env
        /\ \/ registry' = [R EXCEPT !.leases[l] = pending]
           \/ registry' = [R EXCEPT !.leases[l] = CloseLease(R.leases[l], Verdict(outcome))]
    BY <2>1
  <2> HIDE DEF M, R
  <2>6. pending \in Lease /\ SameHold(R.leases[l], pending)
    <3>1. R.leases[l] \in Lease
      BY <2>3, <2>5, OpenIsLease
    <3>2. R.leases[l].revision + 1 \in Nat
      BY <3>1 DEF Lease
    <3>3. pending \in Lease
      BY <3>1, <3>2, BoundAssumption DEF Lease, Open
    <3>4. SameHold(R.leases[l], pending)
      BY <3>1 DEF Lease, SameHold
    <3> QED BY <3>3, <3>4
  <2> HIDE DEF pending
  <2>7. CASE registry' = [R EXCEPT !.leases[l] = pending]
    <3>1. /\ registry' \in Registry /\ registry'.claims = R.claims
          /\ registry'.leases[l] = pending
          /\ \A m \in LeaseIds : m # l => registry'.leases[m] = R.leases[m]
      BY <2>3, <2>6, <2>7 DEF Registry
    <3>2. \A m \in LeaseIds :
            \/ registry'.leases[m] = R.leases[m]
            \/ OpenLease(R, m) /\ SameHold(R.leases[m], registry'.leases[m])
      BY <2>5, <2>6, <3>1
    <3>3. Keeps(R, registry')
      BY <3>1, <3>2, KeepsByLeases
    <3> QED BY <2>4, <2>5, <3>1, <3>3, KeepsTransitive
  <2>8. CASE registry' = [R EXCEPT !.leases[l] = CloseLease(R.leases[l], Verdict(outcome))]
    <3>1. Verdict(outcome) \in Closed
      BY DEF Verdict, Closed
    <3>2. registry' \in Registry /\ Keeps(R, registry')
      BY <2>3, <2>5, <2>8, <3>1, CloseOneKeeps
    <3> QED BY <2>4, <2>5, <3>2, KeepsTransitive
  <2> QED BY <2>5, <2>7, <2>8
<1>5. ASSUME NEW l \in LeaseIds, OperatorReconcile(l)
      PROVE  registry' \in Registry /\ UNCHANGED env /\ Keeps(registry, registry')
  <2>1. PICK e \in Evidence :
            LET M == Maintain(registry, e)
                R == Drain(M, {l})
            IN /\ OpenLease(M, l)
               /\ \/ registry' = R
                  \/ /\ Fitting(M, l) = {}
                     /\ registry' = [R EXCEPT !.leases[l] =
                                        CloseLease(R.leases[l], "abandoned")]
               /\ UNCHANGED env
    BY <1>5 DEF OperatorReconcile
  <2> DEFINE M == Maintain(registry, e)
             R == Drain(M, {l})
  <2>2. M \in Registry /\ Keeps(registry, M)
    BY MaintainKeeps
  <2>3. R \in Registry /\ Keeps(M, R)
    BY <2>2, DrainKeeps
  <2>4. Keeps(registry, R)
    BY <2>2, <2>3, KeepsTransitive
  <2>5. Fitting(M, l) = {} => R.leases[l] = M.leases[l]
    <3> HIDE DEF M
    <3> QED BY <2>2 DEF Drain, Registry
  <2>6. /\ OpenLease(M, l) /\ UNCHANGED env
        /\ \/ registry' = R
           \/ /\ Fitting(M, l) = {}
              /\ registry' = [R EXCEPT !.leases[l] = CloseLease(R.leases[l], "abandoned")]
    BY <2>1
  <2> HIDE DEF M, R
  <2>7. Fitting(M, l) = {} => OpenLease(R, l)
    BY <2>5, <2>6 DEF OpenLease
  <2>8. registry' \in Registry /\ Keeps(R, registry')
    BY <2>3, <2>6, <2>7, CloseOneKeeps, KeepsItself DEF Closed
  <2> QED BY <2>4, <2>6, <2>8, KeepsTransitive
<1>6. ASSUME NEW R \in Swept \cup Maintained
      PROVE  R \in Registry /\ Keeps(registry, R)
  BY SweptKeeps, MaintainedKeeps
<1>7. registry' \in Registry /\ UNCHANGED env /\ Keeps(registry, registry')
  BY <1>1, <1>2, <1>3, <1>4, <1>5, <1>6, KeepsTransitive DEF Completions
<1> QED BY <1>7, EnvUnchanged

\* Replacing a broker touches no claim and no lease.
LEMMA BrokerSetKeeps ==
    ASSUME NEW R \in Registry, NEW s \in Sessions, NEW b \in Broker \cup {None}
    PROVE  /\ [R EXCEPT !.brokers[s] = b] \in Registry
           /\ Keeps(R, [R EXCEPT !.brokers[s] = b])
<1> DEFINE S == [R EXCEPT !.brokers[s] = b]
<1>1. S \in Registry /\ S.claims = R.claims /\ S.leases = R.leases
  BY DEF Registry
<1> HIDE DEF S
<1>2. Keeps(R, S)
  BY <1>1, KeepsByLeases
<1> QED BY <1>1, <1>2 DEF S

LEMMA MarkLostType ==
    ASSUME NEW b \in Broker, NEW state \in BrokerStates
    PROVE  MarkLost(b, state) \in Broker
BY BoundAssumption DEF MarkLost, Broker

LEMMA BrokerType ==
    ASSUME NEW R \in Registry, NEW s \in Sessions, R.brokers[s] # None
    PROVE  R.brokers[s] \in Broker
BY DEF Registry

\* A beat that is dropped.
LEMMA BeatDropped ==
    ASSUME EnvOK, NEW s \in Sessions,
           beat' = beat \/ beat' = [beat EXCEPT ![s] = None],
           UNCHANGED <<record, running, resuming, phase, armed>>
    PROVE  EnvOK'
BY DEF EnvOK

\* Refusing, revoking, degrading and recovering a broker.
LEMMA BrokersKeep ==
    ASSUME EnvOK, NEW R \in Registry, Fenced(R), NEW s \in Sessions, Brokers(R, s)
    PROVE  registry' \in Registry /\ EnvOK' /\ Keeps(R, registry')
<1> DEFINE b == R.brokers[s]
<1>1. CASE ProvisionRefused(R, s)
  <2>1. PICK lost \in Nat \cup {None} :
            /\ b # None
            /\ registry' = [R EXCEPT !.brokers[s].lost = lost]
            /\ UNCHANGED env
    BY <1>1, BoundAssumption DEF ProvisionRefused
  <2>2. b \in Broker
    BY <2>1, BrokerType
  <2>3. [b EXCEPT !.lost = lost] \in Broker
    BY <2>2 DEF Broker
  <2>4. registry' = [R EXCEPT !.brokers[s] = [b EXCEPT !.lost = lost]]
    BY <2>1, <2>2 DEF Registry, Broker
  <2> QED BY <2>1, <2>3, <2>4, BrokerSetKeeps, EnvUnchanged
<1>2. ASSUME NEW i \in Incarnations, Revoke(R, s, i)
      PROVE  registry' \in Registry /\ EnvOK' /\ Keeps(R, registry')
  <2> DEFINE G == GiveUp(R, s, {i})
             new == IF BrokerOf(R, s, i)
                    THEN [G.brokers[s] EXCEPT !.state = "stopped", !.cap = FALSE, !.timed = TRUE]
                    ELSE G.brokers[s]
  <2>1. G \in Registry /\ Keeps(R, G)
    BY GiveUpKeeps
  <2>2. G.brokers = R.brokers
    BY DEF GiveUp, Registry
  <2>3. UNCHANGED env /\ registry' = [G EXCEPT !.brokers[s] = new]
    <3>1. G.brokers[s] = G.brokers[s]
      OBVIOUS
    <3> QED BY <1>2, <2>1 DEF Revoke, Registry
  <2>4. new \in Broker \cup {None}
    <3> HIDE DEF G
    <3>1. CASE BrokerOf(R, s, i)
      <4>1. G.brokers[s] \in Broker
        BY <2>1, <2>2, <3>1, BrokerType DEF BrokerOf
      <4> QED BY <3>1, <4>1 DEF Broker, BrokerStates
    <3>2. CASE ~BrokerOf(R, s, i)
      BY <2>1, <3>2 DEF Registry
    <3> QED BY <3>1, <3>2
  <2> HIDE DEF G, new
  <2>5. registry' \in Registry /\ Keeps(G, registry')
    BY <2>1, <2>3, <2>4, BrokerSetKeeps
  <2> QED BY <2>1, <2>3, <2>5, KeepsTransitive, EnvUnchanged
<1>3. CASE ExpireStoppedHeartbeat(R, s)
  <2>1. /\ registry' = R /\ beat' = [beat EXCEPT ![s] = None]
        /\ UNCHANGED <<record, running, resuming, phase, armed>>
    BY <1>3 DEF ExpireStoppedHeartbeat
  <2> QED BY <2>1, KeepsItself, BeatDropped
<1>4. CASE Forget(R, s)
  <2>1. registry' = [R EXCEPT !.brokers[s] = None] /\ UNCHANGED env
    BY <1>4 DEF Forget
  <2> QED BY <2>1, BrokerSetKeeps, EnvUnchanged
<1>5. CASE MarkDegraded(R, s)
  <2>1. /\ R.brokers[s] # None /\ UNCHANGED env
        /\ registry' = [R EXCEPT !.brokers[s] = MarkLost(b, "degraded")]
    BY <1>5 DEF MarkDegraded
  <2>2. MarkLost(b, "degraded") \in Broker
    BY <2>1, BrokerType, MarkLostType DEF BrokerStates
  <2> QED BY <2>1, <2>2, BrokerSetKeeps, EnvUnchanged
<1>6. CASE RecoverBegin(R, s)
  <2> DEFINE new == IF b.state = "recovering" THEN b ELSE MarkLost(b, "recovering")
  <2>1. registry' = [R EXCEPT !.brokers[s] = new] /\ b # None
    BY <1>6 DEF RecoverBegin, BrokerOf
  <2>2. new \in Broker
    BY <2>1, BrokerType, MarkLostType DEF BrokerStates
  <2>3. EnvOK'
    BY <1>6, BeatDropped DEF RecoverBegin
  <2> HIDE DEF new, b
  <2> QED BY <2>1, <2>2, <2>3, BrokerSetKeeps
<1> QED BY <1>1, <1>2, <1>3, <1>4, <1>5, <1>6 DEF Brokers

\* Steps outside the registry.
LEMMA SidecarsKeep ==
    ASSUME EnvOK, NEW s \in Sessions, Sidecars(s)
    PROVE  registry' = registry /\ EnvOK'
<1>1. CASE SidecarChecks(s)
  BY <1>1, PrincipalType DEF SidecarChecks, SidecarMayBeat, EnvOK
<1>2. ASSUME NEW i \in Incarnations, SidecarBeats(s, i)
      PROVE  registry' = registry /\ EnvOK'
  BY <1>2 DEF SidecarBeats, EnvOK
<1> QED BY <1>1, <1>2 DEF Sidecars

LEMMA LaunchesKeep ==
    ASSUME EnvOK, NEW s \in Sessions,
           \/ \E i \in Incarnations : Launch(s, i)
           \/ LaunchReady(s) \/ LaunchStranded(s) \/ LaunchRolledBack(s)
    PROVE  registry' = registry /\ EnvOK'
<1>1. ASSUME NEW i \in Incarnations, Launch(s, i)
      PROVE  registry' = registry /\ EnvOK'
  <2>1. [launch |-> record[s], phase |-> phase[s]] \in
            [launch : Incarnations \cup {None}, phase : Phases \cup {"starting"}]
    BY DEF EnvOK
  <2> QED BY <1>1, <2>1, NoneAssumption DEF Launch, EnvOK
<1>2. CASE LaunchReady(s)
  BY <1>2, InputAssumption DEF LaunchReady, EnvOK
<1>3. CASE LaunchStranded(s)
  BY <1>3 DEF LaunchStranded, EnvOK
<1>4. CASE LaunchRolledBack(s)
  <2>1. resuming[s] \in [launch : Incarnations \cup {None}, phase : Phases \cup {"starting"}]
    BY <1>4 DEF LaunchRolledBack, EnvOK
  <2>2. /\ resuming[s].launch \in Incarnations \cup {None}
        /\ resuming[s].phase \in Phases \cup {"starting"}
    BY <2>1
  <2> QED BY <1>4, <2>2 DEF LaunchRolledBack, EnvOK
<1> QED BY <1>1, <1>2, <1>3, <1>4

\* Provisioning a broker gives up what other launches hold.
LEMMA ProvisionKeeps ==
    ASSUME registry \in Registry, EnvOK, Fenced(registry), NEW s \in Sessions, Provision(s)
    PROVE  registry' \in Registry /\ EnvOK' /\ Keeps(registry, registry')
<1> DEFINE i == record[s]
           new == [inc |-> i, state |-> "ready", cap |-> TRUE, timed |-> FALSE, lost |-> None]
<1>1. PICK e \in Evidence :
        /\ registry' = [GiveUp(Clean(Maintain(registry, e), e), s, Incarnations \ {i}) EXCEPT
                            !.brokers[s] = new]
        /\ resuming[s] # None
        /\ UNCHANGED env
  BY DEF Provision
<1> DEFINE M == Maintain(registry, e)
           C == Clean(M, e)
           G == GiveUp(C, s, Incarnations \ {i})
<1>2. M \in Registry /\ Keeps(registry, M)
  BY MaintainKeeps
<1>3. C \in Registry /\ Keeps(M, C)
  BY <1>2, CleanKeeps
<1>4. registry' = [G EXCEPT !.brokers[s] = new]
  BY <1>1
<1> HIDE DEF M
<1>5. Keeps(registry, C)
  BY <1>2, <1>3, KeepsTransitive
<1> HIDE DEF C
<1>6. Fenced(C)
  BY <1>3, <1>5, KeepsFenced
<1>7. G \in Registry /\ Keeps(C, G)
  BY <1>3, <1>6, GiveUpKeeps
<1> HIDE DEF G
<1>8. Keeps(registry, G)
  BY <1>5, <1>7, KeepsTransitive
<1>9. new \in Broker \cup {None}
  <2>1. i \in Incarnations
    BY <1>1, PrincipalType DEF EnvOK
  <2> QED BY <2>1 DEF Broker, BrokerStates
<1> HIDE DEF new
<1>10. registry' \in Registry /\ Keeps(G, registry')
  BY <1>4, <1>7, <1>9, BrokerSetKeeps
<1> QED BY <1>1, <1>8, <1>10, KeepsTransitive, EnvUnchanged

\* Retiring releases the claim of a launch whose leases are all settled.
LEMMA RetireKeeps ==
    ASSUME registry \in Registry, EnvOK, Fenced(registry), NEW s \in Sessions, RetireStopped(s)
    PROVE  registry' \in Registry /\ EnvOK' /\ Keeps(registry, registry')
<1> DEFINE i == record[s]
           Q == ReleaseOwned(registry, s, i)
           new == [Q.brokers[s] EXCEPT !.state = "stopped", !.cap = FALSE]
<1>1. ASSUME NEW l \in LeaseIds, OpenLease(registry, l)
      PROVE  <<registry.leases[l].session, registry.leases[l].inc>> # <<s, i>>
  BY <1>1 DEF RetireStopped, Retirable, StoppedOutside, OpenLease, Open
<1>2. NoOwnedLease(registry, s, i)
  <2> SUFFICES ASSUME NEW c \in ClaimIds, Owns(registry, c, s, i),
                      NEW l \in LeaseIds, OpenLease(registry, l),
                      registry.leases[l].claim = c
               PROVE  FALSE
    BY DEF NoOwnedLease, HasOpenLease
  <2> QED BY <1>1 DEF Fenced, Owns
<1>3. Q \in Registry /\ Q.brokers = registry.brokers /\ Keeps(registry, Q)
  BY <1>2, ReleaseOwnedType, ReleaseOwnedKeeps
<1>4. BrokerOf(registry, s, i) /\ UNCHANGED env
  BY DEF RetireStopped, Retirable, StoppedOutside
<1>5. registry' = [Q EXCEPT !.brokers[s] = new]
  BY <1>3 DEF RetireStopped, Registry
<1> HIDE DEF Q
<1>6. new \in Broker
  <2>1. Q.brokers[s] \in Broker
    BY <1>3, <1>4, BrokerType DEF BrokerOf
  <2> QED BY <2>1 DEF Broker, BrokerStates
<1> HIDE DEF new
<1>7. registry' \in Registry /\ Keeps(Q, registry')
  BY <1>3, <1>5, <1>6, BrokerSetKeeps
<1> QED BY <1>3, <1>4, <1>7, KeepsTransitive, EnvUnchanged

\* Recovery abandons leases and makes the broker ready again.
LEMMA RecoverKeeps ==
    ASSUME registry \in Registry, EnvOK, NEW s \in Sessions, NEW reconciled,
           RecoverFinish(s, reconciled)
    PROVE  registry' \in Registry /\ EnvOK' /\ Keeps(registry, registry')
<1> DEFINE i == record[s]
<1>1. PICK e \in Evidence :
        LET R == Maintain(registry, e)
        IN /\ BrokerOf(R, s, i)
           /\ \A l \in reconciled : l \in LeasesOf(R, s, {i})
           /\ registry' = [R EXCEPT
                !.brokers[s] = [@ EXCEPT !.state = "ready", !.timed = TRUE, !.lost = None],
                !.leases = [l \in LeaseIds |->
                    IF l \in reconciled THEN CloseLease(R.leases[l], "abandoned")
                    ELSE R.leases[l]]]
           /\ UNCHANGED env
  BY DEF RecoverFinish
<1> DEFINE R == Maintain(registry, e)
           new == [R.brokers[s] EXCEPT !.state = "ready", !.timed = TRUE, !.lost = None]
           closed(l) == CloseLease(R.leases[l], "abandoned")
           leases == [l \in LeaseIds |-> IF l \in reconciled THEN closed(l) ELSE R.leases[l]]
           S == [R EXCEPT !.leases = leases]
<1>2. R \in Registry /\ Keeps(registry, R)
  BY MaintainKeeps
<1>3. /\ BrokerOf(R, s, i) /\ \A l \in reconciled : l \in LeasesOf(R, s, {i})
      /\ registry' = [R EXCEPT !.brokers[s] = new, !.leases = leases]
      /\ UNCHANGED env
  BY <1>1
<1> HIDE DEF R
<1>4. ASSUME NEW l \in LeaseIds, l \in reconciled
      PROVE  closed(l) \in ClosedLease
  <2>1. R.leases[l] \in Lease
    BY <1>2, <1>3, <1>4, OpenIsLease DEF LeasesOf
  <2> QED BY <2>1, CloseLeaseType DEF Closed
<1>5. new \in Broker
  <2>1. R.brokers[s] \in Broker
    BY <1>2, <1>3, BrokerType DEF BrokerOf
  <2> QED BY <2>1 DEF Broker, BrokerStates
<1> HIDE DEF new, closed
<1>6. leases \in [LeaseIds -> Lease \cup ClosedLease \cup {None}]
  BY <1>2, <1>4 DEF Registry
<1>7. \A l \in LeaseIds : leases[l] = R.leases[l] \/ leases[l] \in ClosedLease
  BY <1>4
<1> HIDE DEF leases
<1>8. S \in Registry /\ S.claims = R.claims /\ S.leases = leases
  BY <1>2, <1>6 DEF Registry
<1>9. registry' = [S EXCEPT !.brokers[s] = new]
  BY <1>2, <1>3 DEF Registry
<1> HIDE DEF S
<1>10. Keeps(R, S)
  BY <1>7, <1>8, KeepsByLeases
<1>11. registry' \in Registry /\ Keeps(S, registry')
  BY <1>5, <1>8, <1>9, BrokerSetKeeps
<1> QED BY <1>2, <1>3, <1>10, <1>11, KeepsTransitive, EnvUnchanged

LEMMA DeleteKeeps ==
    ASSUME registry \in Registry, EnvOK, NEW s \in Sessions, Delete(s)
    PROVE  registry' \in Registry /\ EnvOK' /\ Keeps(registry, registry')
<1> DEFINE b == registry.brokers[s]
           new == IF b = None THEN None ELSE [b EXCEPT !.cap = FALSE]
<1>1. registry' = [registry EXCEPT !.brokers[s] = new]
  BY DEF Delete, Registry
<1>2. new \in Broker \cup {None}
  BY BrokerType DEF Broker
<1> HIDE DEF new
<1>3. EnvOK'
  BY DEF Delete, Principal, EnvOK
<1> QED BY <1>1, <1>2, <1>3, BrokerSetKeeps

LEMMA LifecycleKeeps ==
    ASSUME registry \in Registry, EnvOK, Fenced(registry), NEW s \in Sessions, Lifecycle(s)
    PROVE  registry' \in Registry /\ EnvOK' /\ Keeps(registry, registry')
BY LaunchesKeep, KeepsItself, ProvisionKeeps, RetireKeeps, RecoverKeeps, DeleteKeeps
   DEF Lifecycle

LEMMA DownType ==
    /\ \A n \in Nat : Down(n) \in Nat
    /\ Down(None) = None
BY NoneAssumption DEF Down

\* Time changes what is due, and nothing a lease locks.
LEMMA TickKeeps ==
    ASSUME registry \in Registry, EnvOK, Tick
    PROVE  registry' \in Registry /\ EnvOK' /\ Keeps(registry, registry')
<1> DEFINE broker(s) == [registry.brokers[s] EXCEPT !.lost = Down(@)]
           claim(c) == [registry.claims[c] EXCEPT !.due = Down(@)]
           open(l) == [registry.leases[l] EXCEPT !.due = Down(@), !.gap = Down(@)]
           shut(l) == [registry.leases[l] EXCEPT !.due = Down(@)]
           event(l, n) == [registry.events[l][n] EXCEPT !.due = Down(@)]
           brokers == [s \in Sessions |->
                        IF registry.brokers[s] = None THEN None ELSE broker(s)]
           claims == [c \in ClaimIds |-> IF registry.claims[c] = None THEN None ELSE claim(c)]
           leases == [l \in LeaseIds |-> IF registry.leases[l] = None THEN None
                        ELSE IF OpenLease(registry, l) THEN open(l) ELSE shut(l)]
           queue(l) == [n \in 1 .. Len(registry.events[l]) |-> event(l, n)]
           events == [l \in LeaseIds |-> queue(l)]
<1>1. /\ registry' = [brokers |-> brokers, claims |-> claims,
                      leases |-> leases, events |-> events]
      /\ UNCHANGED env
  BY DEF Tick
<1>2. ASSUME NEW s \in Sessions, registry.brokers[s] # None
      PROVE  broker(s) \in Broker
  <2>1. registry.brokers[s] \in Broker
    BY <1>2, BrokerType
  <2>2. Down(registry.brokers[s].lost) \in Nat \cup {None}
    BY <2>1, DownType DEF Broker
  <2> QED BY <2>1, <2>2 DEF Broker
<1>3. ASSUME NEW c \in ClaimIds, registry.claims[c] # None
      PROVE  /\ claim(c) \in Claim \cup ClosedClaim
             /\ ActiveClaim(registry, c) =>
                  /\ claim(c).session = registry.claims[c].session
                  /\ claim(c).inc = registry.claims[c].inc
                  /\ claim(c).context = registry.claims[c].context
                  /\ claim(c).state = "active"
  <2>1. CASE registry.claims[c] \in Claim
    <3>1. Down(registry.claims[c].due) \in Nat
      BY <2>1, DownType DEF Claim
    <3> QED BY <2>1, <3>1 DEF Claim
  <2>2. CASE registry.claims[c] \in ClosedClaim
    <3>1. Down(registry.claims[c].due) \in Nat
      BY <2>2, DownType DEF ClosedClaim
    <3> QED BY <2>2, <3>1 DEF ClosedClaim, ActiveClaim
  <2> QED BY <1>3, <2>1, <2>2 DEF Registry
<1>4. ASSUME NEW l \in LeaseIds, OpenLease(registry, l)
      PROVE  open(l) \in Lease /\ SameHold(registry.leases[l], open(l))
  <2>1. registry.leases[l] \in Lease
    BY <1>4, OpenIsLease
  <2>2. Down(registry.leases[l].due) \in Nat /\ Down(registry.leases[l].gap) \in Nat
    BY <2>1, DownType DEF Lease
  <2> QED BY <2>1, <2>2 DEF Lease, SameHold
<1>5. ASSUME NEW l \in LeaseIds, registry.leases[l] # None, ~OpenLease(registry, l)
      PROVE  shut(l) \in ClosedLease
  <2>1. registry.leases[l] \in ClosedLease
    BY <1>5 DEF Registry, OpenLease, Lease
  <2>2. Down(registry.leases[l].due) \in Nat
    BY <2>1, DownType DEF ClosedLease
  <2> QED BY <2>1, <2>2 DEF ClosedLease
<1>6. ASSUME NEW l \in LeaseIds
      PROVE  queue(l) \in Seq(Event)
  <2>1. registry.events[l] \in Seq(Event)
    BY DEF Registry
  <2>2. ASSUME NEW n \in 1 .. Len(registry.events[l])
        PROVE  event(l, n) \in Event
    <3>1. registry.events[l][n] \in Event
      BY <2>1, ElementOfSeq
    <3>2. Down(registry.events[l][n].due) \in Nat
      BY <3>1, DownType DEF Event
    <3> QED BY <3>1, <3>2 DEF Event
  <2>3. Len(registry.events[l]) \in Nat
    BY <2>1, LenProperties
  <2> HIDE DEF event
  <2>4. queue(l) \in [1 .. Len(registry.events[l]) -> Event]
    BY <2>2
  <2> QED BY <2>3, <2>4, SeqDef
<1> HIDE DEF broker, claim, open, shut, queue
<1>7. /\ brokers \in [Sessions -> Broker \cup {None}]
      /\ claims \in [ClaimIds -> Claim \cup ClosedClaim \cup {None}]
      /\ leases \in [LeaseIds -> Lease \cup ClosedLease \cup {None}]
      /\ events \in [LeaseIds -> Seq(Event)]
  BY <1>2, <1>3, <1>4, <1>5, <1>6
<1>8. /\ \A c \in ClaimIds : registry.claims[c] # None => claims[c] = claim(c)
      /\ \A l \in LeaseIds : \/ leases[l] = None
                             \/ leases[l] \in ClosedLease
                             \/ OpenLease(registry, l) /\ leases[l] = open(l)
  BY <1>5
<1> HIDE DEF brokers, claims, leases, events
<1>9. /\ registry' \in Registry
      /\ registry'.claims = claims /\ registry'.leases = leases
  BY <1>1, <1>7 DEF Registry
<1>10. Shrinks(registry, registry')
  <2> SUFFICES ASSUME NEW l \in LeaseIds, OpenLease(registry', l)
               PROVE  /\ OpenLease(registry, l)
                      /\ SameHold(registry.leases[l], registry'.leases[l])
    BY DEF Shrinks
  <2>1. leases[l] # None /\ leases[l] \notin ClosedLease
    BY <1>9, ClosedIsNotOpen DEF OpenLease
  <2> QED BY <1>4, <1>8, <1>9, <2>1
<1>11. Backs(registry, registry')
  <2>1. ASSUME NEW c \in ClaimIds
        PROVE  Stands(registry, registry', c)
    <3>1. ActiveClaim(registry, c) => claims[c] = claim(c) /\ claims[c] # None
      BY <1>3, <1>8, NoneAssumption DEF ActiveClaim
    <3> QED BY <1>3, <1>9, <3>1 DEF Stands, ActiveClaim
  <2> QED BY <1>9, <2>1, OpenLeaseClaim DEF Backs
<1> QED BY <1>1, <1>9, <1>10, <1>11, EnvUnchanged DEF Keeps

\* Runtimes, turns, processes and time lock nothing.
LEMMA WorldKeeps ==
    ASSUME registry \in Registry, EnvOK, World
    PROVE  registry' \in Registry /\ EnvOK' /\ Keeps(registry, registry')
<1>1. ASSUME NEW s \in Sessions, RuntimeExits(s)
      PROVE  registry' = registry /\ EnvOK'
  BY <1>1 DEF RuntimeExits, EnvOK
<1>2. ASSUME NEW s \in Sessions, BeatLapses(s)
      PROVE  registry' = registry /\ EnvOK'
  BY <1>2, BeatDropped DEF BeatLapses
<1>3. ASSUME NEW s \in Sessions, TurnChanges(s)
      PROVE  registry' \in Registry /\ EnvOK' /\ Keeps(registry, registry')
  <2>1. EnvOK'
    BY <1>3, InputAssumption DEF TurnChanges, EnvOK
  <2>2. registry' = EndTurn(registry, s)
    BY <1>3 DEF TurnChanges
  <2> QED BY <2>1, <2>2, EndTurnKeeps
<1>4. ASSUME NEW s \in Sessions, TurnProgresses(s)
      PROVE  registry' = registry /\ EnvOK'
  BY <1>4 DEF TurnProgresses, EnvOK
<1>5. ASSUME NEW l \in LeaseIds, DescendantExits(l)
      PROVE  registry' \in Registry /\ EnvOK' /\ Keeps(registry, registry')
  <2> DEFINE new == [registry.leases[l] EXCEPT !.descendant = "exited"]
  <2>1. registry.leases[l] \in Lease
    BY <1>5, OpenIsLease DEF DescendantExits
  <2>2. new \in Lease /\ SameHold(registry.leases[l], new)
    BY <2>1 DEF Lease, SameHold
  <2>3. registry' = [registry EXCEPT !.leases[l] = new]
    BY <1>5 DEF DescendantExits, Registry
  <2> HIDE DEF new
  <2>4. /\ registry' \in Registry /\ registry'.claims = registry.claims
        /\ registry'.leases[l] = new
        /\ \A m \in LeaseIds : m # l => registry'.leases[m] = registry.leases[m]
    BY <2>2, <2>3 DEF Registry
  <2>5. Keeps(registry, registry')
    BY <1>5, <2>2, <2>4, KeepsByLeases DEF DescendantExits
  <2> QED BY <1>5, <2>4, <2>5, EnvUnchanged DEF DescendantExits
<1> QED BY <1>1, <1>2, <1>3, <1>4, <1>5, TickKeeps, KeepsItself DEF World

-----------------------------------------------------------------------------
(* Admission.                                                              *)

\* S is R with one more lease l, of a session that had none, on a context no
\* other open lease conflicts with.
Grants(R, S, l, s) ==
    /\ ~OpenLease(R, l) /\ OpenLease(S, l)
    /\ S.leases[l].session = s
    /\ S.claims = R.claims
    /\ \A m \in LeaseIds : m # l => S.leases[m] = R.leases[m]
    /\ Owns(S, S.leases[l].claim, s, S.leases[l].inc)
    /\ S.leases[l].claim \in ClaimIds
    /\ Covered(LeaseContext(S, l), S.leases[l].targets, S.leases[l].provider_targets)
    /\ \A m \in LeaseIds : OpenLease(R, m) =>
        /\ R.leases[m].session # s
        /\ ~Conflict(LeaseContext(S, l), LeaseContext(R, m))

LEMMA AdmitGrants ==
    ASSUME EnvOK, NEW R \in Registry, Fenced(R), NEW s \in Sessions, Operations(R, s)
    PROVE  /\ registry' \in Registry /\ EnvOK'
           /\ \E l \in LeaseIds : Grants(R, registry', l, s)
<1> DEFINE i == record[s]
<1>1. PICK targets \in TargetSets, providerTargets \in ProviderTargetSets,
           descendant \in Descendants : Admit(R, s, targets, providerTargets, descendant)
  BY DEF Operations
<1> DEFINE new(c) == [session |-> s, inc |-> i, claim |-> c, targets |-> targets,
                      provider_targets |-> providerTargets, state |-> "active",
                      revision |-> 1, due |-> Ttl, gap |-> 0, over |-> FALSE,
                      descendant |-> descendant]
<1>2. PICK c \in ClaimIds, l \in LeaseIds :
        /\ Principal(s, i) /\ Idle(R, s) /\ Owns(R, c, s, i)
        /\ Covered(R.claims[c].context, targets, providerTargets)
        /\ ~ConflictsWithPeer(R, s, i, R.claims[c].context)
        /\ FreshLease(R, l)
        /\ registry' = [R EXCEPT !.leases[l] = new(c)]
        /\ UNCHANGED env
  BY <1>1 DEF Admit
<1> DEFINE x == new(c)
<1>3. /\ x \in Lease /\ x.session = s /\ x.inc = i /\ x.claim = c
      /\ x.targets = targets /\ x.provider_targets = providerTargets /\ x.state \in Open
  <2>1. i \in Incarnations
    BY <1>2, PrincipalType DEF Principal
  <2>2. /\ targets \in SUBSET Scope /\ providerTargets \in SUBSET ProviderRefs
        /\ descendant \in {"none", "live", "exited"}
    BY InputAssumption
  <2> QED BY <2>1, <2>2, BoundAssumption DEF Lease, Open
<1> HIDE DEF x
<1>4. /\ registry' \in Registry /\ registry'.claims = R.claims
      /\ registry'.leases[l] = x
      /\ \A m \in LeaseIds : m # l => registry'.leases[m] = R.leases[m]
  <2>1. registry' = [R EXCEPT !.leases[l] = x]
    BY <1>2 DEF x
  <2> QED BY <1>3, <2>1 DEF Registry
<1>5. ~OpenLease(R, l) /\ OpenLease(registry', l)
  BY <1>2, <1>3, <1>4, NoneAssumption DEF OpenLease, FreshLease
<1>6. LeaseContext(registry', l) = R.claims[c].context
  BY <1>3, <1>4 DEF LeaseContext
<1>7. ASSUME NEW m \in LeaseIds, OpenLease(R, m)
      PROVE  /\ R.leases[m].session # s
             /\ ~Conflict(LeaseContext(registry', l), LeaseContext(R, m))
  <2>1. R.leases[m].session # s
    BY <1>2, <1>7 DEF Idle
  <2>2. Owns(R, R.leases[m].claim, R.leases[m].session, R.leases[m].inc)
    BY <1>7 DEF Fenced
  <2>3. R.leases[m].claim \in ClaimIds
    BY <1>7, OpenLeaseClaim
  <2> QED BY <1>2, <1>6, <2>1, <2>2, <2>3 DEF ConflictsWithPeer, Owns, LeaseContext
<1>8. Owns(registry', c, s, i)
  BY <1>2, <1>4 DEF Owns, ActiveClaim
<1>9. Grants(R, registry', l, s)
  BY <1>2, <1>3, <1>4, <1>5, <1>6, <1>7, <1>8 DEF Grants
<1> QED BY <1>2, <1>4, <1>9, EnvUnchanged

LEMMA GrantsSafe ==
    ASSUME NEW R \in Registry, Safe(R), NEW S \in Registry,
           NEW s, NEW l \in LeaseIds, Grants(R, S, l, s)
    PROVE  Safe(S)
<1>1. ASSUME NEW m \in LeaseIds, OpenLease(S, m), m # l
      PROVE  /\ OpenLease(R, m) /\ S.leases[m] = R.leases[m]
             /\ LeaseContext(S, m) = LeaseContext(R, m)
  BY <1>1 DEF Grants, OpenLease, LeaseContext
<1>2. Fenced(S)
  <2> SUFFICES ASSUME NEW m \in LeaseIds, OpenLease(S, m)
               PROVE  /\ Owns(S, S.leases[m].claim, S.leases[m].session, S.leases[m].inc)
                      /\ Covered(LeaseContext(S, m), S.leases[m].targets,
                                 S.leases[m].provider_targets)
    BY DEF Fenced
  <2>1. CASE m = l
    BY <2>1 DEF Grants
  <2>2. CASE m # l
    <3>1. /\ Owns(R, R.leases[m].claim, R.leases[m].session, R.leases[m].inc)
          /\ Covered(LeaseContext(R, m), R.leases[m].targets, R.leases[m].provider_targets)
      BY <1>1, <2>2 DEF Safe, Fenced
    <3>2. S.claims = R.claims
      BY DEF Grants
    <3> QED BY <1>1, <2>2, <3>1, <3>2 DEF Owns, ActiveClaim
  <2> QED BY <2>1, <2>2
<1>3. Single(S)
  BY <1>1 DEF Safe, Single, Grants
<1>4. Disjoint(S)
  <2> SUFFICES ASSUME NEW m \in LeaseIds, NEW n \in LeaseIds,
                      OpenLease(S, m), OpenLease(S, n), m # n
               PROVE  ~Conflict(LeaseContext(S, m), LeaseContext(S, n))
    BY DEF Disjoint
  <2>1. CASE m = l
    BY <1>1, <2>1 DEF Grants
  <2>2. CASE n = l
    <3>1. ~Conflict(LeaseContext(S, n), LeaseContext(S, m))
      BY <1>1, <2>2 DEF Grants
    <3> QED BY <3>1, ConflictSymmetric
  <2>3. CASE m # l /\ n # l
    BY <1>1, <2>3 DEF Safe, Disjoint
  <2> QED BY <2>1, <2>2, <2>3
<1> QED BY <1>2, <1>3, <1>4 DEF Safe

-----------------------------------------------------------------------------
(* The invariant and what follows from it.                                 *)

Inv == registry \in Registry /\ EnvOK /\ Safe(registry)

\* Every step locks nothing new, or admits one operation.
Steps ==
    \/ Keeps(registry, registry')
    \/ \E R \in Registry, l \in LeaseIds, s \in Sessions :
        Keeps(registry, R) /\ Grants(R, registry', l, s)

LEMMA InitInv ==
    ASSUME Init
    PROVE  Inv
<1>1. registry \in Registry
  <2>1. <<>> \in Seq(Event)
    BY EmptySeq
  <2> QED BY <2>1 DEF Init, Registry
<1>2. EnvOK
  BY DEF Init, EnvOK
<1>3. \A l \in LeaseIds : ~OpenLease(registry, l)
  BY DEF Init, OpenLease
<1>4. Safe(registry)
  BY <1>3 DEF Safe, Fenced, Single, Disjoint
<1> QED BY <1>1, <1>2, <1>4 DEF Inv

LEMMA NextSteps ==
    ASSUME Inv, [Next]_vars
    PROVE  registry' \in Registry /\ EnvOK' /\ Steps
<1>1. registry \in Registry /\ EnvOK /\ Safe(registry) /\ Fenced(registry)
  BY DEF Inv, Safe
<1>2. ASSUME NEW R \in Swept, NEW s \in Sessions, Claims(R, s)
      PROVE  registry' \in Registry /\ EnvOK' /\ Steps
  BY <1>1, <1>2, SweptKeeps, ClaimsKeep, KeepsTransitive DEF Steps
<1>3. ASSUME NEW R \in Swept, NEW s \in Sessions, Operations(R, s)
      PROVE  registry' \in Registry /\ EnvOK' /\ Steps
  <2>1. R \in Registry /\ Keeps(registry, R)
    BY <1>1, SweptKeeps
  <2>2. Fenced(R)
    BY <1>1, <2>1, KeepsFenced
  <2> QED BY <1>1, <1>3, <2>1, <2>2, AdmitGrants DEF Steps
<1>4. ASSUME NEW R \in Maintained, NEW s \in Sessions, Brokers(R, s)
      PROVE  registry' \in Registry /\ EnvOK' /\ Steps
  <2>1. R \in Registry /\ Keeps(registry, R)
    BY <1>1, MaintainedKeeps
  <2>2. Fenced(R)
    BY <1>1, <2>1, KeepsFenced
  <2> QED BY <1>1, <1>4, <2>1, <2>2, BrokersKeep, KeepsTransitive DEF Steps
<1>5. ASSUME NEW s \in Sessions, Lifecycle(s) \/ Sidecars(s)
      PROVE  registry' \in Registry /\ EnvOK' /\ Steps
  BY <1>1, <1>5, LifecycleKeeps, SidecarsKeep, KeepsItself DEF Steps
<1>6. CASE Completions
  BY <1>1, <1>6, CompletionsKeep DEF Steps
<1>7. CASE World
  BY <1>1, <1>7, WorldKeeps DEF Steps
<1>8. CASE UNCHANGED vars
  <2>1. registry' = registry /\ UNCHANGED env
    BY <1>8 DEF vars, env
  <2> QED BY <1>1, <2>1, EnvUnchanged, KeepsItself DEF Steps
<1> QED BY <1>2, <1>3, <1>4, <1>5, <1>6, <1>7, <1>8 DEF Next

LEMMA NextInv ==
    ASSUME Inv, [Next]_vars
    PROVE  Inv'
<1>1. registry \in Registry /\ Safe(registry)
  BY DEF Inv
<1>2. registry' \in Registry /\ EnvOK' /\ Steps
  BY NextSteps
<1>3. Safe(registry')
  <2>1. CASE Keeps(registry, registry')
    BY <1>1, <2>1, KeepsSafe
  <2>2. ASSUME NEW R \in Registry, NEW l \in LeaseIds, NEW s \in Sessions,
               Keeps(registry, R), Grants(R, registry', l, s)
        PROVE  Safe(registry')
    <3>1. Safe(R)
      BY <1>1, <2>2, KeepsSafe
    <3> QED BY <1>2, <2>2, <3>1, GrantsSafe
  <2> QED BY <1>2, <2>1, <2>2 DEF Steps
<1>4. Safe(registry)'
  BY <1>3
<1> QED BY <1>2, <1>4 DEF Inv

LEMMA Invariance == Spec => []Inv
<1>1. Init => Inv
  BY InitInv
<1>2. Inv /\ [Next]_vars => Inv'
  BY NextInv
<1> QED BY <1>1, <1>2, PTL DEF Spec

\* The registry keeps its shape: no handler, sweep or recovery leaves a lease,
\* claim, broker or queued event that is neither live nor properly terminal.
THEOREM TypeCorrect == Spec => []TypeOK
<1>1. Inv => TypeOK
  BY TypeParts DEF Inv
<1> QED BY <1>1, Invariance, PTL

\* No path of the code strips the claim from under a running operation
\* (release, replacement, expiry, revocation, retirement, deletion).
THEOREM FenceSafe == Spec => []OperationFence
<1>1. Inv => OperationFence
  BY DEF Inv, Safe, OperationFence
<1> QED BY <1>1, Invariance, PTL

\* Two operations admitted at the same time never target overlapping scopes or
\* a common provider reference: the guarantee admit is written for.
THEOREM ExclusionSafe == Spec => []MutationExclusion
<1>1. Inv => MutationExclusion
  BY SafeExcludes DEF Inv, MutationExclusion
<1> QED BY <1>1, Invariance, PTL

-----------------------------------------------------------------------------
(* Leases implement the lock of MutationLock.                              *)

LEMMA LockConflict ==
    ASSUME NEW c, NEW d
    PROVE  Lock!Conflict(c, d) <=> Conflict(c, d)
<1>1. \A p, q : Lock!PathIsWithin(p, q) <=> PathIsWithin(p, q)
  BY DEF Lock!PathIsWithin, PathIsWithin
<1>2. \A a, b : Lock!ScopesOverlap(a, b) <=> ScopesOverlap(a, b)
  BY <1>1 DEF Lock!ScopesOverlap, ScopesOverlap
<1> QED BY <1>2 DEF Lock!Conflict, Conflict

\* What the leases of a registry lock; Held is Locked(registry).
Locked(R) ==
    [l \in LeaseIds |->
        IF OpenLease(R, l)
        THEN [session |-> R.leases[l].session, context |-> LeaseContext(R, l)]
        ELSE None]

\* A registry that keeps locks a part of what was locked.
LEMMA KeepsLocked ==
    ASSUME NEW R \in Registry, Fenced(R), NEW S, Keeps(R, S)
    PROVE  Locked(S) = [l \in LeaseIds |-> IF OpenLease(S, l) THEN Locked(R)[l] ELSE None]
<1>1. ASSUME NEW l \in LeaseIds, OpenLease(S, l)
      PROVE  [session |-> S.leases[l].session, context |-> LeaseContext(S, l)] = Locked(R)[l]
  BY <1>1, KeptLease DEF SameHold, Locked
<1> QED BY <1>1 DEF Locked

LEMMA StepsLock ==
    ASSUME Inv, registry' \in Registry, Steps
    PROVE  Lock!Next
<1>1. registry \in Registry /\ Fenced(registry)
  BY DEF Inv, Safe
<1>2. Held = Locked(registry) /\ Held' = Locked(registry')
  BY DEF Held, Locked
<1>3. CASE Keeps(registry, registry')
  <2> DEFINE L == {l \in LeaseIds : OpenLease(registry', l)}
  <2>1. Held' = [l \in LeaseIds |-> IF l \in L THEN Held[l] ELSE None]
    BY <1>1, <1>2, <1>3, KeepsLocked
  <2>2. L \in SUBSET LeaseIds /\ Lock!Release(L)
    BY <2>1 DEF Lock!Release, Lock!Keep
  <2> QED BY <2>2 DEF Lock!Next
<1>4. ASSUME NEW R \in Registry, NEW l \in LeaseIds, NEW s \in Sessions,
             Keeps(registry, R), Grants(R, registry', l, s)
      PROVE  Lock!Next
  <2> DEFINE L == {m \in LeaseIds : OpenLease(R, m)}
             context == LeaseContext(registry', l)
             kept == [m \in LeaseIds |-> IF m \in L THEN Held[m] ELSE None]
  <2>1. Locked(R) = kept
    BY <1>1, <1>2, <1>4, KeepsLocked
  <2>2. context \in Declarable
    <3>1. registry'.leases[l].claim \in ClaimIds /\ ActiveClaim(registry', registry'.leases[l].claim)
      BY <1>4 DEF Grants, Owns
    <3>2. registry'.claims[registry'.leases[l].claim] \in Claim
      BY <3>1, ActiveIsClaim
    <3> QED BY <3>2 DEF Claim, LeaseContext
  <2>3. ASSUME NEW m \in L
        PROVE  /\ Held[m] = [session |-> R.leases[m].session, context |-> LeaseContext(R, m)]
               /\ Held[m].session # s
               /\ ~Lock!Conflict(context, Held[m].context)
    <3>1. Held[m] = [session |-> R.leases[m].session, context |-> LeaseContext(R, m)]
      BY <2>1, <2>3 DEF Locked
    <3>2. R.leases[m].session # s /\ ~Conflict(context, LeaseContext(R, m))
      BY <1>4, <2>3 DEF Grants
    <3> QED BY <3>1, <3>2, LockConflict
  <2>4. Held' = [kept EXCEPT ![l] = [session |-> s, context |-> context]]
    <3>1. \A m \in LeaseIds : m # l =>
            /\ OpenLease(registry', m) <=> OpenLease(R, m)
            /\ registry'.leases[m] = R.leases[m]
            /\ LeaseContext(registry', m) = LeaseContext(R, m)
      BY <1>4 DEF Grants, OpenLease, LeaseContext
    <3>2. OpenLease(registry', l) /\ registry'.leases[l].session = s
      BY <1>4 DEF Grants
    <3>3. Locked(registry') = [Locked(R) EXCEPT ![l] = [session |-> s, context |-> context]]
      BY <3>1, <3>2 DEF Locked
    <3> QED BY <1>2, <2>1, <3>3
  <2>5. l \notin L
    BY <1>4 DEF Grants
  <2> HIDE DEF context
  <2>6. Lock!Grant(L, l, s, context)
    BY <2>3, <2>4, <2>5 DEF Lock!Grant, Lock!Keep
  <2>7. L \in SUBSET LeaseIds
    OBVIOUS
  <2> QED BY <2>2, <2>6, <2>7 DEF Lock!Next
<1> QED BY <1>3, <1>4 DEF Steps

\* Every behaviour of the registry is a behaviour of the lock: leases only end
\* or are granted, one at a time and never against one that is held, and an
\* open lease's holder and context never change.
THEOREM Refinement == Spec => ImplementsLock
<1>1. Init => Lock!Init
  BY DEF Init, Lock!Init, Held, OpenLease
<1>2. Inv /\ [Next]_vars => [Lock!Next]_Held
  BY NextSteps, StepsLock
<1> QED BY <1>1, <1>2, Invariance, PTL DEF Spec, ImplementsLock, Lock!Spec

=============================================================================
