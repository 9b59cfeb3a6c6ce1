-------------------------- MODULE CompletionProofs --------------------------
(***************************************************************************)
(* What becomes of claims and leases: a claim is answered for by its own   *)
(* broker until it ends, a lease ends with the outcome that was persisted  *)
(* for it, and without one it is never taken from a turn at work.          *)
(*                                                                         *)
(* Three invariants carry the proofs.  Answered is inductive by itself.    *)
(* Fit says more than AcceptedCompletionFits: every queued event of an     *)
(* open lease fits, and at the exact revision while the lease's launch     *)
(* runs.  The second half is what makes a renewal harmless: it turns a     *)
(* completing lease back to active, where only the exact revision fits.    *)
(* It needs RuntimeOfRecord, because clean_expired moves revisions after   *)
(* reclaim drained the queues of the launches that records name.           *)
(***************************************************************************)
EXTENDS CoordinationProofs

\* A launch's broker that is not stopped.
Serves(R, s, i) == BrokerOf(R, s, i) /\ R.brokers[s].state # "stopped"

\* ClaimAnswered, of a registry.
Answered(R) ==
    \A c \in ClaimIds : ActiveClaim(R, c) =>
        Serves(R, R.claims[c].session, R.claims[c].inc)

\* A runtime that runs is the one its record names.
RuntimeOfRecord == \A s \in Sessions : running[s] # None => running[s] = record[s]

\* Every queued event of an open lease fits; run is who runs.
FitsAll(x, queue, run) ==
    \A n \in 1 .. Len(queue) :
        /\ Fits(x, queue[n])
        /\ run[x.session] = x.inc => x.revision = queue[n].revision

Fit(R, run) ==
    \A l \in LeaseIds : OpenLease(R, l) => FitsAll(R.leases[l], R.events[l], run)

-----------------------------------------------------------------------------
(* How a lease ends.                                                       *)

\* The oldest event of the queue, still retained.
Pending(queue) == queue # <<>> /\ queue[1].due > 0

Excused(x) ==
    \/ running[x.session] # x.inc
    \/ Supersedes(x)
    \/ phase[x.session] = "stopping"

SameTurn(x, y) == x.session = y.session /\ x.inc = y.inc /\ x.over = y.over

\* The lease stays open, and so does what is known of its outcome.
Survives(R, S, l) ==
    /\ OpenLease(S, l)
    /\ SameTurn(R.leases[l], S.leases[l])
    /\ R.events[l] = <<>> => S.events[l] = <<>>
    /\ Pending(R.events[l]) => Pending(S.events[l]) /\ S.events[l][1] = R.events[l][1]

\* The lease ends as its oldest event says, or with an excuse.
EndsWell(R, S, l) ==
    /\ ~OpenLease(S, l)
    /\ Pending(R.events[l]) =>
        S.leases[l] = CloseLease(R.leases[l], Verdict(R.events[l][1].outcome))
    /\ R.events[l] = <<>> => Excused(R.leases[l])

\* A settled lease within its retention.
Retained(R, l) == R.leases[l] # None /\ ~OpenLease(R, l) /\ R.leases[l].due > 0

SettlesAt(R, S, l) ==
    /\ OpenLease(R, l) => Survives(R, S, l) \/ EndsWell(R, S, l)
    /\ ~OpenLease(R, l) => ~OpenLease(S, l)
    /\ Retained(R, l) => S.leases[l] = R.leases[l]

Settles(R, S) == \A l \in LeaseIds : SettlesAt(R, S, l)

LEMMA ClosedIsRetained ==
    ASSUME NEW S, NEW l, NEW x \in Lease, NEW state \in Closed,
           S.leases[l] = CloseLease(x, state)
    PROVE  Retained(S, l)
<1>1. CloseLease(x, state) \in ClosedLease /\ CloseLease(x, state).due = Retention
  BY CloseLeaseType DEF CloseLease
<1> QED BY <1>1, NoneAssumption, BoundAssumption, ClosedIsNotOpen DEF Retained

LEMMA VerdictCloses ==
    ASSUME NEW outcome
    PROVE  Verdict(outcome) \in Closed
BY DEF Verdict, Closed

LEMMA SettlesTransitive ==
    ASSUME NEW R \in Registry, NEW S, NEW T, Settles(R, S), Settles(S, T)
    PROVE  Settles(R, T)
<1> SUFFICES ASSUME NEW l \in LeaseIds
             PROVE  SettlesAt(R, T, l)
  BY DEF Settles
<1>1. SettlesAt(R, S, l) /\ SettlesAt(S, T, l)
  BY DEF Settles
<1>2. ASSUME OpenLease(R, l), Survives(R, S, l)
      PROVE  Survives(R, T, l) \/ EndsWell(R, T, l)
  <2>1. OpenLease(S, l) /\ SameTurn(R.leases[l], S.leases[l])
    BY <1>2 DEF Survives
  <2>2. CASE Survives(S, T, l)
    BY <1>2, <2>2 DEF Survives, SameTurn
  <2>3. CASE EndsWell(S, T, l)
    <3>1. Pending(R.events[l]) =>
            T.leases[l] = CloseLease(R.leases[l], Verdict(R.events[l][1].outcome))
      BY <1>2, <2>1, <2>3 DEF Survives, EndsWell, CloseLease, SameTurn
    <3>2. R.events[l] = <<>> => Excused(R.leases[l])
      BY <1>2, <2>1, <2>3 DEF Survives, EndsWell, Excused, Supersedes, SameTurn
    <3> QED BY <2>3, <3>1, <3>2 DEF EndsWell
  <2> QED BY <1>1, <2>1, <2>2, <2>3 DEF SettlesAt
<1>3. ASSUME OpenLease(R, l), EndsWell(R, S, l)
      PROVE  EndsWell(R, T, l)
  <2>1. ~OpenLease(T, l)
    BY <1>1, <1>3 DEF EndsWell, SettlesAt
  <2>2. ASSUME Pending(R.events[l])
        PROVE  T.leases[l] = S.leases[l]
    <3>1. R.leases[l] \in Lease
      BY <1>3, OpenIsLease
    <3>2. Retained(S, l)
      BY <1>3, <2>2, <3>1, ClosedIsRetained, VerdictCloses DEF EndsWell
    <3> QED BY <1>1, <3>2 DEF SettlesAt
  <2> QED BY <1>3, <2>1, <2>2 DEF EndsWell
<1>4. Retained(R, l) => T.leases[l] = R.leases[l]
  <2>1. ASSUME Retained(R, l)
        PROVE  Retained(S, l) /\ S.leases[l] = R.leases[l]
    BY <1>1, <2>1 DEF SettlesAt, Retained, OpenLease
  <2> QED BY <1>1, <2>1 DEF SettlesAt
<1> QED BY <1>1, <1>2, <1>3, <1>4 DEF SettlesAt

\* Leases that stay, or change what does not matter here.
LEMMA QuietlySettles ==
    ASSUME NEW R, NEW S, S.events = R.events,
           \A l \in LeaseIds :
              \/ S.leases[l] = R.leases[l]
              \/ /\ OpenLease(R, l) /\ OpenLease(S, l)
                 /\ SameTurn(R.leases[l], S.leases[l])
    PROVE  Settles(R, S)
<1> SUFFICES ASSUME NEW l \in LeaseIds
             PROVE  SettlesAt(R, S, l)
  BY DEF Settles
<1>1. CASE S.leases[l] = R.leases[l]
  BY <1>1 DEF SettlesAt, Survives, SameTurn, OpenLease
<1>2. CASE /\ OpenLease(R, l) /\ OpenLease(S, l)
           /\ SameTurn(R.leases[l], S.leases[l])
  BY <1>2 DEF SettlesAt, Survives, Retained
<1> QED BY <1>1, <1>2

\* Events that fit a lease fit it when it is renewed or keeps its state.
LEMMA FitStays ==
    ASSUME NEW R, NEW S, NEW run, Fit(R, run),
           \A l \in LeaseIds : OpenLease(S, l) =>
              /\ OpenLease(R, l) /\ S.events[l] = R.events[l]
              /\ S.leases[l].session = R.leases[l].session
              /\ S.leases[l].inc = R.leases[l].inc
              /\ S.leases[l].revision = R.leases[l].revision
              /\ \/ S.leases[l].state = R.leases[l].state
                 \/ run[R.leases[l].session] = R.leases[l].inc
    PROVE  Fit(S, run)
<1> SUFFICES ASSUME NEW l \in LeaseIds, OpenLease(S, l), NEW n \in 1 .. Len(S.events[l])
             PROVE  /\ Fits(S.leases[l], S.events[l][n])
                    /\ run[S.leases[l].session] = S.leases[l].inc =>
                         S.leases[l].revision = S.events[l][n].revision
  BY DEF Fit, FitsAll
<1>1. /\ Fits(R.leases[l], R.events[l][n])
      /\ run[R.leases[l].session] = R.leases[l].inc =>
            R.leases[l].revision = R.events[l][n].revision
  BY DEF Fit, FitsAll
<1> QED BY <1>1 DEF Fits

\* Where every event fits, the first one decides.
LEMMA FirstFits ==
    ASSUME NEW R \in Registry, NEW run, Fit(R, run),
           NEW l \in LeaseIds, OpenLease(R, l)
    PROVE  /\ Fitting(R, l) = {} <=> R.events[l] = <<>>
           /\ R.events[l] # <<>> => First(Fitting(R, l)) = 1
<1>1. R.events[l] \in Seq(Event)
  BY DEF Registry
<1>2. Len(R.events[l]) \in Nat /\ (R.events[l] = <<>> <=> Len(R.events[l]) = 0)
  BY <1>1, EmptySeq, LenProperties
<1>3. Fitting(R, l) = 1 .. Len(R.events[l])
  BY DEF Fit, FitsAll, Fitting
<1>4. ASSUME R.events[l] # <<>>
      PROVE  First(Fitting(R, l)) = 1
  <2> DEFINE F == 1 .. Len(R.events[l])
  <2>1. F \in SUBSET Nat /\ 1 \in F
    BY <1>2, <1>4
  <2> HIDE DEF F
  <2>2. First(F) \in F /\ First(F) <= 1
    BY <2>1, FirstIsIn
  <2>3. First(F) = 1
    BY <1>2, <2>2 DEF F
  <2> QED BY <1>3, <2>3 DEF F
<1> QED BY <1>2, <1>3, <1>4

-----------------------------------------------------------------------------
(* Maintenance, draining and cleaning.                                     *)

\* No claim is new.
NoNewClaim(R, S) ==
    \A c \in ClaimIds : ActiveClaim(S, c) =>
        /\ ActiveClaim(R, c)
        /\ S.claims[c].session = R.claims[c].session
        /\ S.claims[c].inc = R.claims[c].inc

LEMMA AnsweredStays ==
    ASSUME NEW R, NEW S, Answered(R), NoNewClaim(R, S), S.brokers = R.brokers
    PROVE  Answered(S)
BY DEF Answered, NoNewClaim, Serves, BrokerOf

LEMMA AnsweredSame ==
    ASSUME NEW R, NEW S, Answered(R), S.claims = R.claims, S.brokers = R.brokers
    PROVE  Answered(S)
BY DEF Answered, ActiveClaim, Serves, BrokerOf

\* Events of the drained leases are drained, the first one of each.
LEMMA DrainSettles ==
    ASSUME NEW R \in Registry, Fit(R, running), NEW L
    PROVE  /\ Settles(R, Drain(R, L)) /\ Fit(Drain(R, L), running)
           /\ Drain(R, L).claims = R.claims /\ Drain(R, L).brokers = R.brokers
           /\ \A l \in LeaseIds : OpenLease(Drain(R, L), l) =>
                /\ Drain(R, L).leases[l] = R.leases[l]
                /\ Drain(R, L).events[l] = R.events[l]
                /\ l \in L => R.events[l] = <<>>
<1> DEFINE D == Drain(R, L)
           hit(l) == l \in L /\ Fitting(R, l) # {}
           closed(l) == CloseLease(R.leases[l],
                                   Verdict(R.events[l][First(Fitting(R, l))].outcome))
<1>1. D.claims = R.claims /\ D.brokers = R.brokers
  BY DEF Drain, Registry
<1>2. \A l \in LeaseIds :
        /\ hit(l) => D.leases[l] = closed(l)
        /\ ~hit(l) => D.leases[l] = R.leases[l] /\ D.events[l] = R.events[l]
  BY DEF Drain, Registry
<1> HIDE DEF D
<1>3. ASSUME NEW l \in LeaseIds, hit(l)
      PROVE  OpenLease(R, l) /\ EndsWell(R, D, l)
  <2>1. OpenLease(R, l) /\ R.leases[l] \in Lease
    BY <1>3, FittingIsQueued, OpenIsLease
  <2>2. R.events[l] # <<>> /\ First(Fitting(R, l)) = 1
    BY <1>3, <2>1, FirstFits
  <2>3. D.leases[l] = CloseLease(R.leases[l], Verdict(R.events[l][1].outcome))
    BY <1>2, <1>3, <2>2
  <2>4. ~OpenLease(D, l)
    BY <2>1, <2>3, CloseLeaseType, VerdictCloses, ClosedIsNotOpen
  <2> QED BY <2>1, <2>2, <2>3, <2>4 DEF EndsWell
<1>4. ASSUME NEW l \in LeaseIds, ~hit(l)
      PROVE  /\ OpenLease(D, l) <=> OpenLease(R, l)
             /\ OpenLease(R, l) => Survives(R, D, l)
  BY <1>2, <1>4 DEF Survives, SameTurn, OpenLease
<1>5. ASSUME NEW l \in LeaseIds, OpenLease(D, l)
      PROVE  /\ OpenLease(R, l) /\ D.leases[l] = R.leases[l] /\ D.events[l] = R.events[l]
             /\ l \in L => R.events[l] = <<>>
  <2>1. ~hit(l)
    BY <1>3, <1>5 DEF EndsWell
  <2>2. OpenLease(R, l)
    BY <1>4, <1>5, <2>1
  <2> QED BY <1>2, <2>1, <2>2, FirstFits
<1>6. Settles(R, D)
  <2> SUFFICES ASSUME NEW l \in LeaseIds
               PROVE  SettlesAt(R, D, l)
    BY DEF Settles
  <2>1. CASE hit(l)
    BY <1>3, <2>1 DEF SettlesAt, Retained
  <2>2. CASE ~hit(l)
    BY <1>2, <1>4, <2>2 DEF SettlesAt, Retained
  <2> QED BY <2>1, <2>2
<1>7. Fit(D, running)
  BY <1>5, FitStays
<1> QED BY <1>1, <1>5, <1>6, <1>7 DEF D

LEMMA RenewClaimsSettles ==
    ASSUME NEW R \in Registry, Fit(R, running), Answered(R)
    PROVE  /\ Settles(R, RenewClaims(R)) /\ Fit(RenewClaims(R), running)
           /\ Answered(RenewClaims(R))
           /\ RenewClaims(R).brokers = R.brokers
<1> DEFINE S == RenewClaims(R)
           renewed(c) == [R.claims[c] EXCEPT !.due = Ttl]
<1>1. S.brokers = R.brokers /\ S.leases = R.leases /\ S.events = R.events
  BY DEF RenewClaims, Registry
<1>2. \A c \in ClaimIds : \/ S.claims[c] = R.claims[c]
                          \/ ActiveClaim(R, c) /\ S.claims[c] = renewed(c)
  BY DEF RenewClaims, Registry
<1>3. ASSUME NEW c \in ClaimIds, ActiveClaim(R, c)
      PROVE  /\ renewed(c).session = R.claims[c].session
             /\ renewed(c).inc = R.claims[c].inc
  BY <1>3, ActiveIsClaim DEF Claim
<1> HIDE DEF S, renewed
<1>4. NoNewClaim(R, S)
  BY <1>2, <1>3 DEF NoNewClaim, ActiveClaim
<1>5. Settles(R, S) /\ Fit(S, running)
  BY <1>1, QuietlySettles, FitStays DEF OpenLease
<1> QED BY <1>1, <1>4, <1>5, AnsweredStays DEF S

\* A broker that answers for a claim is not pruned.
LEMMA PruneBrokersSettles ==
    ASSUME NEW R \in Registry, Fit(R, running), Answered(R), NEW e
    PROVE  LET S == PruneBrokers(R, e)
           IN /\ Settles(R, S) /\ Fit(S, running) /\ Answered(S)
              /\ \A s \in Sessions : S.brokers[s] \in {None, R.brokers[s]}
<1> DEFINE S == PruneBrokers(R, e)
<1>1. S.claims = R.claims /\ S.leases = R.leases /\ S.events = R.events
  BY DEF PruneBrokers, Registry
<1>2. \A s \in Sessions :
        \/ S.brokers[s] = R.brokers[s]
        \/ S.brokers[s] = None /\ \A c \in ClaimIds : ~Owns(R, c, s, R.brokers[s].inc)
  BY DEF PruneBrokers, Registry
<1> HIDE DEF S
<1>3. Answered(S)
  <2> SUFFICES ASSUME NEW c \in ClaimIds, ActiveClaim(S, c)
               PROVE  Serves(S, S.claims[c].session, S.claims[c].inc)
    BY DEF Answered
  <2> DEFINE s == R.claims[c].session
  <2>1. ActiveClaim(R, c) /\ s \in Sessions
    BY <1>1, ActiveIsClaim DEF ActiveClaim, Claim
  <2>2. Serves(R, s, R.claims[c].inc)
    BY <2>1 DEF Answered
  <2>3. Owns(R, c, s, R.brokers[s].inc)
    BY <2>1, <2>2 DEF Owns, Serves, BrokerOf
  <2>4. S.brokers[s] = R.brokers[s]
    BY <1>2, <2>1, <2>3
  <2> QED BY <1>1, <2>2, <2>4 DEF Serves, BrokerOf
<1>4. Settles(R, S) /\ Fit(S, running)
  BY <1>1, QuietlySettles, FitStays DEF OpenLease
<1> QED BY <1>2, <1>3, <1>4 DEF S

\* A renewed lease is active again: its launch runs, so its events are of the
\* exact revision.
LEMMA RenewLeasesSettles ==
    ASSUME NEW R \in Registry, Fit(R, running), Answered(R), NEW e
    PROVE  LET S == RenewLeases(R, e)
           IN /\ Settles(R, S) /\ Fit(S, running) /\ Answered(S)
              /\ S.brokers = R.brokers
<1> DEFINE S == RenewLeases(R, e)
           renewed(l) == [R.leases[l] EXCEPT !.state = "active", !.due = Ttl, !.gap = 0]
<1>1. S.brokers = R.brokers /\ S.claims = R.claims /\ S.events = R.events
  BY DEF RenewLeases, Registry
<1>2. \A l \in LeaseIds :
        \/ S.leases[l] = R.leases[l]
        \/ /\ OpenLease(R, l) /\ RuntimeRunning(R.leases[l], e)
           /\ S.leases[l] = renewed(l)
  BY DEF RenewLeases, Registry
<1>3. ASSUME NEW l \in LeaseIds, OpenLease(R, l)
      PROVE  /\ SameTurn(R.leases[l], renewed(l)) /\ renewed(l) # None
             /\ renewed(l).revision = R.leases[l].revision
             /\ renewed(l).state \in Open
  <2>1. R.leases[l] \in Lease
    BY <1>3, OpenIsLease
  <2>2. renewed(l) \in Lease
    BY <2>1, BoundAssumption DEF Lease, Open
  <2> QED BY <2>1, <2>2, NoneAssumption DEF Lease, SameTurn
<1> HIDE DEF S, renewed
<1>4. NoNewClaim(R, S)
  BY <1>1 DEF NoNewClaim, ActiveClaim
<1>5. Settles(R, S)
  <2>1. \A l \in LeaseIds :
            \/ S.leases[l] = R.leases[l]
            \/ /\ OpenLease(R, l) /\ OpenLease(S, l)
               /\ SameTurn(R.leases[l], S.leases[l])
    BY <1>2, <1>3 DEF OpenLease
  <2> QED BY <1>1, <2>1, QuietlySettles
<1>6. Fit(S, running)
  <2>1. \A l \in LeaseIds : OpenLease(S, l) =>
            /\ OpenLease(R, l)
            /\ S.leases[l].session = R.leases[l].session
            /\ S.leases[l].inc = R.leases[l].inc
            /\ S.leases[l].revision = R.leases[l].revision
            /\ \/ S.leases[l].state = R.leases[l].state
               \/ running[R.leases[l].session] = R.leases[l].inc
    BY <1>2, <1>3 DEF OpenLease, SameTurn, RuntimeRunning
  <2> QED BY <1>1, <2>1, FitStays
<1> QED BY <1>1, <1>4, <1>5, <1>6, AnsweredStays DEF S


\* Reclaim: afterwards no expired lease of a recorded launch has an event.
LEMMA ReclaimSettles ==
    ASSUME NEW R \in Registry, Fit(R, running), Answered(R), NEW e
    PROVE  LET S == Reclaim(R, e)
           IN /\ Settles(R, S) /\ Fit(S, running) /\ Answered(S)
              /\ S.brokers = R.brokers
              /\ \A l \in LeaseIds :
                    /\ OpenLease(S, l) /\ S.leases[l].due = 0
                    /\ record[S.leases[l].session] = S.leases[l].inc
                    => S.events[l] = <<>>
<1> DEFINE expired == {l \in LeaseIds :
                        /\ OpenLease(R, l)
                        /\ R.leases[l].due = 0
                        /\ record[R.leases[l].session] = R.leases[l].inc}
           D == Drain(R, expired)
           S == Reclaim(R, e)
           closed(l) == CloseLease(R.leases[l], "abandoned")
           abandons(l) == /\ l \in expired
                          /\ Fitting(R, l) = {}
                          /\ RuntimeRunning(R.leases[l], e)
                          /\ Quiescent(l, R.leases[l], e)
           leases == [l \in LeaseIds |-> IF abandons(l) THEN closed(l) ELSE D.leases[l]]
<1>1. S = [D EXCEPT !.leases = leases]
  BY DEF Reclaim
<1>2. D \in Registry
  BY DrainKeeps
<1>3. /\ Settles(R, D) /\ Fit(D, running) /\ D.claims = R.claims /\ D.brokers = R.brokers
      /\ \A l \in LeaseIds : OpenLease(D, l) =>
            /\ D.leases[l] = R.leases[l] /\ D.events[l] = R.events[l]
            /\ l \in expired => R.events[l] = <<>>
  BY DrainSettles
<1>4. \A l \in LeaseIds : abandons(l) => D.leases[l] = R.leases[l] /\ D.events[l] = R.events[l]
  BY DEF Drain, Registry
<1>5. /\ S.claims = R.claims /\ S.brokers = R.brokers /\ S.events = D.events
      /\ \A l \in LeaseIds : S.leases[l] = IF abandons(l) THEN closed(l) ELSE D.leases[l]
  <2>1. S.leases = leases /\ S.claims = D.claims /\ S.brokers = D.brokers
        /\ S.events = D.events
    <3> HIDE DEF D, S, leases
    <3> QED BY <1>1, <1>2 DEF Registry
  <2> QED BY <1>3, <2>1
<1>6. ASSUME NEW l \in LeaseIds, abandons(l)
      PROVE  /\ OpenLease(R, l) /\ ~OpenLease(S, l)
             /\ R.events[l] = <<>> /\ Supersedes(R.leases[l])
  <2>1. OpenLease(R, l) /\ R.leases[l] \in Lease
    BY <1>6, OpenIsLease
  <2>2. R.events[l] = <<>>
    BY <1>6, <2>1, FirstFits
  <2>3. closed(l) \in ClosedLease
    BY <2>1, CloseLeaseType DEF Closed
  <2>4. ~OpenLease(S, l)
    BY <1>5, <1>6, <2>3, ClosedIsNotOpen
  <2> QED BY <1>6, <2>1, <2>2, <2>4 DEF Quiescent
<1> HIDE DEF D, S, closed, leases
<1>7. Settles(R, S)
  <2> SUFFICES ASSUME NEW l \in LeaseIds
               PROVE  SettlesAt(R, S, l)
    BY DEF Settles
  <2>1. CASE abandons(l)
    <3>1. EndsWell(R, S, l)
      BY <1>6, <2>1 DEF EndsWell, Pending, Excused
    <3> QED BY <1>6, <2>1, <3>1 DEF SettlesAt, Retained
  <2>2. CASE ~abandons(l)
    <3>1. SettlesAt(R, D, l)
      BY <1>3 DEF Settles
    <3>2. S.leases[l] = D.leases[l] /\ S.events[l] = D.events[l]
      BY <1>5, <2>2
    <3> QED BY <3>1, <3>2 DEF SettlesAt, Survives, EndsWell, OpenLease
  <2> QED BY <2>1, <2>2
<1>8. ASSUME NEW l \in LeaseIds, OpenLease(S, l)
      PROVE  /\ OpenLease(D, l) /\ S.leases[l] = D.leases[l] /\ S.events[l] = D.events[l]
  <2>1. S.leases[l] = D.leases[l] /\ S.events[l] = D.events[l]
    BY <1>5, <1>6, <1>8
  <2> QED BY <1>8, <2>1 DEF OpenLease
<1>9. Fit(S, running)
  BY <1>3, <1>8, FitStays
<1>10. ASSUME NEW l \in LeaseIds, OpenLease(S, l), S.leases[l].due = 0,
              record[S.leases[l].session] = S.leases[l].inc
       PROVE  S.events[l] = <<>>
  <2>1. /\ S.leases[l] = R.leases[l] /\ S.events[l] = R.events[l]
        /\ l \in expired => R.events[l] = <<>>
    BY <1>3, <1>8, <1>10
  <2>2. l \in expired
    BY <1>10, <2>1 DEF OpenLease
  <2> QED BY <2>1, <2>2
<1>11. Answered(S)
  BY <1>5, AnsweredSame
<1> QED BY <1>5, <1>7, <1>9, <1>10, <1>11 DEF S

\* What a section under the full lock starts from.
LEMMA MaintainSettles ==
    ASSUME NEW R \in Registry, Fit(R, running), Answered(R), NEW e
    PROVE  LET S == Maintain(R, e)
           IN /\ Settles(R, S) /\ Fit(S, running) /\ Answered(S)
              /\ \A s \in Sessions : S.brokers[s] \in {None, R.brokers[s]}
              /\ \A l \in LeaseIds :
                    /\ OpenLease(S, l) /\ S.leases[l].due = 0
                    /\ record[S.leases[l].session] = S.leases[l].inc
                    => S.events[l] = <<>>
<1> DEFINE A == RenewClaims(R)
           B == PruneBrokers(A, e)
           C == RenewLeases(B, e)
           S == Reclaim(C, e)
<1>1. /\ A \in Registry /\ Settles(R, A) /\ Fit(A, running) /\ Answered(A)
      /\ A.brokers = R.brokers
  BY RenewClaimsKeeps, RenewClaimsSettles
<1> HIDE DEF A
<1>2. /\ B \in Registry /\ Settles(A, B) /\ Fit(B, running) /\ Answered(B)
      /\ \A s \in Sessions : B.brokers[s] \in {None, A.brokers[s]}
  BY <1>1, PruneBrokersKeeps, PruneBrokersSettles
<1> HIDE DEF B
<1>3. /\ C \in Registry /\ Settles(B, C) /\ Fit(C, running) /\ Answered(C)
      /\ C.brokers = B.brokers
  BY <1>2, RenewLeasesKeeps, RenewLeasesSettles
<1> HIDE DEF C
<1>4. /\ Settles(C, S) /\ Fit(S, running) /\ Answered(S) /\ S.brokers = C.brokers
      /\ \A l \in LeaseIds :
            /\ OpenLease(S, l) /\ S.leases[l].due = 0
            /\ record[S.leases[l].session] = S.leases[l].inc
            => S.events[l] = <<>>
  BY <1>3, ReclaimSettles
<1> HIDE DEF S
<1>5. Settles(R, S)
  <2>1. Settles(R, B)
    BY <1>1, <1>2, SettlesTransitive
  <2>2. Settles(R, C)
    BY <1>3, <2>1, SettlesTransitive
  <2> QED BY <1>4, <2>2, SettlesTransitive
<1>6. \A s \in Sessions : S.brokers[s] \in {None, R.brokers[s]}
  BY <1>1, <1>2, <1>3, <1>4
<1>7. S = Maintain(R, e)
  BY DEF A, B, C, S, Maintain
<1> QED BY <1>4, <1>5, <1>6, <1>7

\* A queue loses its expired events only, and those are its oldest.
LEMMA UnexpiredEvents ==
    ASSUME NEW queue \in Seq(Event)
    PROVE  /\ \A n \in 1 .. Len(Unexpired(queue)) :
                \E m \in 1 .. Len(queue) : Unexpired(queue)[n] = queue[m]
           /\ Pending(queue) => Unexpired(queue) = queue
           /\ queue = <<>> => Unexpired(queue) = <<>>
<1> DEFINE young == {n \in 1 .. Len(queue) : queue[n].due > 0}
           k == First(young)
<1>1. Len(queue) \in Nat /\ \A i \in 1 .. Len(queue) : queue[i] \in Event
  BY ElementOfSeq
<1>2. CASE young = {}
  <2>1. Unexpired(queue) = <<>>
    BY <1>2 DEF Unexpired
  <2>2. ~Pending(queue)
    <3>1. queue # <<>> => 1 \in 1 .. Len(queue)
      BY <1>1, EmptySeq
    <3> QED BY <1>2, <3>1 DEF Pending
  <2> QED BY <2>1, <2>2
<1>3. CASE young # {}
  <2>1. young \subseteq 1 .. Len(queue) /\ young \in SUBSET Nat
    BY <1>1
  <2>2. k \in young /\ \A m \in young : k <= m
    <3> HIDE DEF young
    <3> QED BY <1>3, <2>1, FirstIsIn
  <2>3. k \in 1 .. Len(queue)
    BY <2>1, <2>2
  <2>4. Unexpired(queue) = SubSeq(queue, k, Len(queue))
    BY <1>3 DEF Unexpired
  <2>5. Pending(queue) => k = 1
    <3>1. ASSUME Pending(queue) PROVE 1 \in young
      <4>1. 1 \in 1 .. Len(queue)
        BY <1>1, <3>1, EmptySeq DEF Pending
      <4> QED BY <3>1, <4>1 DEF Pending
    <3> QED BY <2>2, <2>3, <3>1
  <2> HIDE DEF young, k
  <2>6. /\ Len(Unexpired(queue)) = Len(queue) - k + 1
        /\ \A n \in 1 .. Len(queue) - k + 1 : Unexpired(queue)[n] = queue[k + n - 1]
    BY <1>1, <2>3, <2>4, SubSeqProperties
  <2>7. \A n \in 1 .. Len(queue) - k + 1 : k + n - 1 \in 1 .. Len(queue)
    BY <1>1, <2>3
  <2>8. Pending(queue) => Unexpired(queue) = queue
    <3>1. SubSeq(queue, 1, Len(queue)) = queue
      BY <1>1
    <3> QED BY <2>4, <2>5, <3>1
  <2>9. queue # <<>>
    BY <1>1, <2>3
  <2> QED BY <2>6, <2>7, <2>8, <2>9
<1> QED BY <1>2, <1>3


\* clean_expired moves the revision of an expired lease: with events queued
\* only when its launch does not run, and they still fit.
LEMMA CleanSettles ==
    ASSUME NEW R \in Registry, Fit(R, running), Answered(R), NEW e,
           \A l \in LeaseIds :
                /\ OpenLease(R, l) /\ R.leases[l].due = 0
                /\ running[R.leases[l].session] = R.leases[l].inc
                => R.events[l] = <<>>
    PROVE  LET S == Clean(R, e)
           IN /\ Settles(R, S) /\ Fit(S, running) /\ Answered(S)
              /\ S.brokers = R.brokers
<1> DEFINE S == Clean(R, e)
           fenced(l) == [R.leases[l] EXCEPT !.state = "completing", !.revision = @ + 1]
           late(l) == R.leases[l] # None /\ R.leases[l].state = "active" /\ R.leases[l].due = 0
<1>1. /\ S.brokers = R.brokers
      /\ \A l \in LeaseIds :
            /\ late(l) => S.leases[l] = fenced(l)
            /\ ~late(l) =>
                \/ S.leases[l] = R.leases[l]
                \/ /\ S.leases[l] = None
                   /\ R.leases[l] # None /\ R.leases[l].state \in Closed /\ R.leases[l].due = 0
            /\ OpenLease(S, l) => S.events[l] = Unexpired(R.events[l])
      /\ \A c \in ClaimIds : ActiveClaim(S, c) => S.claims[c] = R.claims[c]
  <2>1. S.brokers = R.brokers
    BY DEF Clean
  <2>2. \A l \in LeaseIds : late(l) => S.leases[l] = fenced(l)
    BY DEF Clean
  <2>3. \A l \in LeaseIds : ~late(l) =>
            \/ S.leases[l] = R.leases[l]
            \/ /\ S.leases[l] = None
               /\ R.leases[l] # None /\ R.leases[l].state \in Closed /\ R.leases[l].due = 0
    BY DEF Clean
  <2>4. \A l \in LeaseIds :
            S.events[l] = IF S.leases[l] # None /\ S.leases[l].state \in Open
                          THEN Unexpired(R.events[l]) ELSE <<>>
    BY DEF Clean
  <2>5. \A c \in ClaimIds : S.claims[c] \in {None, CloseClaim("expired"), R.claims[c]}
    BY DEF Clean
  <2>6. CloseClaim("expired").state # "active"
    BY DEF CloseClaim
  <2> HIDE DEF S, fenced, late
  <2>7. \A c \in ClaimIds : ActiveClaim(S, c) => S.claims[c] = R.claims[c]
    BY <2>5, <2>6 DEF ActiveClaim
  <2> QED BY <2>1, <2>2, <2>3, <2>4, <2>7 DEF OpenLease
<1> HIDE DEF S
<1>2. ASSUME NEW l \in LeaseIds, late(l)
      PROVE  /\ OpenLease(R, l) /\ OpenLease(S, l)
             /\ SameTurn(R.leases[l], S.leases[l])
             /\ S.leases[l].state = "completing"
             /\ R.leases[l].revision \in Nat
             /\ S.leases[l].revision = R.leases[l].revision + 1
  <2>1. OpenLease(R, l)
    BY <1>2 DEF OpenLease, Open
  <2>2. R.leases[l] \in Lease
    BY <2>1, OpenIsLease
  <2>3. R.leases[l].revision + 1 \in Nat
    BY <2>2 DEF Lease
  <2>4. fenced(l) \in Lease
    BY <2>2, <2>3 DEF Lease, Open
  <2>5. /\ SameTurn(R.leases[l], fenced(l)) /\ fenced(l).state = "completing"
        /\ R.leases[l].revision \in Nat
        /\ fenced(l).revision = R.leases[l].revision + 1
    BY <2>2 DEF Lease, SameTurn
  <2>6. S.leases[l] = fenced(l)
    BY <1>1, <1>2
  <2> HIDE DEF fenced
  <2> QED BY <2>1, <2>4, <2>5, <2>6, NoneAssumption DEF OpenLease, Open
<1>3. ASSUME NEW l \in LeaseIds, OpenLease(S, l), ~late(l)
      PROVE  OpenLease(R, l) /\ S.leases[l] = R.leases[l]
  BY <1>1, <1>3 DEF OpenLease
<1>4. ASSUME NEW l \in LeaseIds, OpenLease(R, l)
      PROVE  OpenLease(S, l)
  <2>1. R.leases[l].state \notin Closed
    BY <1>4 DEF OpenLease, Open, Closed
  <2> QED BY <1>1, <1>2, <1>4, <2>1 DEF OpenLease
<1>5. ASSUME NEW l \in LeaseIds, OpenLease(R, l)
      PROVE  Survives(R, S, l)
  <2>1. OpenLease(S, l) /\ SameTurn(R.leases[l], S.leases[l])
    BY <1>2, <1>3, <1>4, <1>5 DEF SameTurn
  <2>2. R.events[l] \in Seq(Event)
    BY DEF Registry
  <2>3. S.events[l] = Unexpired(R.events[l])
    BY <1>1, <2>1
  <2> QED BY <2>1, <2>2, <2>3, UnexpiredEvents DEF Survives
<1>6. Settles(R, S)
  <2> SUFFICES ASSUME NEW l \in LeaseIds
               PROVE  SettlesAt(R, S, l)
    BY DEF Settles
  <2>1. ~OpenLease(R, l) => ~OpenLease(S, l)
    BY <1>2, <1>3
  <2>2. ASSUME Retained(R, l)
        PROVE  S.leases[l] = R.leases[l]
    <3>1. ~late(l)
      BY <1>2, <2>2 DEF Retained
    <3>2. R.leases[l].due # 0
      BY <2>2 DEF Retained
    <3>3. \/ S.leases[l] = R.leases[l]
          \/ R.leases[l].due = 0
      BY <1>1, <3>1
    <3> QED BY <3>2, <3>3
  <2> QED BY <1>5, <2>1, <2>2 DEF SettlesAt
<1>7. Fit(S, running)
  <2> SUFFICES ASSUME NEW l \in LeaseIds, OpenLease(S, l), NEW n \in 1 .. Len(S.events[l])
               PROVE  /\ Fits(S.leases[l], S.events[l][n])
                      /\ running[S.leases[l].session] = S.leases[l].inc =>
                            S.leases[l].revision = S.events[l][n].revision
    BY DEF Fit, FitsAll
  <2>1. S.events[l] = Unexpired(R.events[l]) /\ R.events[l] \in Seq(Event)
    BY <1>1 DEF Registry
  <2>2. PICK m \in 1 .. Len(R.events[l]) : S.events[l][n] = R.events[l][m]
    BY <2>1, UnexpiredEvents
  <2>3. OpenLease(R, l)
    BY <1>2, <1>3
  <2>4. /\ Fits(R.leases[l], R.events[l][m])
        /\ running[R.leases[l].session] = R.leases[l].inc =>
                R.leases[l].revision = R.events[l][m].revision
    BY <2>3 DEF Fit, FitsAll
  <2>5. CASE ~late(l)
    BY <1>3, <2>2, <2>4, <2>5
  <2>6. CASE late(l)
    <3>1. R.leases[l].revision = R.events[l][m].revision
      BY <2>4, <2>6 DEF Fits
    <3>2. Fits(S.leases[l], S.events[l][n])
      BY <1>2, <2>2, <2>6, <3>1 DEF Fits
    <3>3. R.events[l] # <<>>
      BY <2>1, <2>2, EmptySeq
    <3>4. running[R.leases[l].session] # R.leases[l].inc
      BY <2>3, <2>6, <3>3
    <3> QED BY <1>2, <2>6, <3>2, <3>4 DEF SameTurn
  <2> QED BY <2>5, <2>6
<1>8. Answered(S)
  <2>1. NoNewClaim(R, S)
    BY <1>1 DEF NoNewClaim, ActiveClaim
  <2> QED BY <1>1, <2>1, AnsweredStays
<1> QED BY <1>1, <1>6, <1>7, <1>8 DEF S

\* The registries the sections start from.
LEMMA SectionSettles ==
    ASSUME registry \in Registry, EnvOK, RuntimeOfRecord, Fit(registry, running),
           Answered(registry), NEW e
    PROVE  LET M == Maintain(registry, e)
               C == Clean(M, e)
           IN /\ Settles(registry, M) /\ Fit(M, running) /\ Answered(M)
              /\ Settles(registry, C) /\ Fit(C, running) /\ Answered(C)
              /\ \A s \in Sessions : M.brokers[s] \in {None, registry.brokers[s]}
              /\ C.brokers = M.brokers
<1> DEFINE M == Maintain(registry, e)
           C == Clean(M, e)
<1>1. M \in Registry
  BY MaintainKeeps
<1>2. /\ Settles(registry, M) /\ Fit(M, running) /\ Answered(M)
      /\ \A s \in Sessions : M.brokers[s] \in {None, registry.brokers[s]}
      /\ \A l \in LeaseIds :
            /\ OpenLease(M, l) /\ M.leases[l].due = 0
            /\ record[M.leases[l].session] = M.leases[l].inc
            => M.events[l] = <<>>
  BY MaintainSettles
<1> HIDE DEF M
<1>3. ASSUME NEW l \in LeaseIds, OpenLease(M, l), M.leases[l].due = 0,
             running[M.leases[l].session] = M.leases[l].inc
      PROVE  M.events[l] = <<>>
  <2>1. M.leases[l].session \in Sessions /\ M.leases[l].inc \in Incarnations
    BY <1>1, <1>3, OpenIsLease DEF Lease
  <2>2. record[M.leases[l].session] = M.leases[l].inc
    BY <1>3, <2>1, NoneAssumption DEF RuntimeOfRecord
  <2> QED BY <1>2, <1>3, <2>2
<1>4. Settles(M, C) /\ Fit(C, running) /\ Answered(C) /\ C.brokers = M.brokers
  BY <1>1, <1>2, <1>3, CleanSettles
<1> HIDE DEF C
<1>5. Settles(registry, C)
  BY <1>2, <1>4, SettlesTransitive
<1> QED BY <1>2, <1>4, <1>5 DEF M, C


-----------------------------------------------------------------------------
(* The steps.  R is the registry a section starts from.                    *)

\* Every lease that ends while its broker is left alone ends well.
Faithful == \A l \in LeaseIds : Ends(l) => EndsWell(registry, registry', l)

\* A step that ends nothing more than the section it starts from, except what
\* it takes together with the broker.
LEMMA FaithfulSection ==
    ASSUME NEW R, Settles(registry, R),
           \A l \in LeaseIds :
              \/ registry'.leases[l] = R.leases[l]
              \/ OpenLease(registry', l)
              \/ /\ OpenLease(R, l)
                 /\ OpenLease(registry, l) =>
                        registry'.brokers[registry.leases[l].session]
                            # registry.brokers[registry.leases[l].session]
    PROVE  Faithful
<1> SUFFICES ASSUME NEW l \in LeaseIds, Ends(l)
             PROVE  EndsWell(registry, registry', l)
  BY DEF Faithful
<1>1. OpenLease(registry, l) /\ ~OpenLease(registry', l)
  BY DEF Ends
<1>2. ~OpenLease(R, l)
  BY <1>1 DEF Ends, OpenLease
<1>3. EndsWell(registry, R, l)
  BY <1>1, <1>2 DEF Settles, SettlesAt, Survives
<1>4. registry'.leases[l] = R.leases[l]
  BY <1>1, <1>2
<1> QED BY <1>1, <1>3, <1>4 DEF EndsWell

LEMMA FaithfulSettles ==
    ASSUME Settles(registry, registry')
    PROVE  Faithful
BY DEF Faithful, Settles, SettlesAt, Survives, Ends

\* A new claim belongs to a healthy broker.
LEMMA NewClaimAnswered ==
    ASSUME NEW R \in Registry, Answered(R), NEW c \in ClaimIds, NEW s \in Sessions,
           NEW i, NEW context, Healthy(R, s, i)
    PROVE  LET S == NewClaim(R, c, s, i, context)
           IN /\ Answered(S) /\ S.leases = R.leases /\ S.events = R.events
<1> DEFINE Q == ReleaseOwned(R, s, i)
           S == NewClaim(R, c, s, i, context)
           new == [session |-> s, inc |-> i, context |-> context, state |-> "active",
                   revision |-> 1, due |-> Ttl]
<1>1. /\ Q \in Registry /\ Q.brokers = R.brokers /\ Q.leases = R.leases /\ Q.events = R.events
      /\ \A k \in ClaimIds : Q.claims[k] =
            IF Owns(R, k, s, i) THEN CloseClaim("released") ELSE R.claims[k]
  BY ReleaseOwnedType
<1>2. S = [Q EXCEPT !.claims[c] = new]
  BY DEF NewClaim
<1> HIDE DEF Q
<1>3. /\ S.brokers = R.brokers /\ S.leases = R.leases /\ S.events = R.events
      /\ S.claims[c] = new
      /\ \A k \in ClaimIds : k # c => S.claims[k] = Q.claims[k]
  BY <1>1, <1>2 DEF Registry
<1>4. new.session = s /\ new.inc = i
  OBVIOUS
<1> HIDE DEF S, new
<1>5. Answered(S)
  <2> SUFFICES ASSUME NEW k \in ClaimIds, ActiveClaim(S, k)
               PROVE  Serves(S, S.claims[k].session, S.claims[k].inc)
    BY DEF Answered
  <2>1. CASE k = c
    BY <1>3, <1>4, <2>1 DEF Healthy, Serves, BrokerOf
  <2>2. CASE k # c
    <3>1. S.claims[k] = R.claims[k] /\ ActiveClaim(R, k)
      BY <1>1, <1>3, <2>2 DEF ActiveClaim, CloseClaim
    <3> QED BY <1>3, <3>1 DEF Answered, Serves, BrokerOf
  <2> QED BY <2>1, <2>2
<1> QED BY <1>3, <1>5 DEF S

LEMMA ReleaseOwnedAnswered ==
    ASSUME NEW R \in Registry, Answered(R), NEW s, NEW i
    PROVE  Answered(ReleaseOwned(R, s, i)) /\ NoNewClaim(R, ReleaseOwned(R, s, i))
<1>1. NoNewClaim(R, ReleaseOwned(R, s, i))
  BY ReleaseOwnedType DEF NoNewClaim, ActiveClaim, CloseClaim
<1> QED BY <1>1, ReleaseOwnedType, AnsweredStays

LEMMA ClaimsSettle ==
    ASSUME EnvOK, NEW R \in Registry, Answered(R), NEW s \in Sessions, Claims(R, s)
    PROVE  /\ Answered(registry') /\ UNCHANGED env
           /\ registry'.leases = R.leases /\ registry'.events = R.events
<1> DEFINE i == record[s]
           Done == /\ Answered(registry') /\ UNCHANGED env
                   /\ registry'.leases = R.leases /\ registry'.events = R.events
<1>1. ASSUME NEW input \in Inputs, ClaimWork(R, s, input)
      PROVE  Done
  <2>1. PICK c \in ClaimIds :
            /\ Healthy(R, s, i)
            /\ registry' = NewClaim(R, c, s, i, WithCheckout(s, input))
            /\ UNCHANGED env
    BY <1>1 DEF ClaimWork
  <2> QED BY <2>1, NewClaimAnswered
<1>2. ASSUME NEW input \in Inputs, NEW rejectConflict \in BOOLEAN, NEW ifAbsent \in BOOLEAN,
             SetDeclared(R, s, input, rejectConflict, ifAbsent)
      PROVE  Done
  <2>1. PICK c \in ClaimIds :
            /\ Healthy(R, s, i)
            /\ registry' = NewClaim(R, c, s, i, WithCheckout(s, input))
            /\ UNCHANGED env
    BY <1>2 DEF SetDeclared
  <2> QED BY <2>1, NewClaimAnswered
<1>3. CASE ClearDeclared(R, s)
  <2>1. registry' = ReleaseOwned(R, s, i) /\ UNCHANGED env
    BY <1>3 DEF ClearDeclared
  <2> QED BY <2>1, ReleaseOwnedType, ReleaseOwnedAnswered
<1>4. ASSUME NEW c \in ClaimIds, NEW x, ActiveClaim(R, c),
             \/ /\ x.session = R.claims[c].session
                /\ x.inc = R.claims[c].inc
             \/ x.state # "active",
             registry' = [R EXCEPT !.claims[c] = x], UNCHANGED env
      PROVE  Done
  <2>1. /\ registry'.brokers = R.brokers /\ registry'.leases = R.leases
        /\ registry'.events = R.events
        /\ registry'.claims[c] = x
        /\ \A k \in ClaimIds : k # c => registry'.claims[k] = R.claims[k]
    BY <1>4 DEF Registry
  <2>2. NoNewClaim(R, registry')
    BY <1>4, <2>1 DEF NoNewClaim, ActiveClaim
  <2> QED BY <1>4, <2>1, <2>2, AnsweredStays
<1>5. ASSUME NEW revision \in 1 .. MaxRevision, RenewClaim(R, s, revision)
      PROVE  Done
  <2>1. PICK c \in ClaimIds :
            /\ Owns(R, c, s, i)
            /\ registry' = [R EXCEPT !.claims[c].revision = revision + 1,
                                     !.claims[c].due = Ttl]
            /\ UNCHANGED env
    BY <1>5 DEF RenewClaim
  <2>2. R.claims[c] \in Claim /\ ActiveClaim(R, c)
    BY <2>1, ActiveIsClaim DEF Owns
  <2> DEFINE new == [R.claims[c] EXCEPT !.revision = revision + 1, !.due = Ttl]
  <2>3. new.session = R.claims[c].session /\ new.inc = R.claims[c].inc
    BY <2>2 DEF Claim
  <2>4. registry' = [R EXCEPT !.claims[c] = new]
    BY <2>1, <2>2 DEF Registry, Claim
  <2> HIDE DEF new, Done
  <2> QED BY <1>4, <2>1, <2>2, <2>3, <2>4
<1>6. ASSUME NEW revision \in 1 .. MaxRevision, ReleaseClaim(R, s, revision)
      PROVE  Done
  <2>1. PICK c \in ClaimIds :
            /\ Owns(R, c, s, i)
            /\ registry' = [R EXCEPT !.claims[c] = CloseClaim("released")]
            /\ UNCHANGED env
    BY <1>6 DEF ReleaseClaim
  <2>2. ActiveClaim(R, c) /\ CloseClaim("released").state # "active"
    BY <2>1 DEF Owns, CloseClaim
  <2> HIDE DEF Done
  <2> QED BY <1>4, <2>1, <2>2
<1> QED BY <1>1, <1>2, <1>3, <1>5, <1>6 DEF Claims

\* An admitted lease has no event yet.
LEMMA AdmitSettles ==
    ASSUME EnvOK, NEW R \in Registry, Answered(R), Fit(R, running),
           NEW s \in Sessions, Operations(R, s)
    PROVE  /\ Answered(registry') /\ Fit(registry', running) /\ UNCHANGED env
           /\ \A l \in LeaseIds : registry'.leases[l] = R.leases[l] \/ OpenLease(registry', l)
<1>1. PICK l \in LeaseIds, x \in Lease :
        /\ registry' = [R EXCEPT !.leases[l] = x]
        /\ x.state \in Open /\ x # None
        /\ R.events[l] = <<>>
        /\ UNCHANGED env
  <2>1. PICK targets \in TargetSets, providerTargets \in ProviderTargetSets,
             descendant \in Descendants : Admit(R, s, targets, providerTargets, descendant)
    BY DEF Operations
  <2> DEFINE new(c) == [session |-> s, inc |-> record[s], claim |-> c, targets |-> targets,
                        provider_targets |-> providerTargets, state |-> "active",
                        revision |-> 1, due |-> Ttl, gap |-> 0, over |-> FALSE,
                        descendant |-> descendant]
  <2>2. PICK c \in ClaimIds, l \in LeaseIds :
            /\ R.leases[l] = None /\ R.events[l] = <<>>
            /\ registry' = [R EXCEPT !.leases[l] = new(c)]
            /\ Principal(s, record[s])
            /\ UNCHANGED env
    BY <2>1 DEF Admit, FreshLease
  <2>3. new(c).state \in Open
    BY DEF Open
  <2>4. new(c) \in Lease /\ new(c) # None
    <3>1. record[s] \in Incarnations
      BY <2>2, PrincipalType DEF Principal
    <3>2. /\ targets \in SUBSET Scope /\ providerTargets \in SUBSET ProviderRefs
          /\ descendant \in {"none", "live", "exited"}
      BY InputAssumption
    <3>3. new(c) \in Lease
      BY <3>1, <3>2, BoundAssumption DEF Lease, Open
    <3> HIDE DEF new
    <3> QED BY <3>3, NoneAssumption
  <2> HIDE DEF new
  <2> QED BY <2>2, <2>3, <2>4
<1>2. /\ registry'.brokers = R.brokers /\ registry'.claims = R.claims
      /\ registry'.events = R.events
      /\ registry'.leases[l] = x
      /\ \A m \in LeaseIds : m # l => registry'.leases[m] = R.leases[m]
  BY <1>1 DEF Registry
<1>3. OpenLease(registry', l)
  BY <1>1, <1>2 DEF OpenLease
<1>4. Answered(registry')
  BY <1>2, AnsweredSame
<1>5. Fit(registry', running)
  <2> SUFFICES ASSUME NEW m \in LeaseIds, OpenLease(registry', m)
               PROVE  FitsAll(registry'.leases[m], registry'.events[m], running)
    BY DEF Fit
  <2>1. CASE m = l
    <3>1. registry'.events[m] = <<>>
      BY <1>1, <1>2, <2>1
    <3> QED BY <3>1 DEF FitsAll
  <2>2. CASE m # l
    BY <1>2, <2>2 DEF Fit, OpenLease
  <2> QED BY <2>1, <2>2
<1> QED BY <1>1, <1>2, <1>3, <1>4, <1>5


\* The event of a completion is of the lease's own revision.
LEMMA EnqueueSettles ==
    ASSUME NEW R \in Registry, Answered(R), Fit(R, running), NEW l \in LeaseIds,
           NEW outcome \in Outcomes, CompleteEnqueue(R, l, outcome)
    PROVE  /\ Answered(registry') /\ Fit(registry', running) /\ UNCHANGED env
           /\ registry'.leases = R.leases
<1> DEFINE event == [revision |-> R.leases[l].revision, outcome |-> outcome,
                     due |-> EventTtl]
           queue == Append(R.events[l], event)
<1>1. /\ OpenLease(R, l)
      /\ registry' = [R EXCEPT !.events[l] = queue]
      /\ UNCHANGED env
  BY DEF CompleteEnqueue, Registry
<1>2. event \in Event /\ event.revision = R.leases[l].revision
  BY <1>1, OpenIsLease, BoundAssumption DEF Event, Lease
<1>3. R.events[l] \in Seq(Event)
  BY DEF Registry
<1> HIDE DEF event
<1>4. /\ Len(queue) = Len(R.events[l]) + 1 /\ Len(R.events[l]) \in Nat
      /\ \A n \in 1 .. Len(R.events[l]) : queue[n] = R.events[l][n]
      /\ queue[Len(R.events[l]) + 1] = event
  BY <1>2, <1>3, AppendProperties
<1> HIDE DEF queue
<1>5. /\ registry'.brokers = R.brokers /\ registry'.claims = R.claims
      /\ registry'.leases = R.leases
      /\ registry'.events[l] = queue
      /\ \A m \in LeaseIds : m # l => registry'.events[m] = R.events[m]
  BY <1>1 DEF Registry
<1>6. Answered(registry')
  BY <1>5, AnsweredSame
<1>7. Fit(registry', running)
  <2> SUFFICES ASSUME NEW m \in LeaseIds, OpenLease(registry', m)
               PROVE  FitsAll(registry'.leases[m], registry'.events[m], running)
    BY DEF Fit
  <2>1. OpenLease(R, m) /\ FitsAll(R.leases[m], R.events[m], running)
    BY <1>5 DEF Fit, OpenLease
  <2>2. CASE m # l
    BY <1>5, <2>1, <2>2
  <2>3. CASE m = l
    <3> SUFFICES ASSUME NEW n \in 1 .. Len(queue)
                 PROVE  /\ Fits(R.leases[l], queue[n])
                        /\ running[R.leases[l].session] = R.leases[l].inc =>
                                R.leases[l].revision = queue[n].revision
      BY <1>5, <2>3 DEF FitsAll
    <3>1. n \in 1 .. Len(R.events[l]) \/ n = Len(R.events[l]) + 1
      BY <1>4
    <3> QED BY <1>2, <1>4, <2>1, <2>3, <3>1 DEF FitsAll, Fits
  <2> QED BY <2>2, <2>3
<1> QED BY <1>1, <1>5, <1>6, <1>7

\* Closing or replacing one open lease that has no event.
LEMMA OneLeaseSettles ==
    ASSUME NEW R \in Registry, Answered(R), Fit(R, running), NEW l \in LeaseIds,
           OpenLease(R, l), R.events[l] = <<>>, NEW x, NEW S,
           S = [R EXCEPT !.leases[l] = x],
           \/ x \in ClosedLease /\ Excused(R.leases[l])
           \/ x \in Lease /\ SameTurn(R.leases[l], x)
    PROVE  Answered(S) /\ Fit(S, running) /\ Settles(R, S)
<1>1. /\ S.brokers = R.brokers /\ S.claims = R.claims /\ S.events = R.events
      /\ S.leases[l] = x
      /\ \A m \in LeaseIds : m # l => S.leases[m] = R.leases[m]
  BY DEF Registry
<1>2. Answered(S)
  BY <1>1, AnsweredSame
<1>3. Fit(S, running)
  <2> SUFFICES ASSUME NEW m \in LeaseIds, OpenLease(S, m)
               PROVE  FitsAll(S.leases[m], S.events[m], running)
    BY DEF Fit
  <2>1. CASE m = l
    BY <1>1, <2>1 DEF FitsAll
  <2>2. CASE m # l
    BY <1>1, <2>2 DEF Fit, OpenLease
  <2> QED BY <2>1, <2>2
<1>4. Settles(R, S)
  <2> SUFFICES ASSUME NEW m \in LeaseIds
               PROVE  SettlesAt(R, S, m)
    BY DEF Settles
  <2>1. CASE m # l
    BY <1>1, <2>1 DEF SettlesAt, Survives, SameTurn, OpenLease
  <2>2. CASE m = l /\ x \in ClosedLease /\ Excused(R.leases[l])
    <3>1. ~OpenLease(S, l)
      BY <1>1, <2>2, ClosedIsNotOpen
    <3>2. EndsWell(R, S, l)
      BY <2>2, <3>1 DEF EndsWell, Pending
    <3> QED BY <2>2, <3>2 DEF SettlesAt, Retained
  <2>3. CASE m = l /\ x \in Lease /\ SameTurn(R.leases[l], x)
    <3>1. OpenLease(S, l)
      BY <1>1, <2>3, NoneAssumption DEF OpenLease, Lease
    <3>2. Survives(R, S, l)
      BY <1>1, <2>3, <3>1 DEF Survives, Pending
    <3> QED BY <2>3, <3>2 DEF SettlesAt, Retained
  <2> QED BY <2>1, <2>2, <2>3
<1> QED BY <1>2, <1>3, <1>4

\* reconcile has drained the lease's events before it decides by itself.
LEMMA ReconcileSettles ==
    ASSUME registry \in Registry, Answered(registry), Fit(registry, running),
           NEW l \in LeaseIds, NEW outcome \in Outcomes, Reconcile(l, outcome)
    PROVE  /\ Answered(registry') /\ Fit(registry', running) /\ UNCHANGED env
           /\ Settles(registry, registry')
<1>1. PICK e \in Evidence :
        LET R == Drain(Maintain(registry, e), LeaseIds)
            x == R.leases[l]
            stopped == running[x.session] # x.inc
        IN /\ OpenLease(R, l)
           /\ stopped \/ Quiescent(l, x, e)
           /\ \/ registry' = [R EXCEPT !.leases[l] =
                    [x EXCEPT !.state = "reconcile_pending",
                              !.revision = @ + 1, !.gap = Gap]]
              \/ registry' = [R EXCEPT !.leases[l] = CloseLease(x, Verdict(outcome))]
           /\ UNCHANGED env
  BY DEF Reconcile
<1> DEFINE M == Maintain(registry, e)
           R == Drain(M, LeaseIds)
           x == R.leases[l]
           pending == [x EXCEPT !.state = "reconcile_pending",
                                !.revision = @ + 1, !.gap = Gap]
           closed == CloseLease(x, Verdict(outcome))
<1>2. M \in Registry /\ Settles(registry, M) /\ Fit(M, running) /\ Answered(M)
  BY MaintainKeeps, MaintainSettles
<1>3. /\ OpenLease(R, l) /\ (running[x.session] # x.inc \/ Quiescent(l, x, e))
      /\ registry' = [R EXCEPT !.leases[l] = pending] \/ registry' = [R EXCEPT !.leases[l] = closed]
      /\ UNCHANGED env
  BY <1>1
<1> HIDE DEF M
<1>4. /\ R \in Registry /\ Settles(M, R) /\ Fit(R, running)
      /\ R.claims = M.claims /\ R.brokers = M.brokers
      /\ \A m \in LeaseIds : OpenLease(R, m) => R.events[m] = <<>>
  BY <1>2, DrainKeeps, DrainSettles
<1> HIDE DEF R
<1>5. Answered(R)
  BY <1>2, <1>4, AnsweredSame
<1>6. x \in Lease
  BY <1>3, <1>4, OpenIsLease
<1>7. pending \in Lease /\ SameTurn(x, pending)
  <2>1. x.revision + 1 \in Nat
    BY <1>6 DEF Lease
  <2>2. pending \in Lease
    BY <1>6, <2>1, BoundAssumption DEF Lease, Open
  <2>3. SameTurn(x, pending)
    BY <1>6 DEF Lease, SameTurn
  <2> QED BY <2>2, <2>3
<1>8. closed \in ClosedLease /\ Excused(x)
  BY <1>3, <1>6, CloseLeaseType, VerdictCloses DEF Excused, Quiescent
<1> HIDE DEF pending, closed
<1>9. Answered(registry') /\ Fit(registry', running) /\ Settles(R, registry')
  BY <1>3, <1>4, <1>5, <1>7, <1>8, OneLeaseSettles
<1>10. Settles(registry, registry')
  <2>1. Settles(registry, R)
    BY <1>2, <1>4, SettlesTransitive
  <2> QED BY <1>9, <2>1, SettlesTransitive
<1> QED BY <1>3, <1>9, <1>10

LEMMA OperatorReconcileSettles ==
    ASSUME registry \in Registry, Answered(registry), Fit(registry, running),
           NEW l \in LeaseIds, OperatorReconcile(l)
    PROVE  /\ Answered(registry') /\ Fit(registry', running) /\ UNCHANGED env
           /\ Settles(registry, registry')
<1>1. PICK e \in Evidence :
        LET M == Maintain(registry, e)
            R == Drain(M, {l})
            x == R.leases[l]
        IN /\ OpenLease(M, l)
           /\ \/ registry' = R
              \/ /\ Fitting(M, l) = {}
                 /\ \/ running[x.session] # x.inc
                    \/ Supersedes(x)
                    \/ phase[x.session] = "stopping"
                 /\ registry' = [R EXCEPT !.leases[l] = CloseLease(x, "abandoned")]
           /\ UNCHANGED env
  BY DEF OperatorReconcile
<1> DEFINE M == Maintain(registry, e)
           R == Drain(M, {l})
           x == R.leases[l]
           closed == CloseLease(x, "abandoned")
<1>2. M \in Registry /\ Settles(registry, M) /\ Fit(M, running) /\ Answered(M)
  BY MaintainKeeps, MaintainSettles
<1>3. Fitting(M, l) = {} => R.leases[l] = M.leases[l]
  <2> HIDE DEF M
  <2> QED BY <1>2 DEF Drain, Registry
<1>4. /\ OpenLease(M, l) /\ UNCHANGED env
      /\ \/ registry' = R
         \/ /\ Fitting(M, l) = {} /\ Excused(x)
            /\ registry' = [R EXCEPT !.leases[l] = closed]
  BY <1>1 DEF Excused
<1> HIDE DEF M
<1>5. /\ R \in Registry /\ Settles(M, R) /\ Fit(R, running)
      /\ R.claims = M.claims /\ R.brokers = M.brokers
      /\ \A m \in LeaseIds : OpenLease(R, m) /\ m = l => R.events[m] = <<>>
  BY <1>2, DrainKeeps, DrainSettles
<1> HIDE DEF R
<1>6. Answered(R)
  BY <1>2, <1>5, AnsweredSame
<1>7. Settles(registry, R)
  BY <1>2, <1>5, SettlesTransitive
<1>8. CASE registry' = R
  BY <1>4, <1>5, <1>6, <1>7, <1>8
<1>9. CASE /\ Fitting(M, l) = {} /\ Excused(x)
           /\ registry' = [R EXCEPT !.leases[l] = closed]
  <2>1. OpenLease(R, l)
    BY <1>3, <1>4, <1>9 DEF OpenLease
  <2>2. closed \in ClosedLease
    BY <1>5, <2>1, OpenIsLease, CloseLeaseType DEF Closed
  <2> HIDE DEF closed
  <2>3. Answered(registry') /\ Fit(registry', running) /\ Settles(R, registry')
    BY <1>5, <1>6, <1>9, <2>1, <2>2, OneLeaseSettles
  <2> QED BY <1>4, <1>7, <2>3, SettlesTransitive
<1> QED BY <1>4, <1>8, <1>9


LEMMA CompletionsSettle ==
    ASSUME registry \in Registry, EnvOK, RuntimeOfRecord, Fit(registry, running),
           Answered(registry), Completions
    PROVE  /\ Answered(registry') /\ Fit(registry', running) /\ UNCHANGED env
           /\ Faithful
<1> DEFINE Done == /\ Answered(registry') /\ Fit(registry', running) /\ UNCHANGED env
                   /\ Faithful
<1>1. ASSUME NEW R \in Swept \cup Maintained
      PROVE  R \in Registry /\ Settles(registry, R) /\ Fit(R, running) /\ Answered(R)
  <2>1. R \in Registry
    BY SweptKeeps, MaintainedKeeps
  <2>2. PICK e \in Evidence : \/ R = Maintain(registry, e)
                              \/ R = Clean(Maintain(registry, e), e)
    BY DEF Swept, Maintained
  <2> QED BY <2>1, <2>2, SectionSettles
<1>2. ASSUME NEW R \in Swept, NEW l \in LeaseIds, NEW outcome \in Outcomes,
             CompleteEnqueue(R, l, outcome)
      PROVE  Done
  BY <1>1, <1>2, EnqueueSettles, FaithfulSection
<1>3. ASSUME NEW R \in Swept \cup Maintained, DrainQueue(R)
      PROVE  Done
  <2>1. R \in Registry /\ Settles(registry, R) /\ Fit(R, running) /\ Answered(R)
    BY <1>1
  <2>2. registry' = Drain(R, LeaseIds) /\ UNCHANGED env
    BY <1>3 DEF DrainQueue
  <2>3. /\ Settles(R, registry') /\ Fit(registry', running)
        /\ registry'.claims = R.claims /\ registry'.brokers = R.brokers
    BY <2>1, <2>2, DrainSettles
  <2>4. Settles(registry, registry')
    BY <2>1, <2>3, SettlesTransitive
  <2> QED BY <2>1, <2>2, <2>3, <2>4, AnsweredSame, FaithfulSettles
<1>4. ASSUME NEW R \in Swept \cup Maintained, MaintainOnly(R)
      PROVE  Done
  BY <1>1, <1>4, FaithfulSettles DEF MaintainOnly
<1>5. ASSUME NEW l \in LeaseIds, NEW outcome \in Outcomes, Reconcile(l, outcome)
      PROVE  Done
  BY <1>5, ReconcileSettles, FaithfulSettles
<1>6. ASSUME NEW l \in LeaseIds, OperatorReconcile(l)
      PROVE  Done
  BY <1>6, OperatorReconcileSettles, FaithfulSettles
<1> HIDE DEF Done
<1>7. Done
  BY <1>2, <1>3, <1>4, <1>5, <1>6 DEF Completions
<1> QED BY <1>7 DEF Done

\* The broker of an open lease is the one of its launch, and not stopped.
LEMMA LeaseServed ==
    ASSUME NEW R \in Registry, Fenced(R), Answered(R), NEW l \in LeaseIds, OpenLease(R, l)
    PROVE  Serves(R, R.leases[l].session, R.leases[l].inc)
<1>1. Owns(R, R.leases[l].claim, R.leases[l].session, R.leases[l].inc)
  BY DEF Fenced
<1>2. R.leases[l].claim \in ClaimIds
  BY OpenLeaseClaim
<1> QED BY <1>1, <1>2 DEF Answered, Owns

\* A broker that changes answers for the claims it answered for.
LEMMA BrokerAnswered ==
    ASSUME NEW R \in Registry, Answered(R), NEW s \in Sessions, NEW b, NEW S,
           S = [R EXCEPT !.brokers[s] = b],
           \A c \in ClaimIds :
              /\ ActiveClaim(R, c) /\ R.claims[c].session = s
              /\ Serves(R, s, R.claims[c].inc)
              => b # None /\ b.inc = R.claims[c].inc /\ b.state # "stopped"
    PROVE  /\ Answered(S) /\ S.claims = R.claims
           /\ S.leases = R.leases /\ S.events = R.events
           /\ S.brokers[s] = b
<1>1. /\ S.claims = R.claims /\ S.leases = R.leases /\ S.events = R.events
      /\ S.brokers[s] = b
      /\ \A t \in Sessions : t # s => S.brokers[t] = R.brokers[t]
  BY DEF Registry
<1>2. Answered(S)
  <2> SUFFICES ASSUME NEW c \in ClaimIds, ActiveClaim(S, c)
               PROVE  Serves(S, S.claims[c].session, S.claims[c].inc)
    BY DEF Answered
  <2>1. ActiveClaim(R, c) /\ S.claims[c] = R.claims[c]
    BY <1>1 DEF ActiveClaim
  <2>2. R.claims[c].session \in Sessions
    BY <2>1, ActiveIsClaim DEF Claim
  <2>3. Serves(R, R.claims[c].session, R.claims[c].inc)
    BY <2>1 DEF Answered
  <2>4. CASE R.claims[c].session = s
    BY <1>1, <2>1, <2>3, <2>4 DEF Serves, BrokerOf
  <2>5. CASE R.claims[c].session # s
    BY <1>1, <2>1, <2>2, <2>3, <2>5 DEF Serves, BrokerOf
  <2> QED BY <2>4, <2>5
<1> QED BY <1>1, <1>2

\* What is given up had a broker of its own launch.
LEMMA GiveUpSettles ==
    ASSUME NEW R \in Registry, Answered(R), Fit(R, running), NEW s, NEW I
    PROVE  LET G == GiveUp(R, s, I)
           IN /\ Answered(G) /\ Fit(G, running) /\ G.brokers = R.brokers
              /\ \A c \in ClaimIds : ActiveClaim(G, c) =>
                    (G.claims[c].session = s => G.claims[c].inc \notin I)
              /\ \A l \in LeaseIds :
                    G.leases[l] = R.leases[l] \/ l \in LeasesOf(R, s, I)
<1> DEFINE G == GiveUp(R, s, I)
           closed(l) == CloseLease(R.leases[l], "abandoned")
<1>1. /\ G.brokers = R.brokers /\ G.events = R.events
      /\ \A c \in ClaimIds : G.claims[c] = IF \E i \in I : Owns(R, c, s, i)
                                           THEN CloseClaim("released") ELSE R.claims[c]
      /\ \A l \in LeaseIds : G.leases[l] = IF l \in LeasesOf(R, s, I) THEN closed(l)
                                           ELSE R.leases[l]
  BY DEF GiveUp, Registry
<1>2. \A l \in LeaseIds : l \in LeasesOf(R, s, I) => closed(l) \in ClosedLease
  BY OpenIsLease, CloseLeaseType DEF LeasesOf, Closed
<1> HIDE DEF G, closed
<1>3. \A c \in ClaimIds : ActiveClaim(G, c) =>
        /\ ActiveClaim(R, c) /\ G.claims[c] = R.claims[c]
        /\ \A i \in I : ~Owns(R, c, s, i)
  BY <1>1 DEF ActiveClaim, CloseClaim
<1>4. Answered(G)
  BY <1>1, <1>3, AnsweredStays DEF NoNewClaim
<1>5. \A l \in LeaseIds : OpenLease(G, l) => OpenLease(R, l) /\ G.leases[l] = R.leases[l]
  BY <1>1, <1>2, ClosedIsNotOpen DEF OpenLease
<1>6. Fit(G, running)
  BY <1>1, <1>5, FitStays
<1> QED BY <1>1, <1>3, <1>4, <1>6 DEF G, Owns


LEMMA SettlesSame ==
    ASSUME NEW R, NEW S, Settles(R, S), NEW l \in LeaseIds, OpenLease(R, l), OpenLease(S, l)
    PROVE  SameTurn(R.leases[l], S.leases[l])
BY DEF Settles, SettlesAt, Survives, EndsWell

\* The registry with another broker for s.
LEMMA BrokerSettles ==
    ASSUME NEW R \in Registry, Answered(R), Fit(R, running), Settles(registry, R),
           NEW s \in Sessions, NEW b,
           registry' = [R EXCEPT !.brokers[s] = b],
           \A c \in ClaimIds :
              /\ ActiveClaim(R, c) /\ R.claims[c].session = s
              /\ Serves(R, s, R.claims[c].inc)
              => b # None /\ b.inc = R.claims[c].inc /\ b.state # "stopped"
    PROVE  Answered(registry') /\ Fit(registry', running) /\ Faithful
<1>1. /\ Answered(registry')
      /\ registry'.leases = R.leases /\ registry'.events = R.events
  BY BrokerAnswered
<1>2. Fit(registry', running)
  BY <1>1 DEF Fit, OpenLease
<1> QED BY <1>1, <1>2, FaithfulSection

\* revoke takes leases only together with their broker.
LEMMA RevokeSettles ==
    ASSUME registry \in Registry, Fenced(registry), Answered(registry),
           NEW R \in Registry, Fenced(R), Answered(R), Fit(R, running), Settles(registry, R),
           NEW s \in Sessions, NEW i \in Incarnations, Revoke(R, s, i)
    PROVE  Answered(registry') /\ Fit(registry', running) /\ Faithful
<1> DEFINE G == GiveUp(R, s, {i})
           new == IF BrokerOf(R, s, i)
                  THEN [G.brokers[s] EXCEPT !.state = "stopped", !.cap = FALSE, !.timed = TRUE]
                  ELSE G.brokers[s]
<1>1. G \in Registry
  BY GiveUpKeeps
<1>2. /\ Answered(G) /\ Fit(G, running) /\ G.brokers = R.brokers
      /\ \A c \in ClaimIds : ActiveClaim(G, c) =>
            (G.claims[c].session = s => G.claims[c].inc # i)
      /\ \A l \in LeaseIds :
            G.leases[l] = R.leases[l] \/ l \in LeasesOf(R, s, {i})
  BY GiveUpSettles
<1>3. registry' = [G EXCEPT !.brokers[s] = new]
  <2>1. G.brokers[s] = G.brokers[s]
    OBVIOUS
  <2> QED BY <1>1 DEF Revoke, Registry
<1> HIDE DEF G
<1>4. BrokerOf(R, s, i) => new.state = "stopped"
  <2>1. ASSUME BrokerOf(R, s, i)
        PROVE  G.brokers[s] \in Broker
    BY <1>1, <1>2, <2>1, BrokerType DEF BrokerOf
  <2> QED BY <2>1 DEF Broker
<1>5. ASSUME NEW c \in ClaimIds, ActiveClaim(G, c), G.claims[c].session = s,
             Serves(G, s, G.claims[c].inc)
      PROVE  new # None /\ new.inc = G.claims[c].inc /\ new.state # "stopped"
  <2>1. ~BrokerOf(R, s, i)
    BY <1>2, <1>5 DEF Serves, BrokerOf
  <2> QED BY <1>5, <2>1 DEF Serves, BrokerOf
<1> HIDE DEF new
<1>6. /\ Answered(registry') /\ registry'.leases = G.leases /\ registry'.events = G.events
      /\ registry'.brokers[s] = new
  <2>1. Answered(G)
    BY <1>2
  <2>2. \A c \in ClaimIds :
            /\ ActiveClaim(G, c) /\ G.claims[c].session = s
            /\ Serves(G, s, G.claims[c].inc)
            => new # None /\ new.inc = G.claims[c].inc /\ new.state # "stopped"
    BY <1>5
  <2>3. Answered(registry')
    BY <1>1, <1>3, <2>1, <2>2, BrokerAnswered
  <2>4. registry'.leases = G.leases
    BY <1>1, <1>3, <2>1, <2>2, BrokerAnswered
  <2>5. registry'.brokers[s] = new
    BY <1>1, <1>3 DEF Registry
  <2> QED BY <1>1, <1>3, <2>1, <2>2, <2>3, <2>4, <2>5, BrokerAnswered
<1>7. Fit(registry', running)
  BY <1>2, <1>6 DEF Fit, OpenLease
<1>8. ASSUME NEW l \in LeaseIds, l \in LeasesOf(R, s, {i}), OpenLease(registry, l)
      PROVE  registry'.brokers[registry.leases[l].session]
                # registry.brokers[registry.leases[l].session]
  <2>1. OpenLease(R, l) /\ R.leases[l].session = s /\ R.leases[l].inc = i
    BY <1>8 DEF LeasesOf
  <2>2. registry.leases[l].session = s
    BY <1>8, <2>1, SettlesSame DEF SameTurn
  <2>3. BrokerOf(R, s, i)
    BY <2>1, LeaseServed DEF Serves
  <2>4. registry.brokers[s].state # "stopped"
    BY <1>8, <2>2, LeaseServed DEF Serves
  <2> QED BY <1>4, <1>6, <2>2, <2>3, <2>4
<1>9. Faithful
  <2>1. ASSUME NEW l \in LeaseIds
        PROVE  \/ registry'.leases[l] = R.leases[l]
               \/ OpenLease(R, l) /\ l \in LeasesOf(R, s, {i})
    BY <1>2, <1>6 DEF LeasesOf
  <2> QED BY <1>8, <2>1, FaithfulSection
<1> QED BY <1>6, <1>7, <1>9

LEMMA BrokersSettle ==
    ASSUME registry \in Registry, Fenced(registry), Answered(registry),
           NEW R \in Registry, Fenced(R), Answered(R), Fit(R, running), Settles(registry, R),
           NEW s \in Sessions, Brokers(R, s)
    PROVE  /\ Answered(registry') /\ Fit(registry', running) /\ Faithful
           /\ UNCHANGED <<record, running>>
<1> DEFINE b == R.brokers[s]
           Done == /\ Answered(registry') /\ Fit(registry', running) /\ Faithful
                   /\ UNCHANGED <<record, running>>
<1>1. CASE ProvisionRefused(R, s)
  <2>1. PICK lost : /\ b # None
                    /\ registry' = [R EXCEPT !.brokers[s].lost = lost]
                    /\ UNCHANGED env
    BY <1>1 DEF ProvisionRefused
  <2> DEFINE new == [b EXCEPT !.lost = lost]
  <2>2. b \in Broker
    BY <2>1, BrokerType
  <2>3. new.inc = b.inc /\ new.state = b.state
    BY <2>2 DEF Broker
  <2>4. new # None
    <3>1. PICK n \in Nat \cup {None} : registry' = [R EXCEPT !.brokers[s].lost = n]
      BY <1>1, BoundAssumption DEF ProvisionRefused
    <3>2. [b EXCEPT !.lost = n] \in Broker
      BY <2>2 DEF Broker
    <3>3. registry'.brokers[s] = new /\ registry'.brokers[s] = [b EXCEPT !.lost = n]
      BY <2>1, <2>2, <3>1 DEF Registry, Broker
    <3> QED BY <3>2, <3>3, NoneAssumption
  <2>5. registry' = [R EXCEPT !.brokers[s] = new]
    BY <2>1, <2>2 DEF Registry, Broker
  <2> HIDE DEF new
  <2>6. Answered(registry') /\ Fit(registry', running) /\ Faithful
    BY <2>3, <2>4, <2>5, BrokerSettles DEF Serves, BrokerOf
  <2> QED BY <2>1, <2>6 DEF env
<1>2. ASSUME NEW i \in Incarnations, Revoke(R, s, i)
      PROVE  Done
  BY <1>2, RevokeSettles DEF Revoke, env
<1>3. CASE ExpireStoppedHeartbeat(R, s)
  <2>1. registry' = R /\ UNCHANGED <<record, running>>
    BY <1>3 DEF ExpireStoppedHeartbeat
  <2> QED BY <2>1, FaithfulSettles
<1>4. CASE Forget(R, s)
  <2>1. /\ registry' = [R EXCEPT !.brokers[s] = None] /\ UNCHANGED env
        /\ b.state = "stopped"
    BY <1>4 DEF Forget
  <2>2. Answered(registry') /\ Fit(registry', running) /\ Faithful
    BY <2>1, BrokerSettles DEF Serves
  <2> QED BY <2>1, <2>2 DEF env
<1>5. ASSUME NEW state \in BrokerStates \ {"stopped"}, b # None,
             registry' = [R EXCEPT !.brokers[s] = MarkLost(b, state)]
      PROVE  Answered(registry') /\ Fit(registry', running) /\ Faithful
  <2>1. b \in Broker
    BY <1>5, BrokerType
  <2>2. MarkLost(b, state) \in Broker
    BY <2>1, MarkLostType
  <2>3. MarkLost(b, state).inc = b.inc /\ MarkLost(b, state).state = state
    BY <2>1 DEF MarkLost, Broker
  <2>4. MarkLost(b, state) # None
    BY <2>2, NoneAssumption
  <2> QED BY <1>5, <2>3, <2>4, BrokerSettles DEF Serves, BrokerOf
<1>6. CASE MarkDegraded(R, s)
  <2>1. /\ b # None /\ UNCHANGED env
        /\ registry' = [R EXCEPT !.brokers[s] = MarkLost(b, "degraded")]
    BY <1>6 DEF MarkDegraded
  <2>2. "degraded" \in BrokerStates \ {"stopped"}
    BY DEF BrokerStates
  <2> QED BY <1>5, <2>1, <2>2 DEF env
<1>7. CASE RecoverBegin(R, s)
  <2>1. /\ registry' = [R EXCEPT !.brokers[s] =
                IF b.state = "recovering" THEN b ELSE MarkLost(b, "recovering")]
        /\ b # None /\ UNCHANGED <<record, running>>
    BY <1>7 DEF RecoverBegin, BrokerOf
  <2>2. CASE b.state = "recovering"
    <3>1. registry' = [R EXCEPT !.brokers[s] = b]
      BY <2>1, <2>2
    <3>2. Answered(registry') /\ Fit(registry', running) /\ Faithful
      BY <2>1, <2>2, <3>1, BrokerSettles DEF Serves, BrokerOf
    <3> QED BY <2>1, <3>2
  <2>3. CASE b.state # "recovering"
    <3>1. registry' = [R EXCEPT !.brokers[s] = MarkLost(b, "recovering")]
      BY <2>1, <2>3
    <3>2. "recovering" \in BrokerStates \ {"stopped"}
      BY DEF BrokerStates
    <3> QED BY <1>5, <2>1, <3>1, <3>2
  <2> QED BY <2>2, <2>3
<1> HIDE DEF Done
<1>8. Done
  BY <1>1, <1>2, <1>3, <1>4, <1>6, <1>7 DEF Brokers, Done
<1> QED BY <1>8 DEF Done


-----------------------------------------------------------------------------
(* Launches, and the rest of the world.                                    *)

\* provision replaces the broker of every lease it gives up.
LEMMA ProvisionSettles ==
    ASSUME registry \in Registry, EnvOK, RuntimeOfRecord, Fenced(registry),
           Answered(registry), Fit(registry, running), NEW s \in Sessions, Provision(s)
    PROVE  Answered(registry') /\ Fit(registry', running) /\ Faithful /\ UNCHANGED env
<1> DEFINE i == record[s]
           I == Incarnations \ {i}
           new == [inc |-> i, state |-> "ready", cap |-> TRUE, timed |-> FALSE, lost |-> None]
<1>1. PICK e \in Evidence :
        /\ registry' = [GiveUp(Clean(Maintain(registry, e), e), s, I) EXCEPT !.brokers[s] = new]
        /\ resuming[s] # None
        /\ UNCHANGED env
  BY DEF Provision
<1> DEFINE M == Maintain(registry, e)
           C == Clean(M, e)
           G == GiveUp(C, s, I)
<1>2. M \in Registry /\ Keeps(registry, M)
  BY MaintainKeeps
<1>3. C \in Registry /\ Keeps(M, C)
  BY <1>2, CleanKeeps
<1>4. Settles(registry, C) /\ Fit(C, running) /\ Answered(C)
  BY SectionSettles
<1>5. registry' = [G EXCEPT !.brokers[s] = new]
  BY <1>1
<1> HIDE DEF M
<1>6. Fenced(C)
  <2>1. Keeps(registry, C)
    BY <1>2, <1>3, KeepsTransitive
  <2> HIDE DEF C
  <2> QED BY <1>3, <2>1, KeepsFenced
<1> HIDE DEF C
<1>7. G \in Registry
  BY <1>3, <1>6, GiveUpKeeps
<1>8. /\ Answered(G) /\ Fit(G, running)
      /\ \A c \in ClaimIds : ActiveClaim(G, c) =>
            (G.claims[c].session = s => G.claims[c].inc \notin I)
      /\ \A l \in LeaseIds :
            G.leases[l] = C.leases[l] \/ l \in LeasesOf(C, s, I)
  BY <1>3, <1>4, GiveUpSettles
<1> HIDE DEF G
<1>9. new # None /\ new.inc = i /\ new.state = "ready"
  <2>1. i \in Incarnations
    BY <1>1, PrincipalType DEF EnvOK
  <2>2. new \in Broker
    BY <2>1 DEF Broker, BrokerStates
  <2> QED BY <2>2, NoneAssumption
<1> HIDE DEF new
<1>10. \A c \in ClaimIds :
            /\ ActiveClaim(G, c) /\ G.claims[c].session = s
            /\ Serves(G, s, G.claims[c].inc)
            => new # None /\ new.inc = G.claims[c].inc /\ new.state # "stopped"
  <2> SUFFICES ASSUME NEW c \in ClaimIds, ActiveClaim(G, c), G.claims[c].session = s
               PROVE  G.claims[c].inc = i
    BY <1>9
  <2>1. G.claims[c].inc \in Incarnations
    BY <1>7, ActiveIsClaim DEF Claim
  <2> QED BY <1>8, <2>1
<1>11. Answered(G) /\ Fit(G, running)
  BY <1>8
<1>12. Answered(registry')
  BY <1>5, <1>7, <1>10, <1>11, BrokerAnswered
<1>13. /\ registry'.leases = G.leases /\ registry'.events = G.events
       /\ registry'.brokers[s] = new
  BY <1>5, <1>7 DEF Registry
<1>14. Fit(registry', running)
  BY <1>11, <1>13 DEF Fit, OpenLease
<1>15. ASSUME NEW l \in LeaseIds, l \in LeasesOf(C, s, I), OpenLease(registry, l)
       PROVE  registry'.brokers[registry.leases[l].session]
                # registry.brokers[registry.leases[l].session]
  <2>1. OpenLease(C, l) /\ C.leases[l].session = s /\ C.leases[l].inc # i
    BY <1>15 DEF LeasesOf
  <2>2. registry.leases[l].session = s /\ registry.leases[l].inc # i
    BY <1>4, <1>15, <2>1, SettlesSame DEF SameTurn
  <2>3. registry.brokers[s].inc # i
    BY <1>15, <2>2, LeaseServed DEF Serves, BrokerOf
  <2> QED BY <1>9, <1>13, <2>2, <2>3
<1>16. Faithful
  <2>1. ASSUME NEW l \in LeaseIds
        PROVE  \/ registry'.leases[l] = C.leases[l]
               \/ OpenLease(C, l) /\ l \in LeasesOf(C, s, I)
    BY <1>8, <1>13 DEF LeasesOf
  <2> QED BY <1>4, <1>15, <2>1, FaithfulSection
<1> QED BY <1>1, <1>12, <1>14, <1>16

\* retire-stopped leaves leases alone and releases the claims of the launch.
LEMMA RetireSettles ==
    ASSUME registry \in Registry, Answered(registry), Fit(registry, running),
           NEW s \in Sessions, RetireStopped(s)
    PROVE  Answered(registry') /\ Fit(registry', running) /\ Faithful /\ UNCHANGED env
<1> DEFINE i == record[s]
           Q == ReleaseOwned(registry, s, i)
           new == [Q.brokers[s] EXCEPT !.state = "stopped", !.cap = FALSE]
<1>1. /\ Q \in Registry /\ Q.brokers = registry.brokers /\ Q.leases = registry.leases
      /\ Q.events = registry.events
      /\ \A c \in ClaimIds : Q.claims[c] =
            IF Owns(registry, c, s, i) THEN CloseClaim("released") ELSE registry.claims[c]
  BY ReleaseOwnedType
<1>2. BrokerOf(registry, s, i) /\ UNCHANGED env
  BY DEF RetireStopped, Retirable, StoppedOutside
<1>3. registry' = [Q EXCEPT !.brokers[s] = new]
  BY <1>1 DEF RetireStopped, Registry
<1>4. Answered(Q)
  BY ReleaseOwnedAnswered
<1> HIDE DEF Q, new
<1>5. \A c \in ClaimIds :
            /\ ActiveClaim(Q, c) /\ Q.claims[c].session = s
            /\ Serves(Q, s, Q.claims[c].inc)
            => new # None /\ new.inc = Q.claims[c].inc /\ new.state # "stopped"
  <2> SUFFICES ASSUME NEW c \in ClaimIds, ActiveClaim(Q, c), Q.claims[c].session = s,
                      Serves(Q, s, Q.claims[c].inc)
               PROVE  FALSE
    OBVIOUS
  <2>1. Q.claims[c].inc = i
    BY <1>1, <1>2 DEF Serves, BrokerOf
  <2>2. Q.claims[c] = registry.claims[c] /\ ~Owns(registry, c, s, i)
    BY <1>1 DEF ActiveClaim, CloseClaim
  <2> QED BY <2>1, <2>2 DEF Owns, ActiveClaim
<1>6. Answered(registry')
  BY <1>1, <1>3, <1>4, <1>5, BrokerAnswered
<1>7. registry'.leases = registry.leases /\ registry'.events = registry.events
  BY <1>1, <1>3 DEF Registry
<1>8. Fit(registry', running)
  BY <1>7 DEF Fit, OpenLease
<1> QED BY <1>2, <1>6, <1>7, <1>8 DEF Faithful, Ends, OpenLease

\* broker reconcile abandons a lease together with the broker's recovery.
LEMMA RecoverSettles ==
    ASSUME registry \in Registry, EnvOK, RuntimeOfRecord, Answered(registry),
           Fit(registry, running), NEW s \in Sessions, NEW reconciled,
           RecoverFinish(s, reconciled)
    PROVE  Answered(registry') /\ Fit(registry', running) /\ Faithful /\ UNCHANGED env
<1> DEFINE i == record[s]
<1>1. PICK e \in Evidence :
        LET R == Maintain(registry, e)
        IN /\ BrokerOf(R, s, i)
           /\ R.brokers[s].state = "recovering"
           /\ \A l \in reconciled : l \in LeasesOf(R, s, {i})
           /\ registry' = [R EXCEPT
                !.brokers[s] = [@ EXCEPT !.state = "ready", !.timed = TRUE, !.lost = None],
                !.leases = [l \in LeaseIds |->
                    IF l \in reconciled THEN CloseLease(R.leases[l], "abandoned")
                    ELSE R.leases[l]]]
           /\ UNCHANGED env
  BY DEF RecoverFinish
<1> DEFINE R == Maintain(registry, e)
           new == [R.brokers[s] EXCEPT !.state = "ready", !.timed = TRUE, !.lost = None]
           closed(l) == CloseLease(R.leases[l], "abandoned")
           leases == [l \in LeaseIds |-> IF l \in reconciled THEN closed(l) ELSE R.leases[l]]
           S == [R EXCEPT !.leases = leases]
<1>2. /\ R \in Registry /\ Settles(registry, R) /\ Fit(R, running) /\ Answered(R)
      /\ \A t \in Sessions : R.brokers[t] \in {None, registry.brokers[t]}
  BY MaintainKeeps, SectionSettles
<1>3. /\ BrokerOf(R, s, i) /\ R.brokers[s].state = "recovering"
      /\ \A l \in reconciled : l \in LeasesOf(R, s, {i})
      /\ registry' = [R EXCEPT !.brokers[s] = new, !.leases = leases]
      /\ UNCHANGED env
  BY <1>1
<1> HIDE DEF R
<1>4. \A l \in LeaseIds : l \in reconciled => closed(l) \in ClosedLease
  BY <1>2, <1>3, OpenIsLease, CloseLeaseType DEF LeasesOf, Closed
<1>5. /\ R.brokers[s] \in Broker
      /\ new \in Broker /\ new.inc = R.brokers[s].inc /\ new.state = "ready" /\ new # None
  <2>1. R.brokers[s] \in Broker
    BY <1>2, <1>3, BrokerType DEF BrokerOf
  <2>2. new \in Broker /\ new.inc = R.brokers[s].inc /\ new.state = "ready"
    BY <2>1 DEF Broker, BrokerStates
  <2> QED BY <2>1, <2>2, NoneAssumption
<1> HIDE DEF new, closed
<1>6. /\ registry'.claims = R.claims /\ registry'.events = R.events
      /\ registry'.leases = leases
      /\ registry'.brokers[s] = new
      /\ \A t \in Sessions : t # s => registry'.brokers[t] = R.brokers[t]
  <2> HIDE DEF leases
  <2> QED BY <1>2, <1>3 DEF Registry
<1>7. \A l \in LeaseIds : registry'.leases[l] = IF l \in reconciled THEN closed(l)
                                                ELSE R.leases[l]
  BY <1>6
<1>8. Answered(registry')
  <2> SUFFICES ASSUME NEW c \in ClaimIds, ActiveClaim(registry', c)
               PROVE  Serves(registry', registry'.claims[c].session, registry'.claims[c].inc)
    BY DEF Answered
  <2>1. ActiveClaim(R, c) /\ registry'.claims[c] = R.claims[c]
    BY <1>6 DEF ActiveClaim
  <2>2. /\ R.claims[c].session \in Sessions
        /\ Serves(R, R.claims[c].session, R.claims[c].inc)
    BY <1>2, <2>1, ActiveIsClaim DEF Answered, Claim
  <2> QED BY <1>5, <1>6, <2>1, <2>2 DEF Serves, BrokerOf
<1>9. Fit(registry', running)
  <2>1. \A l \in LeaseIds : OpenLease(registry', l) =>
            OpenLease(R, l) /\ registry'.leases[l] = R.leases[l]
    BY <1>4, <1>7, ClosedIsNotOpen DEF OpenLease
  <2> QED BY <1>2, <1>6, <2>1, FitStays
<1>10. ASSUME NEW l \in LeaseIds, l \in reconciled, OpenLease(registry, l)
       PROVE  /\ OpenLease(R, l)
              /\ registry'.brokers[registry.leases[l].session]
                    # registry.brokers[registry.leases[l].session]
  <2>1. OpenLease(R, l) /\ R.leases[l].session = s
    BY <1>3, <1>10 DEF LeasesOf
  <2>2. registry.leases[l].session = s
    BY <1>2, <1>10, <2>1, SettlesSame DEF SameTurn
  <2>3. registry.brokers[s].state = "recovering"
    BY <1>2, <1>3 DEF BrokerOf
  <2> QED BY <1>5, <1>6, <2>1, <2>2, <2>3
<1>11. Faithful
  <2>1. \A l \in LeaseIds : l \in reconciled => OpenLease(R, l)
    BY <1>3 DEF LeasesOf
  <2> QED BY <1>2, <1>7, <1>10, <2>1, FaithfulSection
<1> QED BY <1>3, <1>8, <1>9, <1>11


\* What the steps keep, beside Inv.
Kept ==
    /\ Answered(registry') /\ Fit(registry', running') /\ RuntimeOfRecord'
    /\ Faithful

LEMMA KeptSection ==
    ASSUME RuntimeOfRecord, Answered(registry'), Fit(registry', running), Faithful,
           UNCHANGED <<record, running>>
    PROVE  Kept
BY DEF Kept, RuntimeOfRecord

\* Who runs changes, and no lease's launch starts to.
LEMMA FitRuns ==
    ASSUME NEW R \in Registry, NEW run, NEW other, Fit(R, run),
           \A l \in LeaseIds : OpenLease(R, l) =>
              \/ other[R.leases[l].session] = run[R.leases[l].session]
              \/ other[R.leases[l].session] # R.leases[l].inc
    PROVE  Fit(R, other)
BY DEF Fit, FitsAll

LEMMA LaunchesSettle ==
    ASSUME registry \in Registry, EnvOK, RuntimeOfRecord, Answered(registry),
           Fit(registry, running), NEW s \in Sessions,
           \/ \E i \in Incarnations : Launch(s, i)
           \/ LaunchReady(s) \/ LaunchStranded(s) \/ LaunchRolledBack(s) \/ Delete(s)
    PROVE  Kept
<1>1. ASSUME NEW i \in Incarnations, Launch(s, i)
      PROVE  Kept
  <2>1. /\ registry' = registry
        /\ running' = [running EXCEPT ![s] = i] /\ record' = [record EXCEPT ![s] = i]
        /\ \A l \in LeaseIds : registry.leases[l] # None =>
            <<registry.leases[l].session, registry.leases[l].inc>> # <<s, i>>
    BY <1>1 DEF Launch, FreshLaunch
  <2>2. RuntimeOfRecord'
    BY <2>1 DEF RuntimeOfRecord, EnvOK
  <2>3. ASSUME NEW l \in LeaseIds, OpenLease(registry, l)
        PROVE  \/ running'[registry.leases[l].session] = running[registry.leases[l].session]
               \/ running'[registry.leases[l].session] # registry.leases[l].inc
    <3>1. registry.leases[l].session \in Sessions
      BY <2>3, OpenIsLease DEF Lease
    <3>2. <<registry.leases[l].session, registry.leases[l].inc>> # <<s, i>>
      BY <2>1, <2>3 DEF OpenLease
    <3> QED BY <2>1, <3>1, <3>2 DEF EnvOK
  <2>4. Fit(registry, running')
    BY <2>3, FitRuns
  <2> QED BY <2>1, <2>2, <2>4 DEF Kept, Faithful, Ends
<1>2. CASE LaunchReady(s) \/ LaunchStranded(s)
  <2>1. registry' = registry /\ UNCHANGED <<record, running>>
    BY <1>2 DEF LaunchReady, LaunchStranded
  <2>2. Faithful
    BY <2>1 DEF Faithful, Ends
  <2> QED BY <2>1, <2>2, KeptSection
<1>3. CASE LaunchRolledBack(s)
  <2>1. /\ registry' = registry /\ running' = running /\ running[s] = None
        /\ record' = [record EXCEPT ![s] = resuming[s].launch]
    BY <1>3 DEF LaunchRolledBack
  <2>2. RuntimeOfRecord'
    BY <2>1 DEF RuntimeOfRecord, EnvOK
  <2> QED BY <2>1, <2>2 DEF Kept, Faithful, Ends
<1>4. CASE Delete(s)
  <2> DEFINE b == registry.brokers[s]
             new == IF b = None THEN None ELSE [b EXCEPT !.cap = FALSE]
  <2>1. /\ registry' = [registry EXCEPT !.brokers[s] = new]
        /\ running' = running /\ running[s] = None
        /\ record' = [record EXCEPT ![s] = None]
    BY <1>4 DEF Delete, Registry
  <2>2. b # None => new # None /\ new.inc = b.inc /\ new.state = b.state
    <3>1. ASSUME b # None PROVE b \in Broker
      BY <3>1, BrokerType
    <3>2. b # None => new \in Broker /\ new.inc = b.inc /\ new.state = b.state
      BY <3>1 DEF Broker
    <3> QED BY <3>2, NoneAssumption
  <2> HIDE DEF new
  <2>3. \A c \in ClaimIds :
            /\ ActiveClaim(registry, c) /\ registry.claims[c].session = s
            /\ Serves(registry, s, registry.claims[c].inc)
            => new # None /\ new.inc = registry.claims[c].inc /\ new.state # "stopped"
    BY <2>2 DEF Serves, BrokerOf
  <2>4. Answered(registry')
    BY <2>1, <2>3, BrokerAnswered
  <2>5. registry'.leases = registry.leases /\ registry'.events = registry.events
    BY <2>1 DEF Registry
  <2>6. Fit(registry', running) /\ Faithful
    BY <2>5 DEF Fit, OpenLease, Faithful, Ends
  <2>7. RuntimeOfRecord'
    BY <2>1 DEF RuntimeOfRecord, EnvOK
  <2> QED BY <2>1, <2>4, <2>6, <2>7 DEF Kept
<1> QED BY <1>1, <1>2, <1>3, <1>4

LEMMA LifecycleSettles ==
    ASSUME registry \in Registry, EnvOK, RuntimeOfRecord, Fenced(registry),
           Answered(registry), Fit(registry, running), NEW s \in Sessions,
           Lifecycle(s) \/ Sidecars(s)
    PROVE  Kept
<1>1. CASE Provision(s) \/ RetireStopped(s)
           \/ \E reconciled \in {{}} \cup {{l} : l \in LeaseIds} : RecoverFinish(s, reconciled)
  <2>1. Answered(registry') /\ Fit(registry', running) /\ Faithful /\ UNCHANGED env
    BY <1>1, ProvisionSettles, RetireSettles, RecoverSettles
  <2> QED BY <2>1, KeptSection DEF env
<1>2. CASE Sidecars(s)
  <2>1. registry' = registry /\ UNCHANGED <<record, running>>
    BY <1>2 DEF Sidecars, SidecarChecks, SidecarBeats
  <2>2. Faithful
    BY <2>1 DEF Faithful, Ends
  <2> QED BY <2>1, <2>2, KeptSection
<1> QED BY <1>1, <1>2, LaunchesSettle DEF Lifecycle

\* Leases that stay open, with claims, brokers and the revisions of leases and
\* events as they were.
LEMMA WorldStays ==
    ASSUME registry \in Registry, Answered(registry), Fit(registry, running),
           NoNewClaim(registry, registry'),
           \A s \in Sessions : registry.brokers[s] # None =>
              /\ registry'.brokers[s] # None
              /\ registry'.brokers[s].inc = registry.brokers[s].inc
              /\ registry'.brokers[s].state = registry.brokers[s].state,
           \A l \in LeaseIds :
              /\ OpenLease(registry', l) <=> OpenLease(registry, l)
              /\ OpenLease(registry, l) =>
                   /\ registry'.leases[l].session = registry.leases[l].session
                   /\ registry'.leases[l].inc = registry.leases[l].inc
                   /\ registry'.leases[l].state = registry.leases[l].state
                   /\ registry'.leases[l].revision = registry.leases[l].revision
              /\ Len(registry'.events[l]) = Len(registry.events[l])
              /\ \A n \in 1 .. Len(registry.events[l]) :
                   registry'.events[l][n].revision = registry.events[l][n].revision
    PROVE  Answered(registry') /\ Fit(registry', running) /\ Faithful
<1>1. Answered(registry')
  <2> SUFFICES ASSUME NEW c \in ClaimIds, ActiveClaim(registry', c)
               PROVE  Serves(registry', registry'.claims[c].session, registry'.claims[c].inc)
    BY DEF Answered
  <2> DEFINE s == registry.claims[c].session
  <2>1. /\ ActiveClaim(registry, c)
        /\ registry'.claims[c].session = s /\ registry'.claims[c].inc = registry.claims[c].inc
    BY DEF NoNewClaim
  <2>2. s \in Sessions
    BY <2>1, ActiveIsClaim DEF Claim
  <2>3. Serves(registry, s, registry.claims[c].inc)
    BY <2>1 DEF Answered
  <2> QED BY <2>1, <2>2, <2>3 DEF Serves, BrokerOf
<1>2. Fit(registry', running)
  <2> SUFFICES ASSUME NEW l \in LeaseIds, OpenLease(registry', l),
                      NEW n \in 1 .. Len(registry'.events[l])
               PROVE  /\ Fits(registry'.leases[l], registry'.events[l][n])
                      /\ running[registry'.leases[l].session] = registry'.leases[l].inc =>
                            registry'.leases[l].revision = registry'.events[l][n].revision
    BY DEF Fit, FitsAll
  <2>1. OpenLease(registry, l) /\ n \in 1 .. Len(registry.events[l])
    OBVIOUS
  <2>2. /\ Fits(registry.leases[l], registry.events[l][n])
        /\ running[registry.leases[l].session] = registry.leases[l].inc =>
            registry.leases[l].revision = registry.events[l][n].revision
    BY <2>1 DEF Fit, FitsAll
  <2> QED BY <2>1, <2>2 DEF Fits
<1>3. Faithful
  BY DEF Faithful, Ends
<1> QED BY <1>1, <1>2, <1>3

LEMMA TickSettles ==
    ASSUME registry \in Registry, Answered(registry), Fit(registry, running), Tick
    PROVE  Answered(registry') /\ Fit(registry', running) /\ Faithful
<1> DEFINE broker(s) == [registry.brokers[s] EXCEPT !.lost = Down(@)]
           claim(c) == [registry.claims[c] EXCEPT !.due = Down(@)]
           open(l) == [registry.leases[l] EXCEPT !.due = Down(@), !.gap = Down(@)]
           shut(l) == [registry.leases[l] EXCEPT !.due = Down(@)]
           event(l, n) == [registry.events[l][n] EXCEPT !.due = Down(@)]
           queue(l) == [n \in 1 .. Len(registry.events[l]) |-> event(l, n)]
<1>1. registry' = [brokers |-> [s \in Sessions |->
                        IF registry.brokers[s] = None THEN None ELSE broker(s)],
                   claims |-> [c \in ClaimIds |->
                        IF registry.claims[c] = None THEN None ELSE claim(c)],
                   leases |-> [l \in LeaseIds |-> IF registry.leases[l] = None THEN None
                        ELSE IF OpenLease(registry, l) THEN open(l) ELSE shut(l)],
                   events |-> [l \in LeaseIds |-> queue(l)]]
  BY DEF Tick
<1>2. ASSUME NEW s \in Sessions, registry.brokers[s] # None
      PROVE  /\ broker(s) # None
             /\ broker(s).inc = registry.brokers[s].inc
             /\ broker(s).state = registry.brokers[s].state
  <2>1. registry.brokers[s] \in Broker
    BY <1>2, BrokerType
  <2>2. Down(registry.brokers[s].lost) \in Nat \cup {None}
    BY <2>1, DownType DEF Broker
  <2>3. /\ broker(s) \in Broker /\ broker(s).inc = registry.brokers[s].inc
        /\ broker(s).state = registry.brokers[s].state
    BY <2>1, <2>2 DEF Broker
  <2> QED BY <2>3, NoneAssumption
<1>3. ASSUME NEW c \in ClaimIds, registry.claims[c] # None, claim(c).state = "active"
      PROVE  /\ ActiveClaim(registry, c)
             /\ claim(c).session = registry.claims[c].session
             /\ claim(c).inc = registry.claims[c].inc
  <2>1. CASE registry.claims[c] \in Claim
    BY <1>3, <2>1 DEF Claim, ActiveClaim
  <2>2. CASE registry.claims[c] \in ClosedClaim
    BY <1>3, <2>2 DEF ClosedClaim
  <2> QED BY <1>3, <2>1, <2>2 DEF Registry
<1>4. ASSUME NEW l \in LeaseIds, OpenLease(registry, l)
      PROVE  /\ open(l) # None
             /\ open(l).session = registry.leases[l].session
             /\ open(l).inc = registry.leases[l].inc
             /\ open(l).state = registry.leases[l].state
             /\ open(l).revision = registry.leases[l].revision
  <2>1. registry.leases[l] \in Lease
    BY <1>4, OpenIsLease
  <2>2. Down(registry.leases[l].due) \in Nat /\ Down(registry.leases[l].gap) \in Nat
    BY <2>1, DownType DEF Lease
  <2>3. /\ open(l) \in Lease
        /\ open(l).session = registry.leases[l].session
        /\ open(l).inc = registry.leases[l].inc
        /\ open(l).state = registry.leases[l].state
        /\ open(l).revision = registry.leases[l].revision
    BY <2>1, <2>2 DEF Lease
  <2> QED BY <2>3, NoneAssumption
<1>5. ASSUME NEW l \in LeaseIds, registry.leases[l] # None, ~OpenLease(registry, l)
      PROVE  shut(l).state \notin Open
  <2>1. registry.leases[l] \in ClosedLease
    BY <1>5 DEF Registry, OpenLease, Lease
  <2> QED BY <2>1 DEF ClosedLease, Open, Closed
<1>6. ASSUME NEW l \in LeaseIds
      PROVE  /\ Len(queue(l)) = Len(registry.events[l])
             /\ \A n \in 1 .. Len(registry.events[l]) :
                    queue(l)[n].revision = registry.events[l][n].revision
  <2>1. registry.events[l] \in Seq(Event)
    BY DEF Registry
  <2>2. Len(registry.events[l]) \in Nat
    BY <2>1, LenProperties
  <2>3. ASSUME NEW n \in 1 .. Len(registry.events[l])
        PROVE  event(l, n).revision = registry.events[l][n].revision
    BY <2>1, <2>3, ElementOfSeq DEF Event
  <2> HIDE DEF event
  <2>4. \A n \in 1 .. Len(registry.events[l]) : queue(l)[n] = event(l, n)
    OBVIOUS
  <2>5. Len(queue(l)) = Len(registry.events[l])
    BY <2>2
  <2> QED BY <2>3, <2>4, <2>5
<1> HIDE DEF broker, claim, open, shut, queue
<1>7. /\ \A s \in Sessions : registry'.brokers[s] =
            IF registry.brokers[s] = None THEN None ELSE broker(s)
      /\ \A c \in ClaimIds : registry'.claims[c] =
            IF registry.claims[c] = None THEN None ELSE claim(c)
      /\ \A l \in LeaseIds : registry'.leases[l] = IF registry.leases[l] = None THEN None
            ELSE IF OpenLease(registry, l) THEN open(l) ELSE shut(l)
      /\ \A l \in LeaseIds : registry'.events[l] = queue(l)
  BY <1>1
<1>8. NoNewClaim(registry, registry')
  BY <1>3, <1>7 DEF NoNewClaim, ActiveClaim
<1>9. \A s \in Sessions : registry.brokers[s] # None =>
        /\ registry'.brokers[s] # None
        /\ registry'.brokers[s].inc = registry.brokers[s].inc
        /\ registry'.brokers[s].state = registry.brokers[s].state
  BY <1>2, <1>7
<1>10. ASSUME NEW l \in LeaseIds
       PROVE  OpenLease(registry', l) <=> OpenLease(registry, l)
  <2>1. CASE OpenLease(registry, l)
    BY <1>4, <1>7, <2>1 DEF OpenLease
  <2>2. CASE ~OpenLease(registry, l)
    BY <1>5, <1>7, <2>2 DEF OpenLease
  <2> QED BY <2>1, <2>2
<1>11. ASSUME NEW l \in LeaseIds, OpenLease(registry, l)
       PROVE  /\ registry'.leases[l].session = registry.leases[l].session
              /\ registry'.leases[l].inc = registry.leases[l].inc
              /\ registry'.leases[l].state = registry.leases[l].state
              /\ registry'.leases[l].revision = registry.leases[l].revision
  BY <1>4, <1>7, <1>11 DEF OpenLease
<1> QED BY <1>6, <1>7, <1>8, <1>9, <1>10, <1>11, WorldStays


LEMMA WorldSettles ==
    ASSUME registry \in Registry, EnvOK, RuntimeOfRecord, Answered(registry),
           Fit(registry, running), World
    PROVE  Kept
<1>1. ASSUME NEW s \in Sessions, RuntimeExits(s)
      PROVE  Kept
  <2>1. registry' = registry /\ record' = record /\ running' = [running EXCEPT ![s] = None]
    BY <1>1 DEF RuntimeExits
  <2>2. RuntimeOfRecord'
    BY <2>1 DEF RuntimeOfRecord, EnvOK
  <2>3. ASSUME NEW l \in LeaseIds, OpenLease(registry, l)
        PROVE  \/ running'[registry.leases[l].session] = running[registry.leases[l].session]
               \/ running'[registry.leases[l].session] # registry.leases[l].inc
    <3>1. registry.leases[l].session \in Sessions /\ registry.leases[l].inc # None
      BY <2>3, OpenIsLease, NoneAssumption DEF Lease
    <3> QED BY <2>1, <3>1 DEF EnvOK
  <2>4. Fit(registry, running')
    BY <2>3, FitRuns
  <2> QED BY <2>1, <2>2, <2>4 DEF Kept, Faithful, Ends
<1>2. ASSUME NEW s \in Sessions, BeatLapses(s) \/ TurnProgresses(s)
      PROVE  Kept
  <2>1. registry' = registry /\ UNCHANGED <<record, running>>
    BY <1>2 DEF BeatLapses, TurnProgresses
  <2>2. Faithful
    BY <2>1 DEF Faithful, Ends
  <2> QED BY <2>1, <2>2, KeptSection
<1>3. ASSUME UNCHANGED <<record, running>>,
             registry'.brokers = registry.brokers, registry'.claims = registry.claims,
             registry'.events = registry.events,
             \A l \in LeaseIds :
                \/ registry'.leases[l] = registry.leases[l]
                \/ /\ OpenLease(registry, l)
                   /\ \/ registry'.leases[l] = [registry.leases[l] EXCEPT !.over = TRUE]
                      \/ registry'.leases[l] = [registry.leases[l] EXCEPT !.descendant = "exited"]
      PROVE  Kept
  <2>1. ASSUME NEW l \in LeaseIds
        PROVE  /\ OpenLease(registry', l) <=> OpenLease(registry, l)
               /\ OpenLease(registry, l) =>
                    /\ registry'.leases[l].session = registry.leases[l].session
                    /\ registry'.leases[l].inc = registry.leases[l].inc
                    /\ registry'.leases[l].state = registry.leases[l].state
                    /\ registry'.leases[l].revision = registry.leases[l].revision
    <3>1. CASE registry'.leases[l] = registry.leases[l]
      BY <3>1 DEF OpenLease
    <3>2. CASE /\ OpenLease(registry, l)
               /\ \/ registry'.leases[l] = [registry.leases[l] EXCEPT !.over = TRUE]
                  \/ registry'.leases[l] = [registry.leases[l] EXCEPT !.descendant = "exited"]
      <4>1. registry.leases[l] \in Lease
        BY <3>2, OpenIsLease
      <4>2. registry'.leases[l] \in Lease
        BY <3>2, <4>1 DEF Lease
      <4>3. /\ registry'.leases[l].session = registry.leases[l].session
            /\ registry'.leases[l].inc = registry.leases[l].inc
            /\ registry'.leases[l].state = registry.leases[l].state
            /\ registry'.leases[l].revision = registry.leases[l].revision
        BY <3>2, <4>1 DEF Lease
      <4> QED BY <3>2, <4>2, <4>3, NoneAssumption DEF OpenLease
    <3> QED BY <1>3, <3>1, <3>2
  <2>2. NoNewClaim(registry, registry')
    BY <1>3 DEF NoNewClaim, ActiveClaim
  <2>3. Answered(registry') /\ Fit(registry', running) /\ Faithful
    BY <1>3, <2>1, <2>2, WorldStays
  <2> QED BY <1>3, <2>3, KeptSection
<1>4. ASSUME NEW s \in Sessions, TurnChanges(s)
      PROVE  Kept
  <2>1. registry' = EndTurn(registry, s) /\ UNCHANGED <<record, running>>
    BY <1>4 DEF TurnChanges
  <2>2. /\ registry'.brokers = registry.brokers /\ registry'.claims = registry.claims
        /\ registry'.events = registry.events
        /\ \A l \in LeaseIds :
                \/ registry'.leases[l] = registry.leases[l]
                \/ /\ OpenLease(registry, l)
                   /\ registry'.leases[l] = [registry.leases[l] EXCEPT !.over = TRUE]
    BY <2>1 DEF EndTurn, Registry
  <2> QED BY <1>3, <2>1, <2>2
<1>5. ASSUME NEW l \in LeaseIds, DescendantExits(l)
      PROVE  Kept
  <2> DEFINE new == [registry.leases[l] EXCEPT !.descendant = "exited"]
  <2>1. /\ OpenLease(registry, l) /\ UNCHANGED <<record, running>>
        /\ registry' = [registry EXCEPT !.leases[l] = new]
    BY <1>5 DEF DescendantExits, Registry, env
  <2>2. /\ registry'.brokers = registry.brokers /\ registry'.claims = registry.claims
        /\ registry'.events = registry.events
        /\ registry'.leases[l] = new
        /\ \A m \in LeaseIds : m # l => registry'.leases[m] = registry.leases[m]
    <3> HIDE DEF new
    <3> QED BY <2>1 DEF Registry
  <2> QED BY <1>3, <2>1, <2>2
<1>6. CASE Tick
  <2>1. UNCHANGED <<record, running>>
    BY <1>6 DEF Tick, env
  <2> QED BY <1>6, <2>1, TickSettles, KeptSection
<1> QED BY <1>1, <1>2, <1>4, <1>5, <1>6 DEF World

-----------------------------------------------------------------------------
(* The invariant and what follows from it.                                 *)

SettledInv ==
    /\ Inv
    /\ RuntimeOfRecord
    /\ Answered(registry)
    /\ Fit(registry, running)

LEMMA NextKept ==
    ASSUME SettledInv, [Next]_vars
    PROVE  Kept
<1>1. /\ registry \in Registry /\ EnvOK /\ Fenced(registry)
      /\ RuntimeOfRecord /\ Answered(registry) /\ Fit(registry, running)
  BY DEF SettledInv, Inv, Safe
<1>2. ASSUME NEW R \in Swept
      PROVE  R \in Registry /\ Settles(registry, R) /\ Fit(R, running) /\ Answered(R)
  <2>1. PICK e \in Evidence : R = Clean(Maintain(registry, e), e)
    BY DEF Swept
  <2> QED BY <1>1, <2>1, SweptKeeps, SectionSettles
<1>3. ASSUME NEW R \in Maintained
      PROVE  /\ R \in Registry /\ Settles(registry, R) /\ Fit(R, running) /\ Answered(R)
             /\ Fenced(R)
  <2>1. PICK e \in Evidence : R = Maintain(registry, e)
    BY DEF Maintained
  <2>2. R \in Registry /\ Keeps(registry, R)
    BY <1>1, MaintainedKeeps
  <2>3. Fenced(R)
    BY <1>1, <2>2, KeepsFenced
  <2> QED BY <1>1, <2>1, <2>2, <2>3, SectionSettles
<1>4. ASSUME NEW R \in Swept, NEW s \in Sessions, Claims(R, s)
      PROVE  Kept
  <2>1. R \in Registry /\ Settles(registry, R) /\ Fit(R, running) /\ Answered(R)
    BY <1>2
  <2>2. /\ Answered(registry') /\ UNCHANGED env
        /\ registry'.leases = R.leases /\ registry'.events = R.events
    BY <1>1, <1>4, <2>1, ClaimsSettle
  <2>3. Fit(registry', running)
    BY <2>1, <2>2 DEF Fit, OpenLease
  <2>4. Faithful
    BY <2>1, <2>2, FaithfulSection
  <2> QED BY <1>1, <2>2, <2>3, <2>4, KeptSection DEF env
<1>5. ASSUME NEW R \in Swept, NEW s \in Sessions, Operations(R, s)
      PROVE  Kept
  <2>1. R \in Registry /\ Settles(registry, R) /\ Fit(R, running) /\ Answered(R)
    BY <1>2
  <2>2. /\ Answered(registry') /\ Fit(registry', running) /\ UNCHANGED env
        /\ \A l \in LeaseIds : registry'.leases[l] = R.leases[l] \/ OpenLease(registry', l)
    BY <1>1, <1>5, <2>1, AdmitSettles
  <2>3. Faithful
    BY <2>1, <2>2, FaithfulSection
  <2> QED BY <1>1, <2>2, <2>3, KeptSection DEF env
<1>6. ASSUME NEW R \in Maintained, NEW s \in Sessions, Brokers(R, s)
      PROVE  Kept
  <2>1. /\ R \in Registry /\ Settles(registry, R) /\ Fit(R, running) /\ Answered(R)
        /\ Fenced(R)
    BY <1>3
  <2>2. /\ Answered(registry') /\ Fit(registry', running) /\ Faithful
        /\ UNCHANGED <<record, running>>
    BY <1>1, <1>6, <2>1, BrokersSettle
  <2> QED BY <1>1, <2>2, KeptSection
<1>7. ASSUME NEW s \in Sessions, Lifecycle(s) \/ Sidecars(s)
      PROVE  Kept
  BY <1>1, <1>7, LifecycleSettles
<1>8. CASE Completions
  <2>1. Answered(registry') /\ Fit(registry', running) /\ UNCHANGED env /\ Faithful
    BY <1>1, <1>8, CompletionsSettle
  <2> QED BY <1>1, <2>1, KeptSection DEF env
<1>9. CASE World
  BY <1>1, <1>9, WorldSettles
<1>10. CASE UNCHANGED vars
  <2>1. registry' = registry /\ UNCHANGED <<record, running>>
    BY <1>10 DEF vars
  <2>2. Faithful
    BY <2>1 DEF Faithful, Ends
  <2> QED BY <1>1, <2>1, <2>2, KeptSection
<1> QED BY <1>4, <1>5, <1>6, <1>7, <1>8, <1>9, <1>10 DEF Next

LEMMA SettledInvariance == Spec => []SettledInv
<1>1. Init => SettledInv
  <2> SUFFICES ASSUME Init PROVE SettledInv
    OBVIOUS
  <2>1. \A l \in LeaseIds : ~OpenLease(registry, l)
    BY DEF Init, OpenLease
  <2>2. \A c \in ClaimIds : ~ActiveClaim(registry, c)
    BY DEF Init, ActiveClaim
  <2>3. RuntimeOfRecord
    BY DEF Init, RuntimeOfRecord
  <2> QED BY <2>1, <2>2, <2>3, InitInv DEF SettledInv, Answered, Fit
<1>2. SettledInv /\ [Next]_vars => SettledInv'
  <2> SUFFICES ASSUME SettledInv, [Next]_vars PROVE SettledInv'
    OBVIOUS
  <2>1. Inv'
    BY NextInv DEF SettledInv
  <2>2. Answered(registry)' /\ Fit(registry, running)' /\ RuntimeOfRecord'
    BY NextKept DEF Kept
  <2> QED BY <2>1, <2>2 DEF SettledInv
<1> QED BY <1>1, <1>2, PTL DEF Spec

\* An active claim has the broker of its own launch, and not a stopped one, so
\* clean_expired always finds who to ask about the claim's runtime.
THEOREM ClaimAnsweredSafe == Spec => []ClaimAnswered
<1>1. SettledInv => ClaimAnswered
  BY DEF SettledInv, Answered, Serves, ClaimAnswered
<1> QED BY <1>1, SettledInvariance, PTL

\* No step moves a lease's revision past the events accepted for it: renewal,
\* expiry, reconciliation and a change of launch leave every one of them
\* fitting (drain_completion_event_in_registry).
THEOREM CompletionFitsSafe == Spec => []AcceptedCompletionFits
<1>1. SettledInv => AcceptedCompletionFits
  BY FirstFits DEF SettledInv, Inv, AcceptedCompletionFits
<1> QED BY <1>1, SettledInvariance, PTL

\* Reconcile, the expiry sweep, the operator and a late drain all give way to
\* the oldest outcome that was persisted for the lease.
THEOREM OutcomeWinsSafe == Spec => OutcomeWins
<1>1. ASSUME SettledInv, [Next]_vars, NEW l \in LeaseIds,
             Ends(l), Fitting(registry, l) # {}, Oldest(l).due > 0
      PROVE  registry'.leases[l].state = Verdict(Oldest(l).outcome)
  <2>1. registry \in Registry /\ Fit(registry, running) /\ OpenLease(registry, l)
    BY <1>1 DEF SettledInv, Inv, Ends
  <2>2. registry.events[l] # <<>> /\ Oldest(l) = registry.events[l][1]
    BY <1>1, <2>1, FirstFits DEF Oldest
  <2>3. EndsWell(registry, registry', l)
    BY <1>1, NextKept DEF Kept, Faithful
  <2>4. registry'.leases[l] = CloseLease(registry.leases[l], Verdict(Oldest(l).outcome))
    BY <1>1, <2>2, <2>3 DEF EndsWell, Pending
  <2> QED BY <2>4 DEF CloseLease
<1>2. SettledInv /\ [Next]_vars =>
        [\A l \in LeaseIds : Ends(l) /\ Fitting(registry, l) # {} =>
            (Oldest(l).due > 0 =>
                registry'.leases[l].state = Verdict(Oldest(l).outcome))]_vars
  BY <1>1
<1> QED BY <1>2, SettledInvariance, PTL DEF Spec, OutcomeWins

\* Without a queued outcome nothing but a dead runtime, a superseded turn or
\* an observed stop ends a lease whose broker is left alone.
THEOREM NeverPreemptedSafe == Spec => NeverPreempted
<1>1. ASSUME SettledInv, [Next]_vars, NEW l \in LeaseIds,
             Ends(l), Fitting(registry, l) = {}
      PROVE  Excused(registry.leases[l])
  <2>1. registry \in Registry /\ Fit(registry, running) /\ OpenLease(registry, l)
    BY <1>1 DEF SettledInv, Inv, Ends
  <2>2. registry.events[l] = <<>>
    BY <1>1, <2>1, FirstFits
  <2>3. EndsWell(registry, registry', l)
    BY <1>1, NextKept DEF Kept, Faithful
  <2> QED BY <2>2, <2>3 DEF EndsWell
<1>2. SettledInv /\ [Next]_vars =>
        [\A l \in LeaseIds : Ends(l) /\ Fitting(registry, l) = {} =>
            LET x == registry.leases[l]
            IN \/ running[x.session] # x.inc
               \/ Supersedes(x)
               \/ phase[x.session] = "stopping"]_vars
  BY <1>1 DEF Excused
<1> QED BY <1>2, SettledInvariance, PTL DEF Spec, NeverPreempted

=============================================================================
