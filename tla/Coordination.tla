---------------------------- MODULE Coordination ----------------------------
(***************************************************************************)
(* The coordination registry of agent-session: work claims, operation      *)
(* leases, the completion queue and the brokers that own them              *)
(* (coordination/claims.rs, coordination/broker.rs, coordination/mod.rs).  *)
(*                                                                         *)
(* The registry is one file changed under one flock, so every locked       *)
(* section of the code is one action here.  A section that takes the full  *)
(* lock first runs maintenance (lock_registry_within) and most then run    *)
(* clean_expired; both are functions from registries to registries below.  *)
(* Between two sections of one command anything may happen.                *)
(*                                                                         *)
(* Everything outside the registry is the environment: session records,    *)
(* runtimes, turn activity and heartbeat files.  A probe of it may fail,   *)
(* so each action also draws the Evidence it could obtain.                 *)
(*                                                                         *)
(* Time is a countdown in every record (due, gap, lost): 0 is "elapsed".   *)
(* Tokens, digests and receipts are left out: whoever holds a lease's      *)
(* token knows the lease, and a replayed request changes nothing.          *)
(***************************************************************************)
EXTENDS WorkContext, FiniteSets

CONSTANTS
    Sessions,
    Incarnations,       \* launch identifiers; like the next two, an identifier
    ClaimIds, LeaseIds, \* that nothing mentions any more may be drawn again
    None,               \* no record, no entry
    Inputs,             \* contexts a session may declare
    TargetSets,         \* sets of scopes an operation may target
    ProviderTargetSets, \* sets of provider references it may target
    Checkout,           \* the worktree fingerprint of a session's checkout
    MaxWorktrees,       \* 8 worktree fingerprints in a context
    Descendants,        \* what a lease may name: "none" or a "live" process
    Phases,             \* the turn phases that occur
    Ttl, RenewMargin,   \* CLAIM_TTL_SECS = OPERATION_TTL_SECS; half of it
    Gap, Grace,         \* reconcile's 5 seconds; provision's 10 minutes
    Retention,          \* TERMINAL_RETENTION_SECS
    EventTtl,           \* RECEIPT_TTL_SECS, for queued completion events
    MaxEvents,          \* MAX_SESSION_COMPLETION_EVENTS
    MaxRevision         \* bound: revisions of a claim or a lease

ASSUME InputAssumption ==
    /\ Inputs \subseteq Context
    /\ TargetSets \subseteq SUBSET Scope
    /\ ProviderTargetSets \subseteq SUBSET ProviderRefs
    /\ Checkout \in [Sessions -> Worktrees]
    /\ Descendants \subseteq {"none", "live"}
    /\ {"working", "waiting"} \subseteq Phases
    /\ Phases \subseteq
        {"working", "stopping", "quiet", "needs_input", "waiting", "unknown"}
ASSUME BoundAssumption ==
    /\ {Ttl, RenewMargin, Gap, Grace, Retention, EventTtl,
        MaxEvents, MaxRevision, MaxWorktrees} \subseteq Nat
    /\ RenewMargin <= Ttl
    /\ 0 < Gap /\ 0 < Grace /\ 0 < Retention

BrokerStates == {"ready", "recovering", "degraded", "stopped"}
Open == {"active", "completing", "reconcile_pending"}   \* nonterminal leases
Closed == {"completed", "failed", "abandoned"}
Outcomes == {"pass", "fail"}

\* The declared context with the fingerprint of the session's own checkout.
WithCheckout(s, input) ==
    [input EXCEPT !.worktrees = @ \cup {Checkout[s]}]

Declarable == {WithCheckout(s, input) : s \in Sessions, input \in Inputs}

\* cap: the capability digest is set and its file readable; timed: the record's
\* heartbeat_epoch is a time and not 0; lost: the rest of the replacement grace
\* counted from lost_since_epoch.
Broker == [inc : Incarnations, state : BrokerStates, cap : BOOLEAN,
           timed : BOOLEAN, lost : Nat \cup {None}]

\* due: time left to expires_at while a record is live, time left in the
\* retention window once it is terminal.  Of a terminal record only what the
\* code still reads is kept.
Claim == [session : Sessions, inc : Incarnations, context : Declarable,
          state : {"active"}, revision : Nat, due : Nat]
ClosedClaim == [state : {"released", "expired"}, due : Nat]

\* over: the turn that admitted the lease is no longer the session's current
\* one (their identity digests differ); descendant: the process it names.
Lease == [session : Sessions, inc : Incarnations, claim : ClaimIds,
          targets : SUBSET Scope, provider_targets : SUBSET ProviderRefs,
          state : Open, revision : Nat, due : Nat, gap : Nat, over : BOOLEAN,
          descendant : {"none", "live", "exited"}]
ClosedLease == [session : Sessions, inc : Incarnations, state : Closed, due : Nat]

Event == [revision : Nat, outcome : Outcomes, due : Nat]

\* The registry: completion events are kept per lease, in queue order.
Registry == [brokers : [Sessions -> Broker \cup {None}],
             claims  : [ClaimIds -> Claim \cup ClosedClaim \cup {None}],
             leases  : [LeaseIds -> Lease \cup ClosedLease \cup {None}],
             events  : [LeaseIds -> Seq(Event)]]

ASSUME NoneAssumption ==
    /\ None \notin Nat
    /\ None \notin Broker
    /\ None \notin Claim \cup ClosedClaim
    /\ None \notin Lease \cup ClosedLease
    /\ None \notin Incarnations

VARIABLES
    registry,
    record,     \* the launch the session record names, None without a record
    running,    \* the launch whose runtime is running, or None
    resuming,   \* what a launch in progress would restore: it holds the session
                \* lock (acquire_session_record_lock); None: the lock is free
    phase,      \* the session's turn phase
    armed,      \* launches whose heartbeat sidecar passed its checks and is
                \* about to write the heartbeat file
    beat        \* the launch whose heartbeat file is fresh, or None

env == <<record, running, resuming, phase, armed, beat>>
vars == <<registry, record, running, resuming, phase, armed, beat>>

\* TurnPhase::Working as the controller reads it (controller_state_for_record);
\* "stopping" is a working turn whose stop was observed while its completion
\* evidence is pending.  A working turn silent for long is "quiet": the view
\* that reconciliation reads (state_for_view) shows it as Unknown.
Working == {"working", "stopping", "quiet"}

TypeOK ==
    /\ registry \in Registry
    /\ record \in [Sessions -> Incarnations \cup {None}]
    /\ running \in [Sessions -> Incarnations \cup {None}]
    /\ resuming \in [Sessions -> [launch : Incarnations \cup {None},
                                  phase : Phases \cup {"starting"}] \cup {None}]
    /\ phase \in [Sessions -> Phases \cup {"starting"}]
    /\ armed \in [Sessions -> SUBSET Incarnations]
    /\ beat \in [Sessions -> Incarnations \cup {None}]

Init ==
    /\ registry = [brokers |-> [s \in Sessions |-> None],
                   claims  |-> [c \in ClaimIds |-> None],
                   leases  |-> [l \in LeaseIds |-> None],
                   events  |-> [l \in LeaseIds |-> <<>>]]
    /\ record = [s \in Sessions |-> None]
    /\ running = [s \in Sessions |-> None]
    /\ resuming = [s \in Sessions |-> None]
    /\ phase = [s \in Sessions |-> "starting"]
    /\ armed = [s \in Sessions |-> {}]
    /\ beat = [s \in Sessions |-> None]

-----------------------------------------------------------------------------
(* Reading a registry.                                                     *)

ActiveClaim(R, c) == R.claims[c] # None /\ R.claims[c].state = "active"
OpenLease(R, l) == R.leases[l] # None /\ R.leases[l].state \in Open

\* Mutant: only an active lease holds its claim.
HasActiveLease(R, c) ==
    \E l \in LeaseIds : OpenLease(R, l) /\ R.leases[l].claim = c
                        /\ R.leases[l].state = "active"

\* has_nonterminal_operation
HasOpenLease(R, c) == \E l \in LeaseIds : OpenLease(R, l) /\ R.leases[l].claim = c

\* The active claim of a principal.
Owns(R, c, s, i) ==
    ActiveClaim(R, c) /\ R.claims[c].session = s /\ R.claims[c].inc = i

BrokerOf(R, s, i) == R.brokers[s] # None /\ R.brokers[s].inc = i

\* Mutant: the registry's word is enough, no heartbeat is looked at.
HealthyOnRecord(R, s, i) ==
    BrokerOf(R, s, i) /\ R.brokers[s].state = "ready" /\ R.brokers[s].cap

\* ensure_current_broker, and the renewal conditions of maintenance: the exact
\* broker is ready, its capability is available and its heartbeat is fresh.
Healthy(R, s, i) ==
    /\ BrokerOf(R, s, i)
    /\ R.brokers[s].state = "ready"
    /\ R.brokers[s].cap
    /\ beat[s] = i

\* The session lock is free and the record names launch i
\* (lock_claim_session_authority).
Principal(s, i) == resuming[s] = None /\ i # None

\* An identifier no record of the registry mentions.
FreshClaim(R, c) ==
    R.claims[c] = None
    /\ \A l \in LeaseIds : OpenLease(R, l) => R.leases[l].claim # c
FreshLease(R, l) == R.leases[l] = None /\ R.events[l] = <<>>

\* Mutant: a peer whose broker is not healthy blocks nobody.
ConflictsWithLivePeer(R, s, i, context) ==
    \E c \in ClaimIds :
        /\ ActiveClaim(R, c)
        /\ ~(R.claims[c].session = s /\ R.claims[c].inc = i)
        /\ Healthy(R, R.claims[c].session, R.claims[c].inc)
        /\ Conflict(context, R.claims[c].context)

\* evaluate against every active claim of another principal.
ConflictsWithPeer(R, s, i, context) ==
    \E c \in ClaimIds :
        /\ ActiveClaim(R, c)
        /\ ~(R.claims[c].session = s /\ R.claims[c].inc = i)
        /\ Conflict(context, R.claims[c].context)

-----------------------------------------------------------------------------
(* What one section learns of the world: the sessions whose runtime could  *)
(* be probed, the leases whose descendant could be, and the deleted        *)
(* sessions whose broker stopped long enough ago.                          *)

Evidence ==
    [runtime : SUBSET ({registry.leases[l].session :
                            l \in {x \in LeaseIds : OpenLease(registry, x)}}
                       \cup {registry.claims[c].session :
                            c \in {x \in ClaimIds : /\ ActiveClaim(registry, x)
                                                    /\ registry.claims[x].due = 0}}),
     descendant : SUBSET {l \in LeaseIds : /\ OpenLease(registry, l)
                                           /\ registry.leases[l].descendant = "live"},
     aged : SUBSET {s \in Sessions : record[s] = None /\ registry.brokers[s] # None}]

\* The record's runtime is the one the lease was admitted under, and runs.
RuntimeRunning(x, e) ==
    /\ x.session \in e.runtime
    /\ record[x.session] = x.inc
    /\ running[x.session] = x.inc

DescendantLive(l, x, e) == x.descendant = "live" /\ l \in e.descendant

\* controller_activity_supersedes_lease
Supersedes(x) == x.over /\ phase[x.session] \notin {"starting", "quiet", "unknown"}

\* Mutant: a lease without a live descendant is quiescent.
QuiescentDescendant(l, x, e) == ~DescendantLive(l, x, e)

\* Mutant: only an idle session is quiescent, not one in its next turn.
QuiescentIdle(l, x, e) ==
    ~DescendantLive(l, x, e) /\ x.over /\ phase[x.session] = "waiting"

\* controller_observed_quiescent
Quiescent(l, x, e) == ~DescendantLive(l, x, e) /\ Supersedes(x)

-----------------------------------------------------------------------------
(* Terminal transitions.                                                   *)

CloseLease(x, state) ==
    [session |-> x.session, inc |-> x.inc, state |-> state, due |-> Retention]

CloseClaim(state) == [state |-> state, due |-> Retention]

\* Mutant: an event fits the revision it was accepted at.
FitsExactly(x, event) == x.revision = event.revision

\* drain_completion_event_in_registry: an event fits the revision it was
\* accepted at, or the next one while the lease is no longer active.
Fits(x, event) ==
    \/ x.revision = event.revision
    \/ /\ x.state \in {"completing", "reconcile_pending"}
       /\ x.revision = event.revision + 1

Fitting(R, l) ==
    IF ~OpenLease(R, l) THEN {}
    ELSE {n \in 1 .. Len(R.events[l]) : Fits(R.leases[l], R.events[l][n])}

First(S) == CHOOSE n \in S : \A m \in S : n <= m

\* Mutant: the reported outcome becomes the state.
VerdictAsReported(outcome) == outcome

Verdict(outcome) == IF outcome = "pass" THEN "completed" ELSE "failed"

\* The events of the leases in L, drained in queue order.  The first fitting
\* event closes the lease, so no second one of the same lease can fit.
Drain(R, L) ==
    LET hit == {l \in L : Fitting(R, l) # {}}
        at(l) == First(Fitting(R, l))
    IN [R EXCEPT
          !.leases = [l \in LeaseIds |->
                IF l \in hit
                THEN CloseLease(R.leases[l], Verdict(R.events[l][at(l)].outcome))
                ELSE R.leases[l]],
          !.events = [l \in LeaseIds |->
                IF l \in hit
                THEN SubSeq(R.events[l], 1, at(l) - 1)
                       \o SubSeq(R.events[l], at(l) + 1, Len(R.events[l]))
                ELSE R.events[l]]]

-----------------------------------------------------------------------------
(* Maintenance under the full lock, in the order the code runs it.         *)

RenewClaims(R) ==
    [R EXCEPT !.claims = [c \in ClaimIds |->
        IF /\ ActiveClaim(R, c)
           /\ R.claims[c].due <= RenewMargin
           /\ Healthy(R, R.claims[c].session, R.claims[c].inc)
           /\ record[R.claims[c].session] # None
        THEN [R.claims[c] EXCEPT !.due = Ttl]
        ELSE R.claims[c]]]

\* prune_stale_stopped_brokers
PruneBrokers(R, e) ==
    [R EXCEPT !.brokers = [s \in Sessions |->
        IF /\ s \in e.aged
           /\ R.brokers[s] # None
           /\ R.brokers[s].state = "stopped"
           /\ ~R.brokers[s].cap
           /\ \A c \in ClaimIds : ~Owns(R, c, s, R.brokers[s].inc)
           /\ \A l \in LeaseIds : ~(/\ OpenLease(R, l)
                                    /\ R.leases[l].session = s
                                    /\ R.leases[l].inc = R.brokers[s].inc)
        THEN None
        ELSE R.brokers[s]]]

\* A lease close to its safety TTL is renewed while its own turn works or its
\* descendant lives.  The renewed lease is active again at its old revision.
RenewLeases(R, e) ==
    [R EXCEPT !.leases = [l \in LeaseIds |->
        IF /\ OpenLease(R, l)
           /\ R.leases[l].due <= RenewMargin
           /\ Healthy(R, R.leases[l].session, R.leases[l].inc)
           /\ RuntimeRunning(R.leases[l], e)
           /\ \/ phase[R.leases[l].session] \in Working /\ ~R.leases[l].over
              \/ DescendantLive(l, R.leases[l], e)
        THEN [R.leases[l] EXCEPT !.state = "active", !.due = Ttl, !.gap = 0]
        ELSE R.leases[l]]]

\* Mutant: an inactive expired lease is abandoned whatever is queued for it.
ReclaimUndrained(R, e) ==
    [R EXCEPT !.leases = [l \in LeaseIds |->
        IF /\ OpenLease(R, l)
           /\ R.leases[l].due = 0
           /\ RuntimeRunning(R.leases[l], e)
           /\ Quiescent(l, R.leases[l], e)
        THEN CloseLease(R.leases[l], "abandoned")
        ELSE R.leases[l]]]

\* reclaim_expired_inactive_operations: a queued event decides an expired
\* lease; without a fitting one a provably inactive lease is abandoned.
Reclaim(R, e) ==
    LET expired == {l \in LeaseIds :
                        /\ OpenLease(R, l)
                        /\ R.leases[l].due = 0
                        /\ record[R.leases[l].session] = R.leases[l].inc}
        drained == Drain(R, expired)
    IN [drained EXCEPT !.leases = [l \in LeaseIds |->
            IF /\ l \in expired
               /\ Fitting(R, l) = {}
               /\ RuntimeRunning(R.leases[l], e)
               /\ Quiescent(l, R.leases[l], e)
            THEN CloseLease(R.leases[l], "abandoned")
            ELSE drained.leases[l]]]

Maintain(R, e) ==
    Reclaim(RenewLeases(PruneBrokers(RenewClaims(R), e), e), e)

\* Queued events are in order of acceptance, so the ones past their retention
\* are a prefix of the queue.
Unexpired(queue) ==
    LET young == {n \in 1 .. Len(queue) : queue[n].due > 0}
    IN IF young = {} THEN <<>> ELSE SubSeq(queue, First(young), Len(queue))

\* clean_expired: leases past their TTL fail closed to completing, claims past
\* theirs expire when no lease holds them and their runtime is stopped, and
\* what is past its retention is dropped.
Clean(R, e) ==
    LET leases == [l \in LeaseIds |->
            IF R.leases[l] = None THEN None
            ELSE IF R.leases[l].state = "active" /\ R.leases[l].due = 0
            THEN [R.leases[l] EXCEPT !.state = "completing", !.revision = @ + 1]
            ELSE IF R.leases[l].state \in Closed /\ R.leases[l].due = 0
            THEN None
            ELSE R.leases[l]]
        stopped(x) ==
            /\ BrokerOf(R, x.session, x.inc)
            /\ x.session \in e.runtime
            /\ running[x.session] # x.inc
    IN [brokers |-> R.brokers,
        claims  |-> [c \in ClaimIds |->
            IF R.claims[c] = None THEN None
            ELSE IF /\ R.claims[c].state = "active" /\ R.claims[c].due = 0
                    /\ ~HasOpenLease(R, c)
                    /\ stopped(R.claims[c])
            THEN CloseClaim("expired")
            ELSE IF R.claims[c].state # "active" /\ R.claims[c].due = 0
            THEN None
            ELSE R.claims[c]],
        leases  |-> leases,
        events  |-> [l \in LeaseIds |->
            IF leases[l] # None /\ leases[l].state \in Open
            THEN Unexpired(R.events[l]) ELSE <<>>]]

\* The registries a section may start from: after maintenance, and after the
\* clean_expired most handlers run next.
Maintained == {Maintain(registry, e) : e \in Evidence}
Swept == {Clean(Maintain(registry, e), e) : e \in Evidence}

-----------------------------------------------------------------------------
(* Claims.                                                                 *)

\* A handler that refuses, replays or finds nothing to change has still run
\* maintenance; release, complete and drain have also saved clean_expired.
MaintainOnly(R) == registry' = R /\ UNCHANGED env

CheckoutFits(s, input) ==
    Checkout[s] \in input.worktrees \/ Cardinality(input.worktrees) < MaxWorktrees

ReleaseOwned(R, s, i) ==
    [R EXCEPT !.claims = [c \in ClaimIds |->
        IF Owns(R, c, s, i) THEN CloseClaim("released")
        ELSE R.claims[c]]]

\* The principal's claim is replaced by a new one of revision 1.
NewClaim(R, c, s, i, context) ==
    [ReleaseOwned(R, s, i) EXCEPT !.claims[c] =
        [session |-> s, inc |-> i, context |-> context, state |-> "active",
         revision |-> 1, due |-> Ttl]]

NoOwnedLease(R, s, i) ==
    \A c \in ClaimIds : Owns(R, c, s, i) => ~HasOpenLease(R, c)

\* claim: the subject's record still names this launch (session authority
\* lock), its broker is current, nothing is in flight, nobody conflicts.
ClaimWork(R, s, input) ==
    \E c \in ClaimIds :
        LET i == record[s]
            context == WithCheckout(s, input)
        IN /\ Principal(s, i)
           /\ CheckoutFits(s, input)
           /\ Healthy(R, s, i)
           /\ NoOwnedLease(R, s, i)
           /\ ~ConflictsWithPeer(R, s, i, context)
           /\ FreshClaim(R, c)
           /\ registry' = NewClaim(R, c, s, i, context)
           /\ UNCHANGED env

\* set_declared: only enforce mode refuses a conflict; an unchanged context is
\* kept, and with if_absent any existing one.
SetDeclared(R, s, input, rejectConflict, ifAbsent) ==
    \E c \in ClaimIds :
        LET i == record[s]
            context == WithCheckout(s, input)
        IN /\ Principal(s, i)
           /\ CheckoutFits(s, input)
           /\ Healthy(R, s, i)
           /\ \A k \in ClaimIds : Owns(R, k, s, i) =>
                ~ifAbsent /\ R.claims[k].context # context
           /\ rejectConflict => ~ConflictsWithPeer(R, s, i, context)
           /\ NoOwnedLease(R, s, i)
           /\ FreshClaim(R, c)
           /\ registry' = NewClaim(R, c, s, i, context)
           /\ UNCHANGED env

ClearDeclared(R, s) ==
        LET i == record[s]
        IN /\ Principal(s, i)
           /\ Healthy(R, s, i)
           /\ \E c \in ClaimIds : Owns(R, c, s, i)
           /\ NoOwnedLease(R, s, i)
           /\ registry' = ReleaseOwned(R, s, i)
           /\ UNCHANGED env

\* renew asks for the claim at its current revision and extends it, whatever
\* runs under it.
RenewClaim(R, s, revision) ==
    \E c \in ClaimIds :
        LET i == record[s]
        IN /\ Principal(s, i)
           /\ Healthy(R, s, i)
           /\ Owns(R, c, s, i)
           /\ R.claims[c].revision = revision
           /\ revision < MaxRevision
           /\ registry' = [R EXCEPT !.claims[c].revision = revision + 1,
                                    !.claims[c].due = Ttl]
           /\ UNCHANGED env

\* release does not look at the broker again after authentication.
ReleaseClaim(R, s, revision) ==
    \E c \in ClaimIds :
        LET i == record[s]
        IN /\ Principal(s, i)
           /\ Owns(R, c, s, i)
           /\ ~HasOpenLease(R, c)
           /\ R.claims[c].revision = revision
           /\ registry' = [R EXCEPT !.claims[c] = CloseClaim("released")]
           /\ UNCHANGED env

-----------------------------------------------------------------------------
(* Operation leases.                                                       *)

\* Mutant: a lease that is already completing leaves room for the next one.
IdleUnlessActive(R, s) ==
    \A l \in LeaseIds : OpenLease(R, l) /\ R.leases[l].state = "active" =>
        R.leases[l].session # s

\* The session has no operation in flight, of this launch or an earlier one.
Idle(R, s) == \A l \in LeaseIds : OpenLease(R, l) => R.leases[l].session # s

\* admit, the deciding section: no lease of the session is open, its claim is
\* unexpired and covers the targets, no peer conflicts with the claim, and
\* the session works under a running runtime.
Admit(R, s, targets, providerTargets, descendant) ==
    \E c \in ClaimIds, l \in LeaseIds :
        LET i == record[s]
        IN /\ Principal(s, i)
           /\ Healthy(R, s, i)
           /\ Idle(R, s)
           /\ Owns(R, c, s, i)
           /\ R.claims[c].due > 0
           /\ Covered(R.claims[c].context, targets, providerTargets)
           /\ ~ConflictsWithPeer(R, s, i, R.claims[c].context)
           /\ phase[s] \in Working
           /\ running[s] = i
           /\ FreshLease(R, l)
           /\ registry' = [R EXCEPT !.leases[l] =
                [session |-> s, inc |-> i, claim |-> c, targets |-> targets,
                 provider_targets |-> providerTargets, state |-> "active",
                 revision |-> 1, due |-> Ttl, gap |-> 0, over |-> FALSE,
                 descendant |-> descendant]]
           /\ UNCHANGED env

\* Events of one session in the queue.
Queued(R, s) ==
    UNION {{<<l, n>> : n \in 1 .. Len(R.events[l])} :
            l \in {x \in LeaseIds : R.leases[x] # None /\ R.leases[x].session = s}}

\* complete, first section: the caller holds the token of an open lease at its
\* current revision; its event is persisted.  The caller may be lost here.
CompleteEnqueue(R, l, outcome) ==
           /\ OpenLease(R, l)
           /\ R.leases[l].revision < MaxRevision
           /\ Cardinality(Queued(R, R.leases[l].session)) < MaxEvents
           /\ registry' = [R EXCEPT !.events[l] = Append(@,
                [revision |-> R.leases[l].revision, outcome |-> outcome,
                 due |-> EventTtl])]
           /\ UNCHANGED env

\* drain_completion_events, by complete's second section, by a heartbeat
\* sidecar, or by a reconcile that is then refused.
DrainQueue(R) ==
    /\ registry' = Drain(R, LeaseIds)
    /\ UNCHANGED env

\* The session lock is free and the record names the lease's launch.
Reconcilable(l) ==
    /\ OpenLease(registry, l)
    /\ resuming[registry.leases[l].session] = None
    /\ record[registry.leases[l].session] = registry.leases[l].inc

\* reconcile with the token: it drains first, then needs the exact runtime
\* stopped, or two observations of a superseded turn Gap apart.
Reconcile(l, outcome) ==
    /\ Reconcilable(l)
    /\ \E e \in Evidence :
        LET R == Drain(Maintain(registry, e), LeaseIds)
            x == R.leases[l]
            stopped == running[x.session] # x.inc
        IN /\ registry.leases[l].session \in e.runtime
           /\ OpenLease(R, l)
           /\ stopped \/ Quiescent(l, x, e)
           /\ \/ /\ ~stopped /\ x.state # "reconcile_pending"
                 /\ registry' = [R EXCEPT !.leases[l] =
                        [x EXCEPT !.state = "reconcile_pending",
                                  !.revision = @ + 1, !.gap = Gap]]
              \/ /\ stopped \/ (x.state = "reconcile_pending" /\ x.gap = 0)
                 /\ registry' = [R EXCEPT !.leases[l] =
                        CloseLease(x, Verdict(outcome))]
           /\ UNCHANGED env

\* operator_reconcile_operation, the deciding section: a drained event wins;
\* otherwise the descendant must be stopped and the controller quiescent,
\* where an observed stop of the lease's own turn counts too.
OperatorReconcile(l) ==
    /\ Reconcilable(l)
    /\ \E e \in Evidence :
        LET M == Maintain(registry, e)
            R == Drain(M, {l})
            x == R.leases[l]
        IN /\ OpenLease(M, l)
           /\ \/ /\ Fitting(M, l) # {}
                 /\ registry' = R
              \/ /\ Fitting(M, l) = {}
                 /\ x.descendant # "live"
                 /\ \/ x.session \in e.runtime /\ running[x.session] # x.inc
                    \/ Supersedes(x)
                    \/ ~x.over /\ phase[x.session] = "stopping"
                 /\ registry' = [R EXCEPT !.leases[l] = CloseLease(x, "abandoned")]
           /\ UNCHANGED env

-----------------------------------------------------------------------------
(* Brokers.                                                                *)

\* The open leases of a session that belong to launches in I.
LeasesOf(R, s, I) ==
    {l \in LeaseIds : OpenLease(R, l) /\ R.leases[l].session = s /\ R.leases[l].inc \in I}

\* Mutant: the claims stay.
GiveUpLeases(R, s, I) ==
    [R EXCEPT !.leases = [l \in LeaseIds |->
        IF l \in LeasesOf(R, s, I) THEN CloseLease(R.leases[l], "abandoned")
        ELSE R.leases[l]]]

\* Everything the launches in I hold is given up: claims released, leases
\* abandoned, queued events left to clean_expired.
GiveUp(R, s, I) ==
    [R EXCEPT
        !.claims = [c \in ClaimIds |->
            IF \E i \in I : Owns(R, c, s, i) THEN CloseClaim("released")
            ELSE R.claims[c]],
        !.leases = [l \in LeaseIds |->
            IF l \in LeasesOf(R, s, I)
            THEN CloseLease(R.leases[l], "abandoned")
            ELSE R.leases[l]]]

\* The previous broker's launch still shows life.
PreviousLive(s, previous) == beat[s] = previous.inc \/ running[s] = previous.inc

\* provision, by the launch in progress: the previous launch must be stopped,
\* its leases expired and its broker lost for the replacement grace.
Provision(s) ==
    \E e \in Evidence :
        LET R == Maintain(registry, e)
            i == record[s]
            previous == R.brokers[s]
            replaced == previous # None /\ previous.inc # i
            others == LeasesOf(R, s, Incarnations \ {i})
        IN /\ resuming[s] # None
           /\ replaced =>
                /\ ~PreviousLive(s, previous)
                /\ LeasesOf(R, s, {previous.inc}) # {} =>
                    /\ \A l \in LeasesOf(R, s, {previous.inc}) : R.leases[l].due = 0
                    /\ previous.lost = 0
           /\ ~replaced => others = {}
           /\ registry' = [GiveUp(Clean(R, e), s, Incarnations \ {i}) EXCEPT
                !.brokers[s] = [inc |-> i, state |-> "ready", cap |-> TRUE,
                                timed |-> FALSE, lost |-> None]]
           /\ UNCHANGED env

\* A refused provision saves what it learned of the previous broker: that it
\* lives, or that it is lost from now on.
ProvisionRefused(R, s) ==
        LET previous == R.brokers[s]
            owned == LeasesOf(R, s, {previous.inc})
        IN /\ resuming[s] # None
           /\ previous # None
           /\ previous.inc # record[s]
           /\ \/ /\ PreviousLive(s, previous)
                 /\ previous.lost # None
                 /\ registry' = [R EXCEPT !.brokers[s].lost = None]
              \/ /\ ~PreviousLive(s, previous)
                 /\ owned # {} /\ \A l \in owned : R.leases[l].due = 0
                 /\ previous.lost = None
                 /\ registry' = [R EXCEPT !.brokers[s].lost = Grace]
           /\ UNCHANGED env

\* revoke for launch i: by a command or a sidecar that saw its runtime stopped,
\* or by the exit hook (stop), which had authenticated with the capability.
\* Each read the session record before it took the lock, so by now the record
\* may name another launch.
Revoke(R, s, i) ==
    /\ running[s] # i \/ (BrokerOf(R, s, i) /\ R.brokers[s].cap)
    /\ registry' = [GiveUp(R, s, {i}) EXCEPT !.brokers[s] =
            IF BrokerOf(R, s, i)
            THEN [@ EXCEPT !.state = "stopped", !.cap = FALSE, !.timed = TRUE]
            ELSE @]
    /\ UNCHANGED env

\* expire_stopped_heartbeat, before a resume: the last beat of a launch whose
\* broker is stopped and whose runtime is proved stopped is removed.
ExpireStoppedHeartbeat(R, s) ==
        LET i == record[s]
        IN /\ Principal(s, i)
           /\ BrokerOf(R, s, i)
           /\ R.brokers[s].state = "stopped"
           /\ running[s] # i
           /\ beat[s] = i
           /\ registry' = R
           /\ beat' = [beat EXCEPT ![s] = None]
           /\ UNCHANGED <<record, running, resuming, phase, armed>>

\* The launch ended outside agent-session and left nothing to resolve: its
\* runtime is stopped, its broker retained, its heartbeat silent, and every
\* lease it held is settled.  A failed lease is not.
StoppedOutside(s) ==
    LET i == record[s]
    IN /\ Principal(s, i)
       /\ BrokerOf(registry, s, i)
       /\ registry.brokers[s].state \in {"ready", "degraded", "recovering"}
       /\ running[s] = None
       /\ beat[s] = None
       /\ \A l \in LeaseIds : registry.leases[l] # None =>
            ~(/\ registry.leases[l].session = s /\ registry.leases[l].inc = i
              /\ registry.leases[l].state \notin {"completed", "abandoned"})

\* heartbeat_is_stale asks for a positive heartbeat_epoch, too.
Retirable(s) == StoppedOutside(s) /\ registry.brokers[s].timed

\* retire_locked, under the observational lock: no maintenance runs.
RetireStopped(s) ==
    /\ Retirable(s)
    /\ registry' = [ReleaseOwned(registry, s, record[s]) EXCEPT
            !.brokers[s] = [@ EXCEPT !.state = "stopped", !.cap = FALSE]]
    /\ UNCHANGED env

\* forget_revoked_failed_launch, while the failed launch still holds the lock.
Forget(R, s) ==
        LET i == record[s]
        IN /\ resuming[s] # None
           /\ running[s] = None
           /\ BrokerOf(R, s, i)
           /\ R.brokers[s].state = "stopped" /\ ~R.brokers[s].cap
           /\ \A c \in ClaimIds : ~Owns(R, c, s, i)
           /\ LeasesOf(R, s, {i}) = {}
           /\ registry' = [R EXCEPT !.brokers[s] = None]
           /\ UNCHANGED env

\* A new state, with lost_since_epoch.get_or_insert(now).
MarkLost(b, state) ==
    [b EXCEPT !.state = state, !.lost = IF b.lost = None THEN Grace ELSE b.lost]

\* mark_degraded, by a sidecar that could not tell whether its runtime runs.
\* Its own checks are long past: whatever the broker's state is now, stopped
\* included, it becomes degraded.
MarkDegraded(R, s) ==
        /\ R.brokers[s] # None
        /\ registry' = [R EXCEPT !.brokers[s] = MarkLost(R.brokers[s], "degraded")]
        /\ UNCHANGED env

\* recover_unjournaled up to the sidecar's start: a broker that is not healthy
\* but whose capability and runtime are intact; the heartbeat file is removed
\* unless a recovering sidecar already beats.
RecoverBegin(R, s) ==
        LET i == record[s]
        IN /\ Principal(s, i)
           /\ BrokerOf(R, s, i)
           /\ R.brokers[s].cap
           /\ ~Healthy(R, s, i)
           /\ running[s] = i
           /\ registry' = [R EXCEPT !.brokers[s] =
                IF R.brokers[s].state = "recovering" THEN R.brokers[s]
                ELSE MarkLost(R.brokers[s], "recovering")]
           /\ beat' = IF R.brokers[s].state = "recovering" /\ beat[s] = i THEN beat
                      ELSE [beat EXCEPT ![s] = None]
           /\ UNCHANGED <<record, running, resuming, phase, armed>>

\* recover_unjournaled from the new heartbeat on.  broker reconcile also
\* abandons one quiescent lease, adopt none; neither drains the queue first.
RecoverFinish(s, reconciled) ==
    \E e \in Evidence :
        LET R == Maintain(registry, e)
            i == record[s]
        IN /\ Principal(s, i)
           /\ BrokerOf(R, s, i)
           /\ R.brokers[s].state = "recovering"
           /\ beat[s] = i
           /\ running[s] = i
           /\ \A l \in reconciled :
                l \in LeasesOf(R, s, {i}) /\ Quiescent(l, R.leases[l], e)
           /\ registry' = [R EXCEPT
                !.brokers[s] = [@ EXCEPT !.state = "ready", !.timed = TRUE, !.lost = None],
                !.leases = [l \in LeaseIds |->
                    IF l \in reconciled THEN CloseLease(R.leases[l], "abandoned")
                    ELSE R.leases[l]]]
           /\ UNCHANGED env

\* heartbeat_owner_authorization and the runtime evidence of the record.
SidecarMayBeat(s) ==
    /\ record[s] # None
    /\ BrokerOf(registry, s, record[s])
    /\ registry.brokers[s].state \in {"recovering", "ready"}
    /\ registry.brokers[s].cap
    /\ running[s] = record[s]

\* One round of run_heartbeat_sidecar: the record, the broker index and the
\* runtime are checked without any lock ...
SidecarChecks(s) ==
    /\ SidecarMayBeat(s)
    /\ armed' = [armed EXCEPT ![s] = @ \cup {record[s]}]
    /\ UNCHANGED <<registry, record, running, resuming, phase, beat>>

\* ... and the beat is written some time later, whatever happened meanwhile.
SidecarBeats(s, i) ==
    /\ i \in armed[s]
    /\ record[s] # None
    /\ armed' = [armed EXCEPT ![s] = @ \ {i}]
    /\ beat' = [beat EXCEPT ![s] = i]
    /\ UNCHANGED <<registry, record, running, resuming, phase>>

-----------------------------------------------------------------------------
(* Launches: session records and runtimes, under the session lock.         *)

\* A launch identifier (a UUID in the code) nothing mentions.
FreshLaunch(s, i) ==
    /\ i \notin {record[s], running[s], beat[s]} \cup armed[s]
    /\ registry.brokers[s] # None => registry.brokers[s].inc # i
    /\ \A c \in ClaimIds : ActiveClaim(registry, c) =>
        <<registry.claims[c].session, registry.claims[c].inc>> # <<s, i>>
    /\ \A l \in LeaseIds : registry.leases[l] # None =>
        <<registry.leases[l].session, registry.leases[l].inc>> # <<s, i>>

\* create or resume: every earlier runtime is verified stopped, the record is
\* rewritten, turn activity restarts and the new runtime is started, held.
Launch(s, i) ==
    /\ resuming[s] = None
    /\ running[s] = None
    /\ FreshLaunch(s, i)
    /\ resuming' = [resuming EXCEPT ![s] = [launch |-> record[s], phase |-> phase[s]]]
    /\ record' = [record EXCEPT ![s] = i]
    /\ running' = [running EXCEPT ![s] = i]
    /\ phase' = [phase EXCEPT ![s] = "starting"]
    /\ UNCHANGED <<registry, armed, beat>>

\* activate_ready saw the identity-bound heartbeat; the held agent is released.
LaunchReady(s) ==
    /\ resuming[s] # None
    /\ Healthy(registry, s, record[s])
    /\ resuming' = [resuming EXCEPT ![s] = None]
    /\ phase' = [phase EXCEPT ![s] = "waiting"]
    /\ UNCHANGED <<registry, record, running, armed, beat>>

\* The launching command dies, or cannot prove the new runtime stopped.
LaunchStranded(s) ==
    /\ resuming[s] # None
    /\ resuming' = [resuming EXCEPT ![s] = None]
    /\ UNCHANGED <<registry, record, running, phase, armed, beat>>

\* A failed launch whose runtime is stopped puts the prior record and activity
\* back, even when revoking the new broker failed; a failed create removes the
\* session.
LaunchRolledBack(s) ==
    /\ resuming[s] # None
    /\ running[s] = None
    /\ record' = [record EXCEPT ![s] = resuming[s].launch]
    /\ phase' = [phase EXCEPT ![s] = resuming[s].phase]
    /\ resuming' = [resuming EXCEPT ![s] = None]
    /\ UNCHANGED <<registry, running, armed, beat>>

\* commit_session_delete, after its revoke: the session directory goes, and
\* with it the heartbeat and capability files.
Delete(s) ==
    /\ Principal(s, record[s])
    /\ running[s] = None
    /\ BrokerOf(registry, s, record[s]) => ~registry.brokers[s].cap
    /\ record' = [record EXCEPT ![s] = None]
    /\ beat' = [beat EXCEPT ![s] = None]
    /\ registry' = [registry EXCEPT !.brokers[s] =
            IF @ = None THEN None ELSE [@ EXCEPT !.cap = FALSE]]
    /\ UNCHANGED <<running, resuming, phase, armed>>

-----------------------------------------------------------------------------
(* The rest of the world.                                                  *)

RuntimeExits(s) ==
    /\ running[s] # None
    /\ running' = [running EXCEPT ![s] = None]
    /\ UNCHANGED <<registry, record, resuming, phase, armed, beat>>

\* The sidecar dies or stalls past HEARTBEAT_FRESH_SECONDS.
BeatLapses(s) ==
    /\ beat[s] # None
    /\ beat' = [beat EXCEPT ![s] = None]
    /\ UNCHANGED <<registry, record, running, resuming, phase, armed>>

\* activity_identity_digest changes: the turns of open leases are over.
EndTurn(R, s) ==
    [R EXCEPT !.leases = [l \in LeaseIds |->
        IF OpenLease(R, l) /\ R.leases[l].session = s
        THEN [R.leases[l] EXCEPT !.over = TRUE] ELSE R.leases[l]]]

\* The agent's turn begins or ends.
TurnChanges(s) ==
    /\ running[s] # None
    /\ phase[s] # "starting"
    /\ \E p \in {"working", "waiting"} : phase' = [phase EXCEPT ![s] = p]
    /\ registry' = EndTurn(registry, s)
    /\ UNCHANGED <<record, running, resuming, armed, beat>>

\* The turn stays, what is observed of it changes: an input request, a stop
\* whose completion is pending, lost evidence.
TurnProgresses(s) ==
    /\ phase[s] # "starting"
    /\ \E p \in Phases \ {"waiting", phase[s]} :
        /\ phase[s] = "waiting" => p = "unknown"
        /\ phase' = [phase EXCEPT ![s] = p]
    /\ UNCHANGED <<registry, record, running, resuming, armed, beat>>

DescendantExits(l) ==
    /\ OpenLease(registry, l)
    /\ registry.leases[l].descendant = "live"
    /\ registry' = [registry EXCEPT !.leases[l].descendant = "exited"]
    /\ UNCHANGED env

Down(n) == IF n \in {None, 0} THEN n ELSE n - 1

\* A lease that can still be renewed is at the revision bound.
AtBound(l) ==
    LET x == registry.leases[l]
    IN /\ x.revision >= MaxRevision
       /\ ~x.over \/ x.descendant = "live"

\* Time passes for every record.
Tick ==
    /\ \A l \in LeaseIds : OpenLease(registry, l) => ~AtBound(l)
    /\ registry' = [
        brokers |-> [s \in Sessions |-> IF registry.brokers[s] = None THEN None
            ELSE [registry.brokers[s] EXCEPT !.lost = Down(@)]],
        claims |-> [c \in ClaimIds |-> IF registry.claims[c] = None THEN None
            ELSE [registry.claims[c] EXCEPT !.due = Down(@)]],
        leases |-> [l \in LeaseIds |-> IF registry.leases[l] = None THEN None
            ELSE IF OpenLease(registry, l)
            THEN [registry.leases[l] EXCEPT !.due = Down(@), !.gap = Down(@)]
            ELSE [registry.leases[l] EXCEPT !.due = Down(@)]],
        events |-> [l \in LeaseIds |-> [n \in 1 .. Len(registry.events[l]) |->
            [registry.events[l][n] EXCEPT !.due = Down(@)]]]]
    /\ UNCHANGED env

-----------------------------------------------------------------------------

Claims(R, s) ==
    \/ \E input \in Inputs : ClaimWork(R, s, input)
    \/ \E input \in Inputs, rejectConflict, ifAbsent \in BOOLEAN :
            SetDeclared(R, s, input, rejectConflict, ifAbsent)
    \/ ClearDeclared(R, s)
    \/ \E revision \in 1 .. MaxRevision : RenewClaim(R, s, revision)
    \/ \E revision \in 1 .. MaxRevision : ReleaseClaim(R, s, revision)

Operations(R, s) ==
    \E targets \in TargetSets, providerTargets \in ProviderTargetSets,
       descendant \in Descendants : Admit(R, s, targets, providerTargets, descendant)

Completions ==
    \/ \E R \in Swept :
        \/ \E l \in LeaseIds, outcome \in Outcomes : CompleteEnqueue(R, l, outcome)
        \/ DrainQueue(R)
        \/ MaintainOnly(R)
    \/ \E R \in Maintained : DrainQueue(R) \/ MaintainOnly(R)
    \/ \E l \in LeaseIds, outcome \in Outcomes : Reconcile(l, outcome)
    \/ \E l \in LeaseIds : OperatorReconcile(l)

Brokers(R, s) ==
    \/ ProvisionRefused(R, s)
    \/ \E i \in Incarnations : Revoke(R, s, i)
    \/ ExpireStoppedHeartbeat(R, s) \/ Forget(R, s)
    \/ MarkDegraded(R, s)
    \/ RecoverBegin(R, s)

Sidecars(s) ==
    \/ SidecarChecks(s)
    \/ \E i \in Incarnations : SidecarBeats(s, i)

Lifecycle(s) ==
    \/ \E i \in Incarnations : Launch(s, i)
    \/ LaunchReady(s) \/ LaunchStranded(s) \/ LaunchRolledBack(s)
    \/ Provision(s) \/ RetireStopped(s)
    \/ \E reconciled \in {{}} \cup {{l} : l \in LeaseIds} : RecoverFinish(s, reconciled)
    \/ Delete(s)

World ==
    \/ \E s \in Sessions :
        RuntimeExits(s) \/ BeatLapses(s) \/ TurnChanges(s) \/ TurnProgresses(s)
    \/ \E l \in LeaseIds : DescendantExits(l)
    \/ Tick

Next ==
    \/ \E R \in Swept, s \in Sessions : Claims(R, s) \/ Operations(R, s)
    \/ \E R \in Maintained, s \in Sessions : Brokers(R, s)
    \/ \E s \in Sessions : Lifecycle(s) \/ Sidecars(s)
    \/ Completions
    \/ World

Spec == Init /\ [][Next]_vars

-----------------------------------------------------------------------------
(* Fairness.  Nothing in the code sweeps the registry on a timer: every    *)
(* admit, authenticate and mailbox call does.  FullSweep is such a call    *)
(* whose probes succeed, and fairness of it says that calls keep coming.   *)

FullEvidence == [runtime |-> Sessions, descendant |-> LeaseIds, aged |-> {}]

\* Clean(Maintain(registry, e), e) for that evidence, stage by stage.
FullySwept ==
    LET e == FullEvidence
        renewed == {RenewLeases(R, e) : R \in {RenewClaims(registry)}}
    IN {Clean(R, e) : R \in {Reclaim(Q, e) : Q \in renewed}}

FullSweep == \E R \in FullySwept : MaintainOnly(R)

\* A heartbeat file whose runtime is gone is not rewritten for ever.
DeadBeatLapses(s) == running[s] # beat[s] /\ BeatLapses(s)

Fairness ==
    /\ WF_vars(Tick)
    /\ WF_vars(FullSweep)
    /\ \A s \in Sessions : WF_vars(DeadBeatLapses(s))

FairSpec == Spec /\ Fairness

-----------------------------------------------------------------------------
(* Properties.                                                             *)

\* The context an open lease mutates under.
LeaseContext(R, l) == R.claims[R.leases[l].claim].context

Fenced(R) ==
    \A l \in LeaseIds : OpenLease(R, l) =>
        LET x == R.leases[l]
        IN /\ Owns(R, x.claim, x.session, x.inc)
           /\ Covered(LeaseContext(R, l), x.targets, x.provider_targets)

\* Every open lease is backed by the active claim it was admitted under, of
\* the same session and launch, and its targets still lie inside it: release,
\* replacement, expiry, revocation and retirement never strip a claim from
\* under a running operation (has_nonterminal_operation and its callers).
OperationFence == Fenced(registry)

\* What admit is for: no two open leases, of two sessions or of two launches of
\* one, target overlapping scopes or a common provider reference, whatever
\* expired, crashed, was renewed, replaced or reclaimed in between.
MutationExclusion ==
    \A l, m \in LeaseIds :
        /\ OpenLease(registry, l) /\ OpenLease(registry, m) /\ l # m
        => /\ registry.leases[l].provider_targets
                \cap registry.leases[m].provider_targets = {}
           /\ \A target \in registry.leases[l].targets,
                 other \in registry.leases[m].targets : ~ScopesOverlap(target, other)

\* An active claim is always answered for by the broker of its own launch, and
\* never by a stopped one: revoke, retire and provision give claims up with the
\* broker, prune and forget keep a broker that has one.  clean_expired can only
\* expire a claim whose broker is there to name the runtime.
ClaimAnswered ==
    \A c \in ClaimIds : ActiveClaim(registry, c) =>
        LET x == registry.claims[c]
        IN BrokerOf(registry, x.session, x.inc) /\ registry.brokers[x.session].state # "stopped"

\* An accepted completion is not lost to a revision change: while its lease is
\* open, some queued event of it still fits (drain_completion_event_in_registry
\* against every path that moves a lease's revision).
AcceptedCompletionFits ==
    \A l \in LeaseIds :
        OpenLease(registry, l) /\ registry.events[l] # <<>> => Fitting(registry, l) # {}

\* A lease that ends in a step which leaves the broker alone.
Ends(l) ==
    /\ OpenLease(registry, l)
    /\ ~OpenLease(registry', l)
    /\ LET s == registry.leases[l].session IN registry'.brokers[s] = registry.brokers[s]

\* The oldest queued event that fits.
Oldest(l) == registry.events[l][First(Fitting(registry, l))]

\* A persisted outcome wins: a lease that ends while a fitting event is queued
\* and still retained ends with the outcome of the first such event, even when
\* reconcile asserts another or the lease's TTL has passed (drain before
\* reconcile and before reclaim).
OutcomeWins ==
    [][\A l \in LeaseIds :
        Ends(l) /\ Fitting(registry, l) # {} =>
            (Oldest(l).due > 0 => registry'.leases[l].state = Verdict(Oldest(l).outcome))]_vars

\* Nobody takes a lease from a turn at work: without a queued outcome a lease
\* ends only when its runtime is gone, its turn is known to be superseded, or
\* the stop of that turn was observed.
NeverPreempted ==
    [][\A l \in LeaseIds :
        Ends(l) /\ Fitting(registry, l) = {} =>
            LET x == registry.leases[l]
            IN \/ running[x.session] # x.inc
               \/ Supersedes(x)
               \/ phase[x.session] = "stopping"]_vars

\* A lease whose turn is over is not held for ever: while its launch runs, its
\* turn is known to be superseded and its descendant does not live, it is
\* settled sooner or later (reclaim_expired_inactive_operations).
LeaseReclaimed ==
    \A l \in LeaseIds : []<>~(
        /\ OpenLease(registry, l)
        /\ LET x == registry.leases[l]
           IN /\ running[x.session] = x.inc /\ record[x.session] = x.inc
              /\ Supersedes(x)
              /\ x.descendant # "live")

\* The claim of a launch that is gone does not block its peers for ever: with
\* no lease open under it, it ends (expire_claims), unless the runtime returns.
DeadClaimEnds ==
    \A c \in ClaimIds : []<>~(
        /\ ActiveClaim(registry, c)
        /\ ~HasOpenLease(registry, c)
        /\ running[registry.claims[c].session] # registry.claims[c].inc)

-----------------------------------------------------------------------------
(* The lock that leases implement.                                         *)

\* What a lease locks while it is open.
Held ==
    [l \in LeaseIds |->
        IF OpenLease(registry, l)
        THEN [session |-> registry.leases[l].session,
              context |-> LeaseContext(registry, l)]
        ELSE None]

Lock == INSTANCE MutationLock WITH
    held <- Held, Contexts <- Declarable

\* Claims, leases, sweeps, revocations and renewals together implement the
\* lock of MutationLock: every step ends some leases and grants at most one,
\* to a session that has none and on a context nobody else holds (admit), and
\* no step changes what an open lease has locked.
ImplementsLock == Lock!Spec

-----------------------------------------------------------------------------
(* What the documents say.                                                 *)

\* coordination-runtime-v1.md: a runtime that had been ready and was stopped
\* outside agent-session is retired with broker retire-stopped.
StoppedIsRetirable ==
    \A s \in Sessions : StoppedOutside(s) /\ phase[s] # "starting" => Retirable(s)

\* session-coordination-v1.md: broker loss eventually stales the claim.
LostClaimStales ==
    \A c \in ClaimIds : []<>~(
        /\ ActiveClaim(registry, c)
        /\ registry.brokers[registry.claims[c].session].state = "degraded")

\* claims.rs, reclaim_expired_inactive_operations: unverifiable evidence leaves
\* the lease untouched, so a lease whose descendant lives is not abandoned by
\* a step that leaves its broker alone.
LiveDescendantKept ==
    [][\A l \in LeaseIds : Ends(l) /\ registry'.leases[l] # None =>
        (registry'.leases[l].state = "abandoned" => registry.leases[l].descendant # "live")]_vars

=============================================================================
