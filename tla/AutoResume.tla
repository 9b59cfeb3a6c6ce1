---------------------------- MODULE AutoResume ----------------------------
(***************************************************************************)
(* Recovery of one session whose turn was refused by its provider          *)
(* (agent-session/src/auto_resume.rs): the record auto-resume.json, the    *)
(* turn activity it is fenced by, the arming calls that run after an       *)
(* activity event was stored and its locks were dropped, the scheduler     *)
(* loop of serve with its one continuation in flight, and the user.        *)
(*                                                                         *)
(* Every operation on the record runs under the session record lock and is *)
(* one action.  The claim of a continuation is made under that lock, which *)
(* is dropped before the text is given to the provider: what happens in    *)
(* between is the subject of this module.  Account failover (the recovery  *)
(* policy next_account_then_resume) and account bindings are left out; of  *)
(* times the model keeps whether a deadline has passed.                    *)
(***************************************************************************)
EXTENDS Integers, FiniteSets

CONSTANTS
    Agents,                  \* providers of the session: "codex", "claude"
    MAX_TRANSIENT_ATTEMPTS,  \* budget of retries, and of capacity continuations
    MaxTurn,                 \* bound: turns of the provider
    MaxRevision,             \* bound: activity revisions
    MaxCalls                 \* bound: different arming calls under way

ASSUME AutoResumeAssumption ==
    /\ Agents \subseteq {"codex", "claude"}
    /\ MAX_TRANSIENT_ATTEMPTS \in Nat \ {0}
    /\ MaxTurn \in Nat
    /\ MaxRevision \in Nat \ {0}
    /\ MaxCalls \in Nat

VARIABLES
    agent,      \* the provider, fixed at creation
    rec,        \* auto-resume.json
    act,        \* the activity projection of the session
    outcome,    \* how each turn ended, if it did: the provider ends a turn in one way only
    calls,      \* arming calls under way: their event is stored, the locks dropped;
                \* any number of processes may be at each of them
    sub,        \* the continuation in flight; its holder has the attempt fence
    queued,     \* a continuation was given to the provider, no turn started since
    \* What the properties remember; no operation reads it.
    writes,     \* continuations given for a turn since the user last intervened, to 2
    dismissed,  \* failed turns the user was told would not be continued
    chain,      \* capacity continuations in a row
    untracked,  \* the last claim lost its process before its outcome was stored
    displaced   \* continued turns whose record an arming of an earlier turn took over

vars == <<agent, rec, act, outcome, calls, sub, queued, writes, dismissed, chain, untracked,
          displaced>>
ghosts == <<writes, dismissed, chain, untracked, displaced>>

Turns == 1..MaxTurn
NoSub == [pc |-> "none"]
Least(a, b) == IF a < b THEN a ELSE b

\* The record's state; "unavailable" is terminal_failure with the failure_reason
\* state_unavailable, the only reason an operation looks at.
States == {"disabled", "enabled", "armed", "scheduled", "checking", "resumed",
           "cancelled", "transient_failure", "terminal_failure", "unavailable"}
Causes == {"none", "usage", "capacity"}
Outcomes == {"completed", "usage", "capacity", "other"}

\* DurableAutoResume.  waits: scheduled_at or next_check_at lies in the future.
\* fallback counts the scheduler errors of a capacity recovery; the same field
\* only picks a delay in a usage recovery, where it is not followed.
Records == [state : States, cause : Causes, turn : 0..MaxTurn,
            rev : 0..MaxRevision, attempt : 0..MAX_TRANSIENT_ATTEMPTS, ever : BOOLEAN,
            fallback : 0..MAX_TRANSIENT_ATTEMPTS, waits : BOOLEAN]

\* TurnState: phase (needs_input is a kind of working here: nothing but waiting is
\* looked for), revision, the turn that ended last and how, the open turn.
Activities == [phase : {"starting", "working", "waiting", "unknown"}, revision : 1..MaxRevision,
               current : 0..MaxTurn, last : 0..MaxTurn, kind : Outcomes \cup {"none", "interrupted"},
               turns : 0..MaxTurn]

Calls == [kind : {"completed", "usage", "capacity"}, turn : Turns, rev : 1..MaxRevision]

\* stale: the user intervened after the claim of this continuation.
Submissions == [pc : {"released", "written", "refused"}, claim : Records, stale : BOOLEAN]

-----------------------------------------------------------------------------
\* set_enabled_locked and reset_enabled_recovery: a record without recovery.
Reset(on) ==
    [state |-> IF on THEN "enabled" ELSE "disabled", cause |-> "none",
     turn |-> 0, rev |-> 0, attempt |-> 0, ever |-> FALSE, fallback |-> 0, waits |-> FALSE]

\* The recovery is over: cancel, cancel_unarmed_capacity, cancel_active_locked and
\* the terminal failures.  What was blocked stays in the file for the view; no
\* operation looks at it again.
Over(state) == [Reset(FALSE) EXCEPT !.state = state]

\* record_retry
Retry(r) ==
    LET n == r.attempt + 1 IN
    IF n >= MAX_TRANSIENT_ATTEMPTS
    THEN Over("terminal_failure")
    ELSE [r EXCEPT !.attempt = n, !.state = "transient_failure", !.waits = TRUE]

\* record_capacity_scheduler_retry
CapacityRetry(r) ==
    LET n == r.fallback + 1 IN
    IF n >= MAX_TRANSIENT_ATTEMPTS
    THEN Over("terminal_failure")
    ELSE [r EXCEPT !.fallback = n, !.state = "transient_failure", !.waits = TRUE]

\* blocked_claim_is_eligible
Eligible(r) == act.phase = "waiting" /\ act.revision = r.rev

\* current_capacity_failure
CapacityFailed == act.current = 0 /\ act.kind = "capacity"

Healthy == act.phase # "unknown"

Init ==
    /\ agent \in Agents
    /\ rec = Reset(FALSE)
    /\ act = [phase |-> "starting", revision |-> 1, current |-> 0, last |-> 0,
              kind |-> "none", turns |-> 0]
    /\ outcome = [t \in Turns |-> "none"]
    /\ calls = {}
    /\ sub = NoSub
    /\ queued = FALSE
    /\ writes = [t \in Turns |-> 0]
    /\ dismissed = {}
    /\ chain = 0
    /\ untracked = FALSE
    /\ displaced = {}

-----------------------------------------------------------------------------
(* The provider and its activity events (activity.rs, reduce).  An event is *)
(* refused while the runtime is marked unhealthy.                           *)

Ingest == Healthy /\ act.revision < MaxRevision

\* turn_started, for input of the user or for a continuation.
TurnStarted(byUser) ==
    /\ Ingest
    /\ act.turns < MaxTurn
    /\ byUser \/ queued
    /\ queued' = (queued /\ byUser)
    /\ act' = [act EXCEPT !.phase = "working", !.revision = @ + 1, !.turns = @ + 1,
                          !.current = act.turns + 1,
                          !.last = IF act.current = 0 THEN @ ELSE act.current,
                          !.kind = IF act.current = 0 THEN @ ELSE "interrupted"]
    /\ chain' = IF byUser THEN 0 ELSE chain
    /\ UNCHANGED <<agent, rec, outcome, calls, sub, writes, dismissed, untracked, displaced>>

\* progress, attention_requested, attention_cleared: a late one opens the turn
\* that ended last again.
Progress ==
    /\ Ingest
    /\ act.current # 0 \/ act.last # 0
    /\ act' = [act EXCEPT !.phase = "working", !.revision = @ + 1,
                          !.current = IF @ = 0 THEN act.last ELSE @]
    /\ UNCHANGED <<agent, rec, outcome, calls, sub, queued, ghosts>>

\* Whether arm_auto_resume_from_event does anything with the end of a turn.
Arms(kind) == kind = "usage" \/ (agent = "codex" /\ kind \in {"capacity", "completed"})

\* turn_completed, turn_failed: the end of the open turn, or a second report on
\* the turn that ended last (completion_admission::applies).
TurnEnded(kind) ==
    LET turn == IF act.current = 0 THEN act.last ELSE act.current
        call == [kind |-> kind, turn |-> turn, rev |-> act.revision + 1]
    IN
    /\ Ingest
    /\ kind = "capacity" => agent = "codex"
    /\ \/ act.current # 0
       \/ act.last # 0 /\ act.kind # kind /\ (agent = "codex" => kind # "completed")
    /\ outcome[turn] \in {"none", kind}
    /\ outcome' = [outcome EXCEPT ![turn] = kind]
    /\ Arms(kind) => Cardinality(calls) < MaxCalls
    /\ act' = [act EXCEPT !.phase = "waiting", !.revision = @ + 1, !.current = 0,
                          !.last = turn, !.kind = kind]
    /\ calls' = IF Arms(kind) THEN calls \cup {call} ELSE calls
    /\ chain' = IF kind = "capacity" THEN chain ELSE 0
    /\ UNCHANGED <<agent, rec, sub, queued, writes, dismissed, untracked, displaced>>

\* The hook or the control connection reports the end of the turn again:
\* retry_admitted lets it arm while nothing was applied since.
Replay ==
    /\ Healthy
    /\ act.phase = "waiting"
    /\ Arms(act.kind)
    /\ Cardinality(calls) < MaxCalls
    /\ calls' = calls \cup {[kind |-> act.kind, turn |-> act.last, rev |-> act.revision]}
    /\ UNCHANGED <<agent, rec, act, outcome, sub, queued, ghosts>>

\* mark_runtime_unhealthy (fail_closed_projection of the app server).
Degrade ==
    /\ Ingest
    /\ agent = "codex"
    /\ act' = [act EXCEPT !.phase = "unknown", !.revision = @ + 1]
    /\ UNCHANGED <<agent, rec, outcome, calls, sub, queued, ghosts>>

-----------------------------------------------------------------------------
(* Arming (arm_auto_resume_from_event): the call takes the record lock again *)
(* after the event's locks were dropped, and gives up after a second.  Codex *)
(* completions arm in a task nobody waits for, in the notify process and in  *)
(* its detached retry, Claude's failures in a hook process each: a call may  *)
(* be overtaken by later turns, and a call that took effect stays, for the   *)
(* other processes that make it (EndCall).                                   *)

\* Whether the record already follows this turn; both armings ask.
SameTurn(c, states) == rec.turn = c.turn /\ rec.state \in states

\* rec.enabled: every operation sets it together with the state.
Enabled == rec.state \notin {"disabled", "cancelled", "terminal_failure", "unavailable"}

Claimed == rec.cause = "capacity" /\ rec.state = "checking"

\* Mutant: a turn that was continued already is armed again.
UsageArmsResumed(c) ==
    /\ Enabled
    /\ ~Claimed
    /\ ~SameTurn(c, {"armed", "scheduled", "checking"})

\* Whether arm_usage_exhaustion takes the failure.
UsageArms(c) ==
    /\ Enabled
    /\ ~Claimed
    /\ ~SameTurn(c, {"armed", "scheduled", "checking", "resumed"})

\* The record has claimed or continued a later turn than the call is about.
Overtaken(c) == c.turn < rec.turn /\ rec.state \in {"checking", "resumed"}

\* arm_usage_exhaustion: unlike arm_provider_capacity it does not ask whether the
\* activity is still at the failure.
ArmUsage(c) ==
    /\ c.kind = "usage"
    /\ rec' = IF UsageArms(c)
              THEN [rec EXCEPT !.state = "armed", !.cause = "usage", !.turn = c.turn, !.rev = c.rev,
                               !.attempt = 0, !.ever = FALSE, !.waits = FALSE]
              ELSE rec
    /\ displaced' = IF UsageArms(c) /\ Overtaken(c) THEN displaced \cup {rec.turn} ELSE displaced
    /\ chain' = IF UsageArms(c) THEN 0 ELSE chain
    /\ UNCHANGED <<agent, act, outcome, calls, sub, queued, writes, dismissed, untracked>>

CapacityArms(c) ==
    /\ Enabled
    /\ ~Claimed
    /\ act.phase = "waiting" /\ act.revision = c.rev
    /\ act.kind = "capacity" /\ act.last = c.turn
    /\ ~(rec.cause = "capacity" /\ SameTurn(c, {"scheduled", "checking", "resumed"}))

\* Mutant: a continuation that fails as a turn of its own starts a new chain.
SameChainOfTurn == rec.cause = "capacity" /\ rec.state = "resumed" /\ rec.turn = act.last

\* preserve_recovery_chain of arm_provider_capacity
SameChain == rec.cause = "capacity" /\ rec.state = "resumed"

\* arm_provider_capacity
ArmCapacity(c) ==
    /\ c.kind = "capacity"
    /\ \/ ~CapacityArms(c) /\ rec' = rec
       \/ /\ CapacityArms(c)
          /\ SameChain /\ rec.attempt >= MAX_TRANSIENT_ATTEMPTS
          /\ rec' = Over("terminal_failure")
       \/ /\ CapacityArms(c)
          /\ ~(SameChain /\ rec.attempt >= MAX_TRANSIENT_ATTEMPTS)
          /\ rec' = [rec EXCEPT !.state = "scheduled", !.cause = "capacity", !.turn = c.turn,
                                !.rev = c.rev, !.ever = TRUE, !.waits = TRUE,
                                !.attempt = IF SameChain THEN @ ELSE 0,
                                !.fallback = IF SameChain THEN @ ELSE 0]
    /\ chain' = IF CapacityArms(c) /\ rec.state = "transient_failure" THEN 0 ELSE chain
    /\ UNCHANGED <<agent, act, outcome, calls, sub, queued, writes, dismissed, untracked,
                   displaced>>

\* complete_provider_capacity_recovery
CompleteCapacity(c) ==
    /\ c.kind = "completed"
    /\ rec' = IF SameChain /\ c.rev > rec.rev THEN Reset(TRUE) ELSE rec
    /\ UNCHANGED <<agent, act, outcome, calls, sub, queued, ghosts>>

\* The last process that makes this call is done, did not get the lock in time, or died.
EndCall(c) ==
    /\ calls' = calls \ {c}
    /\ UNCHANGED <<agent, rec, act, outcome, sub, queued, ghosts>>

-----------------------------------------------------------------------------
(* The user.                                                                *)

\* A record operation of the user.  What it changes counts as an intervention.
UserSets(r) ==
    /\ rec' = r
    /\ writes' = IF r = rec THEN writes ELSE [t \in Turns |-> 0]
    /\ chain' = IF r = rec THEN chain ELSE 0
    /\ UNCHANGED <<agent, calls, untracked, displaced>>

Outdated == IF sub = NoSub \/ rec' = rec THEN sub ELSE [sub EXCEPT !.stale = TRUE]

\* Claude's continuation has left the lock and is not looked at again.
BeyondRecall == IF agent = "claude" /\ sub.pc = "released" THEN {sub.claim.turn} ELSE {}
Dismiss(ts) == dismissed \cup (ts \ BeyondRecall)

\* set_enabled_with_policy, and apply_serve_default on a new session.
SetEnabled(on) ==
    /\ on => Healthy
    /\ rec.state # "unavailable"
    /\ UserSets(Reset(on))
    /\ sub' = Outdated
    /\ dismissed' = IF on THEN {} ELSE Dismiss(1..act.turns)
    /\ UNCHANGED <<act, outcome, queued>>

\* cancel (DELETE)
Cancel ==
    /\ rec.state \notin {"unavailable", "resumed"}
    /\ UserSets(Over("cancelled"))
    /\ sub' = Outdated
    /\ dismissed' = Dismiss(1..act.turns)
    /\ UNCHANGED <<act, outcome, queued>>

\* cancel_active_locked
Active(r) == r.state \in {"armed", "scheduled", "checking", "transient_failure"}

\* A capacity failure that no call has armed yet is fenced like an armed one.
Unarmed(r) == r.state = "enabled" /\ CapacityFailed

Stopped(r) == IF Active(r) \/ Unarmed(r) THEN Over("cancelled") ELSE r
Fenced(r) == IF Active(r) THEN {r.turn} ELSE IF Unarmed(r) THEN {act.last} ELSE {}

\* cancel_for_manual_input_locked
AfterInput(r) == IF r.state = "resumed" THEN Reset(TRUE) ELSE Stopped(r)

\* cancel_for_account_switch_locked
AfterSwitch(r) ==
    IF r.state = "resumed" /\ r.cause = "capacity" THEN Reset(TRUE) ELSE Stopped(r)

\* Text, keys or a turn sent by agent-session or through the app server's proxy.
ManualInput ==
    /\ UserSets(AfterInput(rec))
    /\ sub' = Outdated
    /\ dismissed' = Dismiss(Fenced(rec))
    /\ UNCHANGED <<act, outcome, queued>>

AccountSwitch ==
    /\ UserSets(AfterSwitch(rec))
    /\ sub' = Outdated
    /\ dismissed' = Dismiss(Fenced(rec))
    /\ UNCHANGED <<act, outcome, queued>>

\* A restart cancels like manual input; the new runtime starts at the next
\* revision (activate_runtime) and takes the unhealthy marker away.
Restart ==
    /\ act.revision < MaxRevision
    /\ UserSets(AfterInput(rec))
    /\ act' = [act EXCEPT !.phase = "starting", !.revision = @ + 1, !.current = 0,
                          !.last = IF act.current = 0 THEN @ ELSE act.current,
                          !.kind = IF act.current = 0 THEN @ ELSE "interrupted"]
    /\ sub' = IF sub.pc = "released" THEN [Outdated EXCEPT !.pc = "refused"] ELSE Outdated
    /\ dismissed' = dismissed \cup Fenced(rec)
    /\ queued' = FALSE
    /\ UNCHANGED outcome

\* fail_closed_projection_for_runtime, retried until it gets the lock.
FailClosed ==
    /\ ~Healthy
    /\ Active(rec) \/ rec.state = "enabled"
    /\ rec' = Over("unavailable")
    /\ UNCHANGED <<agent, act, outcome, calls, sub, queued, ghosts>>

-----------------------------------------------------------------------------
(* The scheduler loop of serve.                                             *)

Pending == rec.state \in {"armed", "scheduled", "transient_failure"}
Due == Pending /\ ~rec.waits

\* The deadline of a waiting record passes.
Elapse ==
    /\ Pending /\ rec.waits
    /\ rec' = [rec EXCEPT !.waits = FALSE]
    /\ UNCHANGED <<agent, act, outcome, calls, sub, queued, ghosts>>

\* wake_scheduled_if_usage_open, of a Codex connection that reports open usage.
WakeScheduled ==
    /\ agent = "codex"
    /\ rec.state = "scheduled" /\ rec.ever /\ rec.waits
    /\ rec' = [rec EXCEPT !.waits = FALSE]
    /\ UNCHANGED <<agent, act, outcome, calls, sub, queued, ghosts>>

\* record_scheduler_error: the session was pending when the pass listed it.
SchedulerError ==
    /\ \/ ~Healthy /\ rec' = Over("unavailable")
       \/ /\ Healthy /\ Pending
          /\ rec' = IF rec.cause = "capacity" THEN CapacityRetry(rec) ELSE Retry(rec)
    /\ UNCHANGED <<agent, act, outcome, calls, sub, queued, ghosts>>

\* Mutant: the holder of the fence is not asked for.
TryAttemptAnyway == TRUE

\* notice::try_attempt: the fence is free; otherwise the tick changes nothing.
TryAttempt == sub = NoSub

\* Mutant: a capacity claim is left to its submitter.
TickRecoverUsage ==
    /\ TryAttempt
    /\ rec.state = "checking" /\ rec.cause = "usage"
    /\ rec' = IF act.revision > rec.rev THEN [rec EXCEPT !.state = "resumed"] ELSE Over("terminal_failure")
    /\ UNCHANGED <<agent, act, outcome, calls, sub, queued, ghosts>>

\* A claim nobody holds: its process died or lost the lock.
TickRecover ==
    /\ TryAttempt
    /\ rec.state = "checking"
    /\ rec' = IF act.revision > rec.rev THEN [rec EXCEPT !.state = "resumed"] ELSE Over("terminal_failure")
    /\ UNCHANGED <<agent, act, outcome, calls, sub, queued, ghosts>>

\* No usable answer about usage, or an open window without a reset time.
TickRetry ==
    /\ TryAttempt /\ Due /\ rec.cause = "usage"
    /\ rec' = Retry(rec)
    /\ UNCHANGED <<agent, act, outcome, calls, sub, queued, ghosts>>

\* Exhausted windows: wait for the latest reset.
TickSchedule ==
    /\ TryAttempt /\ Due /\ rec.cause = "usage"
    /\ rec' = [rec EXCEPT !.state = "scheduled", !.ever = TRUE, !.waits = TRUE]
    /\ UNCHANGED <<agent, act, outcome, calls, sub, queued, ghosts>>

\* Open windows right after arming: wait for the nearest reset or probe later.
TickFallback ==
    /\ TryAttempt /\ Due /\ rec.cause = "usage" /\ ~rec.ever
    /\ rec' = [rec EXCEPT !.state = "scheduled", !.ever = TRUE, !.waits = TRUE, !.attempt = 0]
    /\ UNCHANGED <<agent, act, outcome, calls, sub, queued, ghosts>>

Ready == TryAttempt /\ Due /\ (rec.cause = "capacity" \/ rec.ever)

\* capacity_retry_exhausted; session_state_changed; state_unavailable when the
\* runtime is found unhealthy only after its activity was looked at.
TickChanged ==
    /\ Ready
    /\ (rec.cause = "capacity" => rec.attempt < MAX_TRANSIENT_ATTEMPTS) => ~Eligible(rec)
    /\ \E state \in {"terminal_failure"} \cup (IF Healthy THEN {} ELSE {"unavailable"}) :
         rec' = Over(state)
    /\ UNCHANGED <<agent, act, outcome, calls, sub, queued, ghosts>>

\* Mutant: the boundary is looked at again, the record is not.
MatchesBoundary(claim) == Eligible(claim) /\ act.last = claim.turn

\* notice::claimed and notice::matches
Matches(claim) == rec = claim /\ Eligible(rec) /\ act.last = rec.turn

\* The durable claim, and the checks of the send path up to the point where the
\* record lock is dropped; they may refuse.
TickClaim ==
    LET claim == [rec EXCEPT !.state = "checking", !.waits = FALSE,
                             !.attempt = IF rec.cause = "capacity" THEN @ + 1 ELSE @]
    IN
    /\ Ready
    /\ Eligible(rec)
    /\ rec.cause = "capacity" => rec.attempt < MAX_TRANSIENT_ATTEMPTS
    /\ rec' = claim
    /\ \E pc \in {"released", "refused"} :
         /\ pc = "released" => act.last = rec.turn
         /\ sub' = [pc |-> pc, claim |-> claim, stale |-> FALSE]
    /\ untracked' = FALSE
    /\ UNCHANGED <<agent, act, outcome, calls, queued, writes, dismissed, chain, displaced>>

\* The text reaches the provider: Codex after a last look at the record under
\* its lock (dispatch), Claude without one (deliver).
Write ==
    /\ sub.pc = "released"
    /\ agent = "codex" => Matches(sub.claim)
    /\ sub' = [sub EXCEPT !.pc = "written"]
    /\ queued' = TRUE
    /\ writes' = IF sub.stale THEN writes ELSE [writes EXCEPT ![sub.claim.turn] = Least(2, @ + 1)]
    /\ chain' = IF sub.claim.cause = "capacity" THEN chain + 1 ELSE 0
    /\ UNCHANGED <<agent, rec, act, outcome, calls, dismissed, untracked, displaced>>

\* Boundary changed, deadline passed, composer in use, provider gone.
Refuse ==
    /\ sub.pc = "released"
    /\ sub' = [sub EXCEPT !.pc = "refused"]
    /\ UNCHANGED <<agent, rec, act, outcome, calls, queued, ghosts>>

\* The end of tick_inner: the record is only touched if it is still the claim.
Publish(ok) ==
    /\ sub.pc \in {"written", "refused"}
    /\ ok => sub.pc = "written"
    /\ rec' = IF rec # sub.claim THEN rec
              ELSE IF ok THEN [rec EXCEPT !.state = "resumed",
                                          !.fallback = IF rec.cause = "capacity" THEN 0 ELSE @]
              ELSE Over("terminal_failure")
    /\ sub' = NoSub
    /\ UNCHANGED <<agent, act, outcome, calls, queued, ghosts>>

\* The record lock was not free within PROTOCOL_STATE_LOCK_TIMEOUT.
PublishTimeout ==
    /\ sub.pc \in {"written", "refused"}
    /\ sub' = NoSub
    /\ untracked' = TRUE
    /\ UNCHANGED <<agent, rec, act, outcome, calls, queued, writes, dismissed, chain, displaced>>

\* serve dies; the kernel frees the attempt fence.
Crash ==
    /\ sub # NoSub
    /\ sub' = NoSub
    /\ untracked' = TRUE
    /\ UNCHANGED <<agent, rec, act, outcome, calls, queued, writes, dismissed, chain, displaced>>

Provider ==
    \/ \E byUser \in BOOLEAN : TurnStarted(byUser)
    \/ Progress
    \/ \E kind \in Outcomes : TurnEnded(kind)
    \/ Replay
    \/ Degrade

Arming ==
    \E c \in calls : ArmUsage(c) \/ ArmCapacity(c) \/ CompleteCapacity(c) \/ EndCall(c)

User ==
    \/ \E on \in BOOLEAN : SetEnabled(on)
    \/ Cancel
    \/ ManualInput
    \/ AccountSwitch
    \/ Restart

Submission ==
    \/ Write
    \/ Refuse
    \/ \E ok \in BOOLEAN : Publish(ok)
    \/ PublishTimeout

Scheduler ==
    \/ Elapse
    \/ WakeScheduled
    \/ SchedulerError
    \/ TickRecover
    \/ TickRetry
    \/ TickSchedule
    \/ TickFallback
    \/ TickChanged
    \/ TickClaim
    \/ Submission
    \/ FailClosed
    \/ Crash

Next == Provider \/ Arming \/ User \/ Scheduler

Spec == Init /\ [][Next]_vars

\* The loop comes by every 15 seconds and looks at every claim, and a submission
\* has a deadline at every step.
Fairness == WF_vars(TickRecover) /\ WF_vars(Submission)
FairSpec == Spec /\ Fairness

-----------------------------------------------------------------------------
(* Properties.                                                              *)

\* Every variable stays in its set: the attempt and fallback budgets are never
\* passed, and a record names a turn and a revision that exist.
TypeOK ==
    /\ agent \in Agents
    /\ rec \in Records
    /\ act \in Activities
    /\ outcome \in [Turns -> Outcomes \cup {"none"}]
    /\ calls \subseteq Calls
    /\ sub \in Submissions \cup {NoSub}
    /\ queued \in BOOLEAN
    /\ writes \in [Turns -> 0..2]
    /\ dismissed \subseteq Turns
    /\ chain \in Nat
    /\ untracked \in BOOLEAN
    /\ displaced \subseteq Turns

\* The provider is given at most one continuation for a failed turn, however often
\* and by however many processes the failure is reported, the claim is lost or serve
\* dies, until the user sets, cancels or resets the recovery (the unknown outcome of
\* a claim ends it, and a resumed turn is not armed again).  The exception is a turn
\* whose record was thrown away by a delayed usage arming of an earlier turn.
NeverReplayed == \A t \in Turns : writes[t] <= 1 \/ t \in displaced

Wrote(t) == sub.pc = "released" /\ sub'.pc = "written" /\ sub.claim.turn = t

\* Once PUT, DELETE, manual input or an account switch has stopped the recovery of
\* a turn, no continuation of that turn is given to the provider, not even one
\* whose claim was made before: dispatch looks at the record again.  Claude's
\* continuation is not recalled once it has left the lock (BeyondRecall).
UserWins == [][\A t \in dismissed : ~Wrote(t)]_vars

\* At most MAX_TRANSIENT_ATTEMPTS capacity continuations follow each other without
\* a turn of the user, a turn that ended otherwise, an intervention, or an arming
\* that starts to count again: that of a usage failure, or one found after scheduler
\* errors.  A completion that is applied late, when a newer failure was continued,
\* does not give the chain its budget back.
CapacityBudget == chain <= MAX_TRANSIENT_ATTEMPTS

\* A record says resumed only if the continuation was given to the provider, unless
\* its outcome was lost with the process or the lock (TickRecover then guesses).
ResumedIsWritten == rec.state = "resumed" => untracked \/ writes[rec.turn] >= 1

\* A claim does not stay: its submitter publishes an outcome, or the next tick that
\* finds the fence free settles it.
ClaimSettles == rec.state = "checking" ~> rec.state # "checking"
=============================================================================
