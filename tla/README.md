# Verification of nils-cli: agent sessions and their coordination

nils-cli is a Rust workspace of some forty-five command-line tools and
libraries around coding agents. Most of its crates are sequential front ends:
they read files, run `git`, a forge or an agent CLI, and print. The parts with
a concurrency problem of their own are in **agent-session** and, one of them, in
**agent-hook**. agent-session starts agent sessions in tmux; its *coordination
store* lets sessions on one machine (and, by relay, on several) agree on who may
change what, send each other mail and be reminded of it; its server continues
turns that a provider refused. agent-hook leases a Git worktree to a session.
Many short-lived processes share these files: commands run by agents, exit
hooks, a heartbeat sidecar per session, the server, an operator. Any of them can
be killed at any point. This project models those protocols.

Paths below are relative to `src/crates/agent-session/src/` unless they start
with a crate name; `map` in PROJECT.json gives the lines of every definition.

## 1. Inventory

| Part | State it keeps | Operations |
| --- | --- | --- |
| Work contexts (`coordination/context.rs`) | none; a pure algorithm | `validate_and_canonicalize`, `scopes_overlap`, `scope_covers`, `evaluate` |
| Claims (`coordination/claims.rs`) | `registry.claims`: one active work context per launch, with revision and TTL | `claim`, `set_declared`, `clear_declared`, `renew`, `release`, expiry in `clean_expired` |
| Operation leases (`claims.rs`, `server.rs`) | `registry.operations`, `registry.completion_events` | `admit`, `complete` (two locked sections), `drain_completion_events`, `reconcile`, operator reconciliation, TTL renewal and reclaim |
| Brokers (`coordination/broker.rs`, `retirement.rs`) | `registry.brokers`, capability file, heartbeat file | `provision`, `activate_ready`, `revoke`, `stop`, `expire_stopped_heartbeat`, `retire-stopped`, `forget_revoked_failed_launch`, `adopt`/`reconcile`, `mark_degraded`, the heartbeat sidecar |
| Heartbeat index (`coordination/heartbeat_state.rs`) | `broker-state.json` beside `registry.json` | `persist_with_commit`, `initialize`, `refresh_completion`, `load`, `completion_drain_needed` |
| Mailbox (`mailbox*.rs`, `receipt_retention.rs`) | messages, cursors, idempotency receipts, quotas | send, reply, forward, inbox, ack, wait, retention |
| Reminders (`notification.rs`, `notification_*.rs`, `serve.rs`) | one notification receipt per launch | schedule, attempt, submitted / failed / unknown, reconcile, the server's pass over all recipients |
| Federation (`remote.rs`, `forwarding.rs`, `service.rs`) | outbox journal, relay receipts | submit, drain, receive, replay, failure notices |
| Automatic resume (`auto_resume.rs`) | `auto-resume.json` of a session | PUT, DELETE, manual input, arming after a failed turn, the scheduler's tick, the continuation |
| Workspace lease (`agent-hook/src/workspace_lease.rs`) | one state file per worktree | `bind`, `begin`, `complete`, `renew`, `release` |
| Advisories, delegation, audit, console | advisory and delegation records | read-mostly projections |

Around them: the **session lifecycle** (`lib.rs`, `delete_recovery.rs`,
`runtime_teardown.rs`: create, resume, roll back, delete, under a per-session
lock), **turn activity** (`activity.rs` and `activity/`: the phase of the
agent's turn and its identity), `serve`, `send`, the provider adapters.
PROJECT.json lists all components with what is and is not modelled.

### How the parts interact

Everything in `registry.json` changes under one `flock`. A process that takes
the full lock first runs *maintenance* (`lock_registry_within`): claims near
their TTL are renewed when their broker is healthy, dead stopped brokers are
pruned, leases near their TTL are renewed while their own turn works, and
expired leases are settled. Most handlers then run `clean_expired`. So every
command also moves other sessions' records, judged by evidence (is the runtime
running, is the descendant alive, which turn is it) that is read outside the
registry and may be unavailable. Commands that need two locked sections
(`complete`, recovery, deletion after revocation, a resume) let everybody else
in between them. Sidecars check without the lock and write their heartbeat
later. The session lock (`acquire_session_record_lock`) orders launches, claims
and recoveries of one session, but not revocation, draining or the sweeps.

The server's notification pass reads the registry, drops the lock, submits to
the provider and takes the lock again to store the outcome; a receipt in
`attempting` is at the same time the fence that keeps the launch from being
replaced. The outbox worker posts to the relay without any lock and saves the
attempt afterwards. An activity event is stored, its locks are dropped, and only
then does auto resume arm; its scheduler claims under the record lock, and the
text reaches the provider after that lock was handed on or dropped. The
workspace lease decides each command under its own file lock, but the tools it
is about run outside it.

### What is hard

Deciding when a lease is over although nobody reported it; keeping the outcome
a caller was told is recorded; never taking a lease from a turn at work;
replacing the broker of a launch that died in an unknown state; a record that
expires while something runs under it; a save of two files that stops half way;
unlocked readers; writers of an older release; a prompt, a message or a
continuation whose outcome is lost and which must not be given twice; a relay
that repeats late; a receipt that made room for another; a user who cancels
what is already on its way. `hazards` in PROJECT.json has them line by line with
the property that covers each.

### What makes each part correct

* contexts: overlap and coverage mean what they say of files;
* leases: no two open leases touch the same thing, each is backed by a live
  claim, a recorded outcome decides, a finished turn's lease goes away;
* claims: never without the broker that could let them expire, and gone some
  time after their runtime is;
* heartbeat index: grants no more than the registry, hides no queued completion;
* reminders: no unread mail without a receipt that covers it, no generation
  prompted twice, urgent mail not held back, a queued reminder gets tried;
* federation: a message enters a mailbox once, the reported outcome is true, and
  a failure is told;
* automatic resume: at most one continuation per failed turn, none after the
  user stopped it, a bounded chain, no claim that stays;
* workspace lease: tools run for the session that has the worktree, a call is
  granted once, one outcome is recorded, unfinished files change hands only
  deliberately.

## 2. Modules

| Module | Content |
| --- | --- |
| `WorkContext` | scopes, contexts, `ScopesOverlap`, `ScopeCovers`, `Conflict`, `Covered` |
| `MutationLock` | abstract specification: a lease is a lock on a work context |
| `Coordination` | claims, leases, queue, brokers, sidecars, launches, and the world around them; extends `WorkContext`, instantiates `MutationLock` |
| `HeartbeatIndex` | the two files, the stages of a save, unlocked readers, older writers |
| `Notification` | mail and its reminder receipts, the server's pass, the submission in flight, the policy hook |
| `Remote` | journal, outbox worker, relay, receiving mailbox with its receipts, failure notices |
| `WorkspaceLease` | the lease on one worktree, its callers and their tools |
| `AutoResume` | the recovery record, the activity it is fenced by, the arming calls, the scheduler, the user |
| `MCWorkContext`, `MCCoordination`, `MCHeartbeatIndex`, `MCNotification`, `MCRemote`, `MCWorkspaceLease`, `MCAutoResume` | TLC instances |
| `ContextProofs` | theorems about scopes: overlap is a common file, coverage is containment |
| `CoordinationProofs` | facts about contexts (`CoveredApart`) and registries (`Keeps`); types, the fence, mutual exclusion, the refinement |
| `CompletionProofs` | extends `CoordinationProofs`: who answers for a claim, how a lease ends |
| `HeartbeatIndexProofs`, `NotificationProofs`, `RemoteProofs`, `WorkspaceLeaseProofs`, `AutoResumeProofs` | the theorems about these components |

An operator whose comment begins with "Mutant" is a plausible mistake in the
definition that follows it; putting it in that definition's place makes a run
fail, which is how we know that the property of the run depends on the code
(`mutants` in PROJECT.json).

### Coordination: state and actions

`registry` is the file: `brokers` by session, `claims`, `leases` and the queued
completion `events` of each lease. The other variables are what the code reads
elsewhere: `record` (the launch in the session record), `running` (the runtime),
`resuming` (a launch in progress, which holds the session lock, and what it
would restore), `phase` (turn activity), `beat` (whose heartbeat file is fresh)
and `armed` (sidecars between their checks and their write).

* A locked section is one action. It starts from `Maintained` or `Swept`, the
  registries that maintenance, or maintenance and `clean_expired`, can produce
  from the current one; the choice is over the `Evidence` its probes obtain. A
  section that refuses, replays or finds nothing is `MaintainOnly`.
* `complete` is `CompleteEnqueue` and a later `DrainQueue` by anyone; recovery
  is `RecoverBegin` and `RecoverFinish`; a resume is `Launch`, `Provision` or
  `ProvisionRefused`, then `LaunchReady`, `LaunchStranded` or
  `LaunchRolledBack`; deletion is `Revoke` then `Delete`; a sidecar round is
  `SidecarChecks` then `SidecarBeats`. A crash between two sections is the
  absence of the second.
* `Revoke` takes any launch, because its caller read the session record before
  it waited for the lock.
* Time is a countdown in every record (`due`, `gap`, `lost`); `Tick` moves all
  of them. Of terminal records only what the code still reads is kept.
* `over` says that a lease's `activity_identity_digest` no longer equals the
  current one. The phase `stopping` is a working turn whose stop was observed
  with its completion pending; `quiet` is a working turn that is silent for
  long: admission and renewal see it as working, reconciliation as unknown.
* Left out as data: tokens and digests (whoever holds a token knows the lease),
  idempotency receipts (a replay changes nothing), texts, generations (the
  launch identifier determines them).

### HeartbeatIndex: state and actions

`registry`/`version` and `index` are the two files, `version` standing for the
file's identity. The holder of the flock goes through `Lock`, `Initialize`,
`Seed`, `PublishFence`, `Commit`, `PublishNext` (or `RefreshCompletion`), and
`FailOrCrash` may end it at every point. The reader is a sidecar:
`LoadIndex`, `LoadSnapshot`, `Decide`. `LegacyCommit` is a release from before
the index. What a save writes is any registry.

### Notification: state and actions

`reg` is the part of the registry that reminders use: messages, one receipt per
launch and the generation of each receipt's record (`epoch`, so that a receipt
that retention dropped is told from its successor). `launch`, `alive` and
`route` are the recipient's launch and how the server can reach it (native send,
structured app server, policy hook, not at all); `keys` are the guarded-send
keys already used, files that are never deleted.

* `Send`, `SendRejected` (the quota), `Show`, `Ack`, `MessageAges` are the
  mailbox side; each includes the receipt's normalisation and retention.
* The server's pass first observes what became of earlier attempts (`Observe`),
  then for each recipient claims the receipt (`DispatchBegin`), submits
  (`SubmitTaken`, `SubmitLate` or a refusal) and stores the outcome; `Pass` has the
  other steps of its loop. `phase`, `todo` and `task` are where the
  pass is. `flight`, `landed` and
  `doubled` are the prompts on their way, the ones that arrived and the
  generations that arrived twice; `LateArrival` and `LateLoss` settle a prompt
  after the server called its outcome unknown.
* `Reminder` is the policy hook, which may take a generation the server does
  not. `Stop`, `Die`, `Resume` are the recipient's launches, `Crash` and
  `Restart` the server.
* Times are relative (`wait`, `since`, `aged`); `Tick` moves them.
* `Kinds` is what is sent and which policy it meets: quiet (suppressed), urgent,
  and the routine interval. Of a message that is no longer unread only its
  retention is kept (`Handled`). `generation` and `window` of a message are
  histories.

### Remote: state and actions

`items`, `retained` and `parent` are the source's journal. A submission is
`Begin`, then `Commit` or `Replay`, since the replay check and the commit are two
locked sections; `CrashInCommit` dies between the two files. The outbox worker
(`drain`) picks a message (`DrainPick`), posts, gets an answer or none, saves and
tells failures; `notices` is its cursor. `DrainFails` is a lock that is not free
in time or a save that fails at any of these points: the pass ends, and what was
posted is not counted. `late` holds posted copies the relay may
still hand over (`LateArrives`), any number of times. On the destination `inbox`
and `receipts`; `arrivals`, `evicted` and `lost` are histories that only the
properties read. `SrcChanges`, `DstReplaced`, `Ack`, `Crash` and `Tick` are the
world. The relay is not in the repository: it may lose a request or its answer,
refuse, or repeat.

### WorkspaceLease: state and actions

`lease` is the state file; `dirty` and `head` the worktree; `asked`, `offered`,
`issued`, `granted` and `acks` everything that callers were told, so that any
command may be repeated or come late; `started` and `running` the tools.
`Bind`, `BindDenied`, `Begin`, `BeginAgain`, `Complete`, `Renew`, `Release` are the
commands, each one locked section; `StartTool`, `EndTool` and `Edit` the callers,
`Tick` the clock. The caller (the DSH runtime) is not in the repository: it is
assumed to start a tool only under a grant, once, and to complete the operation
when the tool is over.

### AutoResume: state and actions

`rec` is `auto-resume.json`, `act` the activity projection, `calls` the arming
calls whose event is stored and whose locks are dropped (several at a time, and a
call that took effect may be made again by another process until `EndCall`),
`sub` the continuation in flight, `queued` a continuation given and not yet
started. `writes`, `dismissed`, `chain`, `untracked` and `displaced` are
histories. `Provider` has the turns and their failures (reported again at will),
`Arming` the calls that arrive, late or repeatedly, or are lost, `User` PUT, DELETE, manual input, account switch and restart, `Scheduler`
the tick (`TickRecover`, `TickRetry`, `TickSchedule`, `TickFallback`,
`TickChanged`, `TickClaim`), the `Submission` (`Write`, `Refuse`, `Publish`,
`PublishTimeout`), `FailClosed` and `Crash`. `Over` forgets the data of a recovery
that ended where no operation reads it any more.

## 3. Runs

| Run | Instance | Shows |
| --- | --- | --- |
| `coordination` | 1 session, 2 launches, 1 claim and 1 lease identifier, every action of `Next`, symmetry over launches | `TypeOK`, `OperationFence`, `ClaimAnswered`, `AcceptedCompletionFits`, `NeverPreempted` |
| `coordination_pair` | 2 sessions, 2 areas, 3 claims, 2 leases, from two ready sessions | `MutationExclusion`, `ImplementsLock` |
| `coordination_turns` | 1 launch, all six phases, descendants, TTL 2 with renewal, 2 queued events, fairness, no symmetry | `AcceptedCompletionFits`, `OutcomeWins`, `NeverPreempted`, `LeaseReclaimed`, `DeadClaimEnds` |
| `heartbeat_index` | 1 session, 2 authorities, 3 commits, with and without older writers | `AuthorityIsCommitted`, `SkipIsSafe` |
| `work_context` | 2 repositories, paths of up to 3 of 2 components, all pairs of scopes | `OverlapIsShared`, `CoverIsContained` |
| `notification` | 2 launches, 1 message of any kind, room for 1 and its quota signals, 3 generations, 1 death of the server, every route but native | `TypeOK`, `NoDoubleWake`, `NoSilentMail`, `AttemptOnRunning` |
| `notification_mail` | 1 launch, 2 messages (routine or urgent, under a window), the quota signal, native route, fairness | `NoSilentMail`, `UrgentBypasses`, `QueuedIsTried` |
| `notification_key` | native route, violation expected | `WakeKeyUnused`, a statement the code does not keep (section 6) |
| `remote` | 1 message (a reply), 2 launches of the recipient, 1 crash, failing locks and saves, fairness | `AtMostOnce`, `OutcomeIsTrue`, `ReplySettles`, `OutcomeReached`, `FailureIsTold` |
| `remote_pair` | 2 messages, a journal with room for one queued message, one receipt per principal | `KeyNamesOneMessage`, `AtMostOnce`, `LiveReceiptKept` |
| `workspace_lease` | 2 sessions, 2 calls, 3 bindings, 2 operations, 1 commit, room for 1 recorded operation | `RunningIsFenced`, `OneGrantPerCall`, `OneOutcome`, `HandoverIsDeliberate` |
| `auto_resume` | Codex or Claude, 3 turns, budget 2, 7 revisions, 2 arming calls under way, fairness | `NeverReplayed`, `CapacityBudget`, `ResumedIsWritten`, `UserWins`, `ClaimSettles` |

What the properties say:

* `OperationFence`: an open lease is backed by the active claim of its own
  launch and stays inside it.
* `MutationExclusion`: no two open leases target overlapping scopes or one
  provider reference.
* `ImplementsLock`: the registry refines `MutationLock`: each step ends some
  leases and grants at most one, to a session that keeps none and on a context
  that conflicts with no kept one; an open lease's context never changes.
* `ClaimAnswered`: an active claim has the broker of its own launch, and that
  broker is not stopped.
* `AcceptedCompletionFits`: while a lease is open and has queued completions,
  one of them still fits its revision and state.
* `OutcomeWins`: a lease that ends with a retained, fitting completion queued
  ends with that outcome, whatever reconcile asserts.
* `NeverPreempted`: otherwise it ends only when its runtime is gone, its turn is
  known to be superseded or the turn's stop was observed. Both are stated for
  steps that leave the session's broker alone: revocation, replacement and
  recovery give leases up by decision.
* `AuthorityIsCommitted`, `SkipIsSafe`: the index grants no more than the
  registry (without older writers), and a skipped drain overlooks nothing (with
  them too).
* `NoDoubleWake`: a generation prompts the provider at most once, across a death
  of the server between submission and outcome, a prompt that lands after its
  outcome was called unknown, and the server and the hook together.
* `NoSilentMail`: unread mail always has a receipt of its launch that covers it
  and does not count it as announced or drained by mistake.
* `UrgentBypasses`: urgent mail that nobody announced and that was admitted under
  a routine window, to the launch it is still for, is due at once, whatever mail
  follows it. Urgent mail admitted without a window or carried to a later launch
  is not covered, because the code does hold it back (`UrgentNeverHeld`,
  section 6).
* `AttemptOnRunning`: between `begin_attempt` and the outcome, the recipient's
  launch is the one the prompt goes to, as long as the claimed receipt is there.
* `AtMostOnce`: a message, and the notice about it, enters a mailbox once unless
  its receipt was evicted to make room.
* `OutcomeIsTrue`: what the journal calls delivered was stored; what it calls
  rejected was not and cannot be any more, unless a death, a lock that was not
  free or a save that failed lost the trace of a post.
* `ReplySettles`: a reply that left the outbox has settled its obligation.
* `KeyNamesOneMessage`: one idempotency key, one message, while the journal
  remembers it; racing submissions included.
* `LiveReceiptKept`: the receipt of live mail is never given up, not even at
  capacity.
* `RunningIsFenced`: a tool that runs works for the session that has the
  worktree, under an operation still recorded as active.
* `OneGrantPerCall`, `OneOutcome`: a call is granted one operation unless its
  record was compacted away; repeated and contradicting completions are
  acknowledged with one outcome.
* `HandoverIsDeliberate`: uncommitted changes reach another session only by a
  release, or by a takeover of exactly the binding and commit it was shown.
* `NeverReplayed`: a failed turn gets at most one continuation until the user
  intervenes, however often and by however many processes its failure is
  reported, unless a delayed arming of an earlier turn displaced its record
  (`displaced`; section 6).
* `CapacityBudget`: capacity continuations in a row are bounded, also when the
  completion of an earlier turn is armed late.
* `ResumedIsWritten`: `resumed` means given to the provider, unless the outcome
  was lost with the process.
* `UserWins`: after the user stopped a recovery no continuation of that turn is
  given, also when it was claimed before. Claude's continuation, once it has left
  the lock, is excepted (`BeyondRecall`; section 6).
* `LeaseReclaimed`, `DeadClaimEnds`, `QueuedIsTried`, `OutcomeReached`,
  `FailureIsTold`, `ClaimSettles`: section 4.

The type invariants of `HeartbeatIndex`, `Remote`, `WorkspaceLease` and
`AutoResume` are proved for every instance and not repeated in the runs.

### Bounds

**Coordination.** One session is enough for the properties about one lease and
its claim, because the registry relates sessions only through conflicts, and
those are what the pair run is for. Two launches let one replace, roll back to
and outlive the other; identifiers that nothing mentions are drawn again, so
behaviours with many launches, claims and leases are explored. A TTL of 1
already separates fresh, expired and settled; the turns run takes 2 with a
margin of 1, so that a lease can be renewed before, at and after its margin.
`MaxRevision` bounds revisions in the guards of `RenewClaim`, `CompleteEnqueue`
and, through `AtBound`, `Tick`; two revisions are the accepted one and the one
after `clean_expired` or a reconciliation. `MaxEvents` is reached, so a full
queue occurs. In the pair run the declared contexts conflict with themselves and
not with each other, and `set_declared` is used in its non-refusing mode, so
conflicting claims do coexist and only `admit` keeps the leases apart. The pair
and turns runs start from ready sessions, a state that `Launch`, `Provision`,
`SidecarChecks`, `SidecarBeats`, `LaunchReady` and `TurnChanges` reach, and leave
out the broker actions that the full run has. Symmetry is used only where no
liveness is checked.

**Notification.** Two launches are one replacement, across which mail is
carried; the last launch of the bound does not end, so that what follows the end
of a launch is seen at the first. A message that is gone is not sent again: one
message is one arrival, of every kind, which fills the mailbox, so that its alert
and the signals of rejected sends follow (`MaxEpoch` bounds the receipts that
these and retention can make and drop in turn). Newer mail, coalescing and
urgency need two messages, in a run of their own on the native route: the first
brings the alert, the second is newer mail behind it, so a receipt goes through
three generations (one prompted, one in flight, one new), and after retention
dropped it through the same numbers again. `Kinds` is reduced in that run to mail
under a window: quiet mail and interval 0 beside other mail are left to the
theorems, which have no such bound. The native route is left out of the first
run: apart from the record of used wake keys, each of its steps is one of the
structured route. One death of the server lies between any two of its steps.

**Remote.** One message with one death of the daemon, both ends changing, until
after its notice; two messages in the second run, where the journal and the
receipts have room for one, so that eviction and the full queue occur. The clock
goes one step past expiry, where the retention of identities begins. In the
second run TLC tells states apart only by what that run's properties and the
guards read (`PairView`): without `lost`, `parent` and the number of attempts, and
with the two failed outcomes, and the refusals that lead to them, as one. No guard
reads what is left out, and it feeds nothing but itself. A cursor that another
message's compaction outdates, and a full mailbox, do not meet `FailureIsTold`,
whose run has one message.

**WorkspaceLease.** Three bindings are an owner, its taker and a third that
comes late; room for one operation makes compaction happen at every second
call.

**AutoResume.** Three turns are one more capacity failure than the budget of
two. Seven revisions cover them. `MaxCalls` is 2: Codex ingests and arms a
completion in a task that nobody waits for (`turn_outcome.rs`), the notify process
and its detached retry arm the same one (`activity.rs`), so a call about one turn
can be under way while the next is stored and armed, and every call may be made
more than once. The theorems have no bound on the calls.

`CHECK_DEADLOCK FALSE` stands where the bounds run out and the system may rest
(reminders, federation, workspace lease); the other runs check for deadlock.
The theorems remove the bounds for the properties they cover.

## 4. Fairness

**Coordination.** Nothing sweeps the registry on a timer: the server's
notification poll uses the observational lock, and sidecars drain only when the
index says so. But every admission, authentication by a full-lock command,
mailbox call and each round of a mailbox wait runs maintenance. `FullSweep` is
such a call whose probes succeed, and its weak fairness says that calls keep
coming. `Tick` is the clock. `DeadBeatLapses` says that the heartbeat file of a
launch that no longer runs is not rewritten for ever: a sidecar passes its checks
only while its runtime runs, and stale beats age out after
`HEARTBEAT_FRESH_SECONDS`. No fairness is assumed of agents, operators, launches
or recoveries. Under it:

* `LeaseReclaimed`: a lease whose launch runs, whose turn is known to be
  superseded and whose descendant does not live is settled;
* `DeadClaimEnds`: a claim with no open lease whose runtime is gone ends.
  `clean_expired` wants a stored runtime identity and a positive proof that it
  stopped. The property assumes both: where the identity was never stored, or the
  platform cannot give the proof, the claim stays until a resume, a deletion or an
  operator.

There is no such property for leases of a dead launch: those wait, by design,
for a resume, a deletion or an operator.

**Notification.** The server polls every second and its supervisor restarts it
(weak fairness of `Pass`, `Restart` and `Tick`); the recipient is now
and then idle when the pass comes by (strong fairness of `DispatchBegin`).
`QueuedIsTried`: a generation that is queued for a running, reachable recipient
does not stay queued, through newer mail and quota signals, unless it is a
generation whose send key exists already (section 6, `notification_key`).

**Remote.** The worker's steps have deadlines (the HTTP client gives up), so they
are weakly fair; a queued message is picked again and again, because the worker
takes the one with the oldest retry deadline (strong fairness of `DrainPick` for
each message). A pass may fail at a lock or a save and comes again after five
seconds; the locks are held for one reading and writing of files, so one who
keeps trying gets them (strong fairness of `DrainSave` for each message, of
`Refresh` and of `Deliver`). `OutcomeReached`: a message that expired leaves the
queue, and with an outcome unless the retention of its identity had passed first
(section 6); `FailureIsTold`: a failure is told as long as there is someone to
tell. Nothing is assumed of the relay.

**AutoResume.** The loop comes by every 15 seconds and looks at every claim (weak
fairness of `TickRecover`), and each step of a submission has a deadline
(`Submission`). `ClaimSettles`: a record does not stay `checking`.

## 5. Proofs

All theorems hold for every value of the constants that satisfies the named
assumptions (`InputAssumption`, `BoundAssumption`, `NoneAssumption` of
`Coordination`; `NoAuthorityAssumption`, `MaxCommitsAssumption`,
`LegacyAssumption`, `NoneAssumption` of `HeartbeatIndex`; `TreeAssumption` of
`MCWorkContext`, `NotificationAssumption`, `RemoteAssumption`,
`WorkspaceLeaseAssumption`, `AutoResumeAssumption`); TLC evaluates the
assumptions in every run. Every invariant and every action property of
the runs is the statement of a theorem; what is left to TLC is liveness. The
inductive invariants were checked by TLC on the instances of the runs before
they were proved.

**Work contexts** (`ContextProofs`): `OverlapTheorem`, `CoverTheorem`, for a
tree of any depth over any components that are not none. Two directories above
one path lie on one line (`OnOneLine`), which is why comparing prefixes in both
directions finds every common file; that what overlaps a covered target overlaps
the claim follows from the two readings as sets of files.

**Coordination** (`CoordinationProofs`): `TypeCorrect`, `FenceSafe`,
`ExclusionSafe`, `Refinement`. `MutationExclusion` is not inductive: it says
nothing of claims. The inductive invariant is
`Inv == registry \in Registry /\ EnvOK /\ Safe(registry)`, where `Safe` is
`Fenced` (each open lease has its claim, and its targets lie inside), `Single`
(a session has at most one open lease) and `Disjoint` (the contexts of two open
leases do not conflict). `Fenced` is inductive alone; `Disjoint` needs `Single`,
because `admit` leaves the session's own claims out of the comparison. The
argument has three parts.

1. `Keeps(R, S)` says that every lease open in `S` was open in
   `R` with the same holder and targets, and its claim still stands. Each stage
   of maintenance, `clean_expired`, draining and giving up keeps, and `Keeps`
   composes.
2. Every action other than `Admit` keeps; `Admit` keeps up to its sweep and then
   grants one lease (`NextSteps`).
3. What keeps is safe (`KeepsSafe`), a grant is safe (`GrantsSafe`), and safe
   leases exclude each other because of `CoveredApart`: targets covered by contexts that do not conflict do not overlap. The same
   case split maps each step to a `Release` or a `Grant` of `MutationLock`.

**Claims and completions** (`CompletionProofs`): `ClaimAnsweredSafe`,
`CompletionFitsSafe`, and as action properties `OutcomeWinsSafe` and
`NeverPreemptedSafe`. The invariant `SettledInv` adds to `Inv` that a runtime
that runs is the one its record names (`RuntimeOfRecord`), that a claim is
answered for (`Answered`, inductive alone), and `Fit`: every queued event of an
open lease fits, and at the lease's exact revision while its launch runs.
`AcceptedCompletionFits` says only that some event fits, and a renewal would
break that: it turns a completing lease back to active, where only the exact
revision counts. `Fit` needs `RuntimeOfRecord`, because `clean_expired` moves
revisions after the queues of the launches that records name were drained. The
action properties follow the stages of maintenance: what reclaim, reconcile and
`clean_expired` may end after the drain before them.

**HeartbeatIndex** (`HeartbeatIndexProofs`): `TypeCorrect`, `AuthoritySafe`,
`SkipSafe`. The inductive invariant adds `FenceInv` (after the fence the index
grants nothing that the registry being saved drops) and `StampInv` (no stamp is
ahead of the registry, and a current stamp vouches for its completion bit, in
the file and in the copy a reader holds). `AuthorityIsCommitted` is claimed only
without older writers, which do not maintain the index's authority.

**Notification** (`NotificationProofs`): `NotificationTypeOK`,
`NoDoubleWakeTheorem`, `NoSilentMailTheorem`, `UrgentBypassesTheorem`,
`AttemptOnRunningTheorem`, with any bound on launches, messages, generations and
deaths of serve. None of the five is inductive. The invariant `Inv` has

* `Sound`, of each receipt: its counters are in order, and a generation that was
  attempted and not notified is attempting or its outcome is unknown, so it is
  never queued again. Normalisation, which repairs other receipts, leaves sound
  ones alone (`NormalizeCurrentSame`);
* `Announced`, of each live message: its receipt exists, is not drained, is at
  its generation or later and, for urgent mail admitted to it under a window,
  remembers that;
* `Fenced`, of each dispatch between `begin_attempt` and the outcome: unless
  retention dropped the receipt (its `epoch` moved), the receipt is attempting
  this generation and the recipient is still at this launch;
* `Woken` and `Fresh`: prompts taken or under way are of generations their
  receipt has attempted, and the prompt about to be sent is not one of them.

`Leads(R, S, I, J)` says of two registries that `S` is good, that attempts go on
except those of `I`, and that only `J` get receipts. Every function on
registries leads, and `Leads` composes, so each action is a chain of lemmas;
only the actions that submit or take a prompt need an argument of their own.

**Remote** (`RemoteProofs`): `RemoteTypeOK`, `RemoteKeys`, `RemoteReplies`,
`RemoteOutcomes`, `RemoteAtMostOnce`, `RemoteLiveReceipts`. Keys and replies need
only facts about the journal. For the outcomes the inductive invariant is
`OutcomeInv`: `InFlight` (a message in the worker's hands is not terminal, and
the relay holds only accepted messages), and for each message `Truth` (wherever
"delivered" is written, in the answer under way too, the message was stored, and
a message the daemon believes never posted was neither stored nor is it under
way; mail whose post was not counted, after a crash or a failed save, is
`lost` and excepted). The last two theorems are about messages and notices alike. Their invariant
`MailInv` says that a stored identity has a settled expiry (`Fixed`: a message has
it from its acceptance, a notice from the failure it tells of, which the journal
does not change any more), that it still has its receipt, was evicted, or is too
old to be stored again, and that live mail has its receipt until it expires,
evictions or not. Notices enter because the queue of pending ones holds spent
entries only. The model's `Filter` is the order-preserving selection that the
lists of retained and pending entries need, defined by ranks: the provers know
nothing of `SelectSeq`. Its type is proved with the library's well-founded
induction (`RankOf`, `FilterType`).

**WorkspaceLease** (`WorkspaceLeaseProofs`): `LeaseTypes`, `LeaseFence`,
`LeaseOutcomes`, `LeaseGrants`, `LeaseHandover`. `RunningIsFenced` is not
inductive: nothing says that a tool not yet started will find its operation. The
invariant `LeaseInv` adds `Fenced` (a grant whose tool may still start, or runs,
is recorded as active under the current binding), `Recorded` (the operations of
the file were granted), `Acknowledged` (an acknowledged outcome is the recorded
one or the record is gone) and `Remembered` (a granted call is still recorded
or forgotten).

**AutoResume** (`AutoResumeProofs`): `AutoResumeTypes`, `ResumedTheorem`,
`UserWinsTheorem`, `NeverReplayedTheorem`, `CapacityBudgetTheorem`. The invariant
adds `Shape` (a record that follows a turn names it), `Held` (a record in
`checking` is the claim of the submission in flight, not outdated, or its
submitter is lost) and `Stays` (what the user stopped stays disabled, and a
continuation of Claude's that has left the lock was not promised to be stopped).
The last two theorems need a second invariant, `Tally`, since nothing in the
record says which turns were continued. It holds for any number of arming calls:
turns come in order and no call is about a turn that has not ended (`Order`),
revisions grow with the turns they belong to, so that a late completion is of an
earlier revision than the failure the record follows (`RevOrder`, which is what
the comparison at `auto_resume.rs:986` rests on), a continuation that may still be
given is the first of its turn (`FirstOfTurn`), one that was given is followed by
the record, or its turn is over for the recovery or displaced (`Given`), capacity
belongs to Codex (`OfCodex`), and the record counts every continuation of the
chain and the one to come (`Counted`).

Only model-checked: the liveness properties `LeaseReclaimed`, `DeadClaimEnds`,
`QueuedIsTried`, `OutcomeReached`, `FailureIsTold` and `ClaimSettles`, because
fairness and `ENABLED` are outside the prover's reach.

## 6. Where the documents and the code disagree

With a run:

* `notification_key`: a reminder's guarded send uses the key
  `mailbox-<incarnation>-<generation>`, a file that is never deleted
  (`native_notice.rs`), while retention drops the receipt that counts
  generations. The next receipt starts at 1 again and its wake is refused
  at every pass. The comment of `deliverable_candidates` (`notification.rs`) says
  that a later send makes it deliverable again.

The following have no run. Where a property is named, the module defines it;
adding it to a cfg shows the counterexample.

Coordination:

* `StoppedIsRetirable`: `coordination-runtime-v1.md` sends the owner of a
  runtime that was stopped from outside to `broker retire-stopped`. That command
  wants a positive `heartbeat_epoch` in the registry, which `provision` leaves 0
  and only revocation, recovery and retirement set, so a launch that was never
  recovered is refused.
* `LostClaimStales`: `session-coordination-v1.md` says that broker loss
  eventually stales the claim. No code sets that state; the claim of a degraded
  broker stays active as long as its runtime runs.
* `LiveDescendantKept`: the comment on
  `reclaim_expired_inactive_operations` says that unverifiable evidence leaves
  the lease untouched. A descendant whose state is unknown counts as not live,
  so the lease is abandoned.

Reminders:

* `FenceHasOwner`: `coordination-mailbox-v1.md` says of an attempt left by an
  earlier process that "a current transcript without it safely requeues". For
  the native format `notification_observation.rs` acts on a positive observation
  only, so such an attempt keeps the generation parked and its fence up.
* `UrgentNeverHeld`: the same document says that new blocker, decision and service
  messages bypass the routine window. `admit` returns before it notes an urgent
  generation when the interval is 0, and mail carried to a later launch meets a
  receipt that has none (`notification_coalescing.rs`, `mailbox.rs`); routine mail
  admitted under a window behind either then holds the reminder of both until the
  window closes.
* `QuotaSignalKept`: the same document says that quota signals stay eligible even
  when all mail is read; retention (`mailbox.rs`) drops the receipt that holds
  one.

Federation:

* A message can be reported as rejected although it was stored: the daemon dies
  between the relay's answer and the save, or the lock is not free or the save
  fails, and the next refusal counts as the first (`coordination-federation-v1.md`: after any prior unconfirmed attempt a
  rejection is `delivery-unknown`). This is the `lost` of `OutcomeIsTrue`.
* At capacity the receipt of a message that is no longer live is evicted, and a
  late copy is stored again. The document says that the retained receipt prevents
  duplication, a comment in `mailbox.rs` that receipts "are never evicted". This is
  the `evicted` of `AtMostOnce`, for notices too.
* A queued message that the daemon finds more than a day after its expiry is
  compacted away without an outcome or a notice. A comment in `remote.rs` says that
  expired entries "retain an explicit unknown result", and so does the document.
  This is the last alternative of `OutcomeReached`.

Workspace lease (`dsh-workspace-lease-v1.md`, "Active bind/begin retries and
terminal complete/release retries are idempotent"):

* A retried complete after the release, and a retried release while a new owner
  is active, answer `stale_binding`.
* A late retry of a begin whose record was compacted opens an operation that
  nobody will complete, and an operation that is never completed blocks the
  worktree for ever, the latter by design. This is the `forgotten` of
  `OneGrantPerCall`.

Automatic resume:

* Errors say that the projection is unavailable "until this session runtime is
  restarted"; no code clears the `state_unavailable` record at a restart, so
  enabling is refused for ever.
* `serve-mailbox-automation-v1.md` says that DELETE durably cancels pending work
  and that cancellation is serialised against the wake-up. Claude's continuation
  is written after the lock was dropped, without another look at the record, so
  it can follow an acknowledged DELETE. This is `BeyondRecall`.
* A replayed failure that arms from `transient_failure` sets the attempts back
  to 0, so a chain can exceed the five submitted attempts of the document; that is
  the last exception of `CapacityBudget`.
* Manual input while the record says `resumed` and a new capacity failure is
  stored but not armed resets to `enabled`, and the arming then goes on. A usage
  failure that is not armed yet is not fenced by manual input at all.
* A `checking` left by a crash becomes `resumed` when unrelated activity is seen,
  although nothing was written. This is `untracked`.
* A capacity failure that arrives while the record is `checking` is dropped, and
  an arming that does not get the lock is lost unless the failure is reported
  again.
* `arm_usage_exhaustion` does not ask whether the activity is still at the failure
  it arms. An arming of an earlier turn's usage failure that is delayed past the
  next turn's continuation displaces `resumed`, and a repeated report of that
  turn's failure gives it a second continuation. The document says that "duplicate
  events/ticks cannot submit twice". This is the `displaced` of `NeverReplayed`.

## 7. Not modelled, and the plan

Not modelled: the crates that are sequential front ends or pure I/O, which are
most of the repository's lines, and the parts of agent-session that only project
or format state. Inside the modelled parts: idempotency receipts of claims and
local mail, pages and cursors of the inbox, forwarding and service origins,
advisory records, the proof journal of recoveries, a receipt that cannot be
stored during a drain, two different values of the clock within one locked
section, account failover and account bindings, the revival of usage-window
records that an older version left terminal, and, in work contexts, the
normalisation of path strings: a path is a sequence of components, so that two
names with a common string prefix are simply different.

Next, in order:

1. Deletion recovery and the teardown of a runtime, composed with the brokers of
   `Coordination`.
2. The turn activity journal (`activity/`), of which `Coordination` and
   `AutoResume` each have the part they read.
3. The send guard (`send_guard` and its key files), which `Notification` uses
   through `keys`.
4. The local mailbox's pages, forwarding and service origins, on `Notification`'s
   state.
5. The heartbeat sidecar's loop composed with `HeartbeatIndex`.
6. Account failover in `AutoResume`.
7. Proofs: the safety properties of the modules above, as they come.
