---------------------------- MODULE Notification ----------------------------
(***************************************************************************)
(* Reminders: how unread mail of one recipient session becomes a prompt of *)
(* its provider (coordination/notification.rs and its submodules,          *)
(* coordination/mailbox_quota.rs, the notification loop of serve.rs).      *)
(*                                                                         *)
(* A launch of the recipient has one receipt in the registry.  A message   *)
(* advances the receipt's generation; serve finds the newest generation,   *)
(* claims it (queued -> attempting), submits a prompt and records the      *)
(* outcome.  The policy hook of the recipient may claim it instead.  The   *)
(* steps of serve are separate locked sections; serve may die between any  *)
(* two of them, and the provider may take a prompt after serve gave up.    *)
(*                                                                         *)
(* Times are relative: wait is what is left until next_attempt_at_epoch,   *)
(* since the time since the last attempt, aged says that a message's next  *)
(* deadline (its expiry, then the end of its retention) has passed.        *)
(* Mail is reduced to what reminders read of it.                           *)
(***************************************************************************)
EXTENDS Integers, FiniteSets

CONSTANTS
    MaxLaunch,            \* bound: launches of the recipient; the last one does not end
    MaxMessage,           \* bound: messages admitted
    MaxGeneration,        \* bound: generations of one receipt
    MaxCrashes,           \* bound: deaths of serve
    MaxEpoch,             \* bound: receipts of a launch dropped before a rejected send
    Retry,                \* COORDINATION_NOTIFICATION_RETRY
    Interval,             \* routine_interval_seconds when it is not 0
    MAX_SESSION_MESSAGES, \* live messages a session may hold
    AlertCount,           \* the alert percentage of it, rounded up
    Routes,               \* how the recipient can be reached
    Kinds                 \* of mail sent, with the policy it meets

ASSUME NotificationAssumption ==
    /\ {MaxLaunch, MaxMessage, MaxGeneration, MaxCrashes, MaxEpoch, Retry, Interval,
        MAX_SESSION_MESSAGES, AlertCount} \subseteq Nat
    /\ 0 < MaxLaunch /\ 0 < Interval
    /\ Routes \subseteq {"native", "structured", "hook", "none"}
    /\ Kinds \subseteq [quiet : BOOLEAN, urgent : BOOLEAN, interval : {0, Interval}]

VARIABLES
    reg,      \* the registry: messages, notifications, and epoch, a history of
              \* how many receipts of a launch retention has dropped
    launch,   \* the launch the session record names
    alive,    \* its runtime runs
    route,    \* of the recipient: "native" guarded send with an idempotency
              \* key, "structured" prompt control, its policy "hook", or "none"
    keys,     \* send keys claimed: send-key files of the session directory
    phase,    \* of serve: "down", "idle", "observe", "dispatch"
    todo,     \* unresolved attempts the pass has yet to look at
    task,     \* the dispatch task of each launch's candidate
    flight,   \* prompts submitted that the provider has not taken yet
    landed,   \* prompts the provider has taken (history)
    doubled,  \* those it has taken twice (history)
    crashes

vars == <<reg, launch, alive, route, keys, phase, todo, task, flight, landed,
          doubled, crashes>>

Launches == 1 .. MaxLaunch
Messages == 1 .. MaxMessage
Generations == 0 .. MaxGeneration
Wakes == [launch : Launches, epoch : Nat, generation : Generations]

Least(a, b) == IF a < b THEN a ELSE b

-----------------------------------------------------------------------------
(* Receipts                                                                *)

Pending == "notification-pending"
Drained == "mailbox-drained"
HookDelivered == "hook-delivered"

ReceiptStates ==
    {"none", "queued", "attempting", "attempt_unknown", "prompt_submitted",
     "undeliverable"}
Reasons ==
    {"none", Pending, "notification-attempting", "prompt-accepted", Drained,
     HookDelivered, "recipient-incarnation-replaced", "provider-unsupported",
     "provider-not-ready", "submission-outcome-unknown",
     "notification-state-invalid"}

Receipt ==
    [state : ReceiptStates, generation : Generations, notified : Generations,
     attempted : Generations, wait : 0 .. Retry, since : 0 .. Interval,
     interval : {0, Interval}, urgent : Generations, signal : Generations,
     above : BOOLEAN, reason : Reasons]

NoReceipt ==
    [state |-> "none", generation |-> 0, notified |-> 0, attempted |-> 0,
     wait |-> 0, since |-> Interval, interval |-> 0, urgent |-> 0,
     signal |-> 0, above |-> FALSE, reason |-> "none"]

\* generation and window are history: the generation that announces the mail,
\* and whether it is urgent mail that met a routine window when it was admitted
\* to the launch it is for.
Message ==
    [state : {"none", "unread", "read", "terminal", "gone"}, to : 0 .. MaxLaunch,
     quiet : BOOLEAN, urgent : BOOLEAN, window : BOOLEAN, aged : BOOLEAN,
     generation : Generations]

NoMessage ==
    [state |-> "none", to |-> 0, quiet |-> FALSE, urgent |-> FALSE,
     window |-> FALSE, aged |-> FALSE, generation |-> 0]

\* Of mail that is no longer unread, reminders read that it is retained.
Handled(msg, state) == [NoMessage EXCEPT !.state = state, !.to = msg.to, !.aged = msg.aged]

\* Unread mail that may still be announced.
Live(R, m) ==
    LET msg == R.messages[m] IN msg.state = "unread" /\ ~msg.quiet /\ ~msg.aged

QuotaPending(r) == r.signal > r.notified

HasPendingContent(R, i) ==
    \/ QuotaPending(R.notifications[i])
    \/ \E m \in Messages : R.messages[m].to = i /\ Live(R, m)

\* notification_recovery.rs: a newer generation outlives an unknown attempt.
ResumeNewGeneration(r) ==
    IF /\ r.state = "attempt_unknown"
       /\ r.attempted > 0
       /\ r.generation > r.attempted
       /\ r.generation > r.notified
    THEN [r EXCEPT !.state = "queued", !.wait = 0, !.reason = Pending]
    ELSE r

NormalizeCurrent(r) ==
    LET n == [r EXCEPT !.notified = Least(@, r.generation)]
    IN  IF n.state = "attempting" /\ (n.attempted = 0 \/ n.attempted > n.generation)
        THEN [n EXCEPT !.state = "attempt_unknown", !.attempted = n.generation,
                       !.reason = "notification-state-invalid"]
        ELSE n

\* normalize_registry for receipts of this version.
Normalize(R) ==
    [R EXCEPT !.notifications =
        [i \in Launches |-> ResumeNewGeneration(NormalizeCurrent(R.notifications[i]))]]

Resolve(r) ==
    IF r.state \in {"none", "attempting"} \/ r.reason = Drained
    THEN r
    ELSE [r EXCEPT !.reason = Drained, !.wait = 0]

\* resolve_drained_generation for the launches in I.
ResolveDrained(R, I) ==
    [R EXCEPT !.notifications =
        [i \in Launches |->
            IF i \in I /\ ~HasPendingContent(R, i)
            THEN Resolve(R.notifications[i])
            ELSE R.notifications[i]]]

\* Mutant: the window of routine mail never closes.
DueUrgentOnly(r) == r.interval = 0 \/ r.urgent > r.notified

\* notification_coalescing.rs: the routine window, which urgent mail bypasses.
Due(r) ==
    \/ r.interval = 0
    \/ r.urgent > r.notified
    \/ r.since >= r.interval

\* Mutant: a drained receipt is queued again with the reason it had.
ScheduleKeepsReason(R, i) ==
    LET N == Normalize(R)
    IN  [N EXCEPT !.notifications[i] =
            ResumeNewGeneration([@ EXCEPT !.generation = @ + 1,
                                          !.reason = IF @ = "none" THEN Pending ELSE @,
                                          !.state = IF @ \in {"attempting", "attempt_unknown"}
                                                    THEN @ ELSE "queued"])]

Schedule(R, i) ==
    LET N == Normalize(R)
        n == ResumeNewGeneration([N.notifications[i] EXCEPT !.generation = @ + 1])
        q == IF n.state \in {"attempting", "attempt_unknown"}
             THEN n
             ELSE [n EXCEPT !.state = "queued", !.reason = Pending]
    IN  [N EXCEPT !.notifications[i] = q]

\* Mutant: routine mail resets the urgent generation.
AdmitOverwrites(R, i, interval, urgent) ==
    [R EXCEPT !.notifications[i].interval = interval,
              !.notifications[i].urgent =
                IF interval > 0 /\ urgent THEN R.notifications[i].generation ELSE 0]

AdmitCoalesced(R, i, interval, urgent) ==
    [R EXCEPT !.notifications[i] =
        [@ EXCEPT !.interval = interval,
                  !.urgent = IF interval > 0 /\ urgent THEN R.notifications[i].generation
                             ELSE R.notifications[i].urgent]]

-----------------------------------------------------------------------------
(* Retention: lock_registry and clean_expired run it before every command. *)

Terminate(msg) ==
    CASE msg.aged /\ msg.state \in {"unread", "read"} ->
            [Handled(msg, "terminal") EXCEPT !.aged = FALSE]
      [] msg.aged /\ msg.state = "terminal" -> Handled(msg, "gone")
      [] OTHER -> msg

Retained(msgs, i) ==
    \E m \in Messages : msgs[m].to = i /\ msgs[m].state \in {"unread", "read", "terminal"}

\* maintain_retention keeps a receipt for retained mail or a pending signal;
\* compact_terminal_records, its last step, keeps it for retained mail only.
KeepsReceipt(R, msgs, i) ==
    /\ QuotaPending(R.notifications[i]) \/ Retained(msgs, i)
    /\ Retained(msgs, i)

MaintainRetention(R) ==
    LET msgs == [m \in Messages |-> Terminate(R.messages[m])]
    IN  [messages |-> msgs,
         notifications |->
            [i \in Launches |->
                IF KeepsReceipt(R, msgs, i) THEN R.notifications[i] ELSE NoReceipt],
         epoch |->
            [i \in Launches |->
                IF KeepsReceipt(R, msgs, i) \/ R.notifications[i].state = "none"
                THEN R.epoch[i]
                ELSE R.epoch[i] + 1]]

\* What a command finds once it holds the full registry lock.
Locked(R) == MaintainRetention(Normalize(R))

-----------------------------------------------------------------------------
(* Quota signals (mailbox_quota.rs)                                        *)

CountsTowardQuota(msg) == msg.state \in {"unread", "read"} /\ ~msg.aged
Usage(R) == Cardinality({m \in Messages : CountsTowardQuota(R.messages[m])})
Above(R) == Usage(R) >= AlertCount

Signal(R, i) ==
    LET S == Schedule(R, i)
    IN  [S EXCEPT !.notifications[i] =
            [@ EXCEPT !.signal = S.notifications[i].generation,
                      !.urgent = S.notifications[i].generation]]

Rearm(R) ==
    IF Above(R) THEN R
    ELSE [R EXCEPT !.notifications =
            [i \in Launches |-> [R.notifications[i] EXCEPT !.above = FALSE]]]

Admitted(R, i) ==
    IF ~Above(R) \/ R.notifications[i].above THEN R
    ELSE [Signal(R, i) EXCEPT !.notifications[i].above = TRUE]

-----------------------------------------------------------------------------
(* Transitions of an attempt                                               *)

CanAttempt(R, i, g) ==
    LET r == R.notifications[i]
    IN  r.state = "queued" /\ r.generation = g /\ g > r.notified /\ r.wait = 0 /\ Due(r)

TransitionAttempt(R, i) ==
    [R EXCEPT !.notifications[i] =
        [@ EXCEPT !.state = "attempting", !.attempted = R.notifications[i].generation,
                  !.since = 0, !.reason = "notification-attempting"]]

MatchingAttempt(R, i, g) ==
    LET r == R.notifications[i]
    IN  r.state \in {"attempting", "attempt_unknown"} /\ r.attempted = g

TransitionSubmitted(R, i, g) ==
    LET r == R.notifications[i]
        newer == r.generation > g
    IN  IF ~MatchingAttempt(R, i, g) THEN R
        ELSE [R EXCEPT !.notifications[i] =
                [@ EXCEPT !.since = 0,
                          !.notified = IF r.notified > g THEN r.notified ELSE g,
                          !.state = IF newer THEN "queued" ELSE "prompt_submitted",
                          !.reason = IF newer THEN Pending ELSE "prompt-accepted"]]

TransitionUnknown(R, i) ==
    [R EXCEPT !.notifications[i].state = "attempt_unknown",
              !.notifications[i].reason = "submission-outcome-unknown"]

\* The guard that defer and mark_undeliverable share.
StillQueued(R, i, g) ==
    R.notifications[i].generation = g /\ R.notifications[i].state = "queued"

\* Mutant: the delay is one too long.
DeferTooLong(R, i, g) ==
    IF ~StillQueued(R, i, g) THEN R
    ELSE [R EXCEPT !.notifications[i].wait = Retry + 1,
                   !.notifications[i].reason = "provider-not-ready"]

Defer(R, i, g) ==
    IF ~StillQueued(R, i, g) THEN R
    ELSE [R EXCEPT !.notifications[i].wait = Retry,
                   !.notifications[i].reason = "provider-not-ready"]

Undeliverable(R, i, g, reason) ==
    IF ~StillQueued(R, i, g) THEN R
    ELSE [R EXCEPT !.notifications[i].state = "undeliverable",
                   !.notifications[i].reason = reason]

\* The submission fence: claims, operations and lifecycle changes wait for it.
Fences(R, i) ==
    LET r == R.notifications[i] IN r.state = "attempting" /\ r.attempted > r.notified

-----------------------------------------------------------------------------
(* Senders and the recipient                                               *)

NoTask == [pc |-> "none", generation |-> 0, epoch |-> 0]

Task ==
    [pc : {"none", "dispatch", "begun", "accepted", "failed", "defer"},
     generation : Generations, epoch : Nat]

Candidate == [launch : Launches, generation : Generations, epoch : Nat, seen : BOOLEAN]

Init ==
    /\ reg = [messages |-> [m \in Messages |-> NoMessage],
              notifications |-> [i \in Launches |-> NoReceipt],
              epoch |-> [i \in Launches |-> 0]]
    /\ launch = 1 /\ alive = TRUE
    /\ route \in Routes
    /\ keys = {}
    /\ phase = "idle"
    /\ todo = {}
    /\ task = [i \in Launches |-> NoTask]
    /\ flight = {} /\ landed = {} /\ doubled = {}
    /\ crashes = 0

serve == <<phase, todo, task, crashes>>
provider == <<flight, landed, doubled>>
session == <<launch, alive, route>>

\* The provider takes the prompts W (a set, so each of them once).
Land(W) ==
    /\ landed' = landed \cup W
    /\ doubled' = doubled \cup (W \cap landed)

\* send_authenticated: the admission of one message; at the quota it is
\* rejected, which leaves a signal.  The destination's policy suppresses quiet
\* mail and may give routine mail a window.
Send(m, quiet, urgent, interval) ==
    LET R == Rearm(Locked(reg))
        S == IF quiet THEN R
             ELSE AdmitCoalesced(Schedule(R, launch), launch, interval, urgent)
        msg == [state |-> "unread", to |-> launch, quiet |-> quiet,
                urgent |-> urgent, window |-> urgent /\ interval > 0, aged |-> FALSE,
                generation |-> IF quiet THEN 0 ELSE S.notifications[launch].generation]
    IN  /\ alive
        /\ ~(quiet /\ urgent)
        /\ reg.messages[m].state = "none"
        /\ \A n \in Messages : n < m => reg.messages[n].state # "none"
        /\ reg.notifications[launch].generation + 2 <= MaxGeneration
        /\ Usage(R) < MAX_SESSION_MESSAGES
        /\ reg' = Admitted([S EXCEPT !.messages[m] = msg], launch)
        /\ UNCHANGED <<session, keys, serve, provider>>

SendRejected ==
    LET R == Rearm(Locked(reg))
    IN  /\ alive
        /\ reg.notifications[launch].generation + 2 <= MaxGeneration
        /\ R.epoch[launch] <= MaxEpoch
        /\ Usage(R) >= MAX_SESSION_MESSAGES
        /\ reg' = Signal(R, launch)
        /\ UNCHANGED <<session, keys, serve, provider>>

\* show and ack of the recipient's own mail.
Show(m) ==
    LET R == Locked(reg)
    IN  /\ alive
        /\ R.messages[m].to = launch /\ R.messages[m].state = "unread"
        /\ reg' = [R EXCEPT !.messages[m] = Handled(@, "read")]
        /\ UNCHANGED <<session, keys, serve, provider>>

Ack(m) ==
    LET R == Locked(reg)
    IN  /\ alive
        /\ R.messages[m].to = launch /\ R.messages[m].state \in {"unread", "read"}
        /\ reg' = [R EXCEPT !.messages[m] = Handled(@, "terminal")]
        /\ UNCHANGED <<session, keys, serve, provider>>

Claimable(R, i) ==
    LET r == R.notifications[i]
    IN  /\ HasPendingContent(R, i)
        /\ \/ r.state = "queued"
           \/ r.state = "undeliverable" /\ r.reason = HookDelivered
        /\ r.generation > r.notified
        /\ Due(r)

ClaimHookReminder(R, i) ==
    LET g == R.notifications[i].generation
    IN  [R EXCEPT !.notifications[i] =
            [@ EXCEPT !.state = "prompt_submitted", !.attempted = g, !.notified = g,
                      !.since = 0, !.reason = "prompt-accepted"]]

\* message reminder: the claim is saved before the hook reads the prompt, so
\* the prompt may be lost afterwards.
Reminder(read) ==
    LET R == Normalize(ResolveDrained(Locked(reg), {launch}))
        wake == [launch |-> launch, epoch |-> R.epoch[launch],
                 generation |-> R.notifications[launch].generation]
    IN  /\ alive
        /\ IF Claimable(R, launch)
           THEN /\ reg' = ClaimHookReminder(R, launch)
                /\ Land(IF read THEN {wake} ELSE {})
           ELSE /\ reg' = R
                /\ UNCHANGED <<landed, doubled>>
        /\ UNCHANGED <<session, keys, serve, flight>>

-----------------------------------------------------------------------------
(* The launches of the recipient                                           *)

\* Stop, and every other lifecycle mutation, waits for the fence.
Stop ==
    /\ alive /\ launch < MaxLaunch
    /\ reg' = Locked(reg)
    /\ ~Fences(reg', launch)
    /\ alive' = FALSE
    /\ UNCHANGED <<launch, route, keys, serve, provider>>

\* The runtime ends by itself.
Die ==
    /\ alive /\ launch < MaxLaunch
    /\ alive' = FALSE
    /\ UNCHANGED <<reg, launch, route, keys, serve, provider>>

\* Mutant: mail moves to the new launch and its receipt does not follow.
CarrySilently(R, i, j) ==
    [R EXCEPT !.messages =
        [m \in Messages |->
            IF R.messages[m].to = i /\ R.messages[m].state = "unread" /\ ~R.messages[m].aged
            THEN [R.messages[m] EXCEPT !.to = j, !.window = FALSE]
            ELSE R.messages[m]]]

\* carry_unread_after_verified_resume: unread mail follows the session.
Carry(R, i, j) ==
    LET moved == {m \in Messages : /\ R.messages[m].to = i
                                   /\ R.messages[m].state = "unread"
                                   /\ ~R.messages[m].aged}
        S == IF \E m \in moved : ~R.messages[m].quiet THEN Schedule(R, j) ELSE R
    IN  [S EXCEPT !.messages =
            [m \in Messages |->
                IF m \in moved
                THEN [R.messages[m] EXCEPT
                        !.to = j, !.window = FALSE,
                        !.generation = IF @ = 0 THEN 0 ELSE S.notifications[j].generation]
                ELSE R.messages[m]]]

\* Mutant: a resume does not wait for the fence.
ResumeUnfenced ==
    /\ ~alive
    /\ launch < MaxLaunch
    /\ reg' = Carry(Locked(reg), launch, launch + 1)
    /\ launch' = launch + 1
    /\ alive' = TRUE
    /\ UNCHANGED <<route, keys, serve, provider>>

Resume ==
    LET R == Locked(reg)
    IN  /\ ~alive
        /\ launch < MaxLaunch
        /\ ~Fences(R, launch)
        /\ reg' = Carry(R, launch, launch + 1)
        /\ launch' = launch + 1
        /\ alive' = TRUE
        /\ UNCHANGED <<route, keys, serve, provider>>

-----------------------------------------------------------------------------
(* serve: one pass reconciles what is unresolved, then dispatches what is  *)
(* pending and waits for every dispatch before the next pass.              *)

\* notification::unresolved
UnresolvedScan ==
    LET R == ResolveDrained(Normalize(reg), Launches)
        unresolved ==
            {i \in Launches :
                LET r == R.notifications[i]
                IN  /\ r.state \in {"attempting", "attempt_unknown"}
                    /\ r.reason # Drained
                    /\ r.attempted > r.notified}
    IN  /\ phase = "idle"
        /\ reg' = R
        /\ todo' = {[launch |-> i, generation |-> R.notifications[i].attempted,
                     epoch |-> R.epoch[i], seen |-> FALSE] : i \in unresolved}
        /\ phase' = "observe"
        /\ UNCHANGED <<task, crashes, session, keys, provider>>

\* observe_attempt finds the exact prompt in the provider's transcript.
Observe(c) ==
    /\ phase = "observe" /\ c \in todo /\ ~c.seen
    /\ launch = c.launch
    /\ reg.epoch[launch] = c.epoch
    /\ reg.notifications[launch].attempted = c.generation
    /\ [launch |-> launch, epoch |-> c.epoch, generation |-> c.generation] \in landed
    /\ todo' = (todo \ {c}) \cup {[c EXCEPT !.seen = TRUE]}
    /\ UNCHANGED <<reg, phase, task, crashes, session, keys, provider>>

\* Mutant: a transcript without the prompt queues the generation again.
ObserveRequeues(c) ==
    /\ phase = "observe" /\ c \in todo /\ ~c.seen
    /\ todo' = todo \ {c}
    /\ reg' = [reg EXCEPT !.notifications[c.launch].state =
                IF @ \in {"attempting", "attempt_unknown"} THEN "queued" ELSE @]
    /\ UNCHANGED <<phase, task, crashes, session, keys, provider>>

\* It does not find it: absence never authorizes a replay.
ObserveNothing(c) ==
    /\ phase = "observe" /\ c \in todo /\ ~c.seen
    /\ todo' = todo \ {c}
    /\ UNCHANGED <<reg, phase, task, crashes, session, keys, provider>>

ReconcileSubmitted(c) ==
    /\ phase = "observe" /\ c \in todo /\ c.seen
    /\ reg' = TransitionSubmitted(Locked(reg), c.launch, c.generation)
    /\ todo' = todo \ {c}
    /\ UNCHANGED <<phase, task, crashes, session, keys, provider>>

\* notification::pending
PendingScan ==
    LET R == ResolveDrained(Normalize(reg), Launches)
        deliverable ==
            {i \in Launches :
                /\ R.notifications[i].reason # Drained
                /\ CanAttempt(R, i, R.notifications[i].generation)
                /\ HasPendingContent(R, i)}
    IN  /\ phase = "observe" /\ todo = {}
        /\ reg' = R
        /\ task' = [i \in Launches |->
                        IF i \in deliverable
                        THEN [pc |-> "dispatch", epoch |-> R.epoch[i],
                              generation |-> R.notifications[i].generation]
                        ELSE NoTask]
        /\ phase' = "dispatch"
        /\ UNCHANGED <<todo, crashes, session, keys, provider>>

PassEnds ==
    /\ phase = "dispatch"
    /\ \A i \in Launches : task[i] = NoTask
    /\ phase' = "idle"
    /\ UNCHANGED <<reg, todo, task, crashes, session, keys, provider>>

Goto(i, pc) == task' = [task EXCEPT ![i].pc = pc]
Done(i) == task' = [task EXCEPT ![i] = NoTask]
ServeKeeps == UNCHANGED <<phase, todo, crashes>>

\* dispatch_coordination_notification: recipients serve cannot reach.
DispatchUndeliverable(i) ==
    LET reason == CASE launch # i -> "recipient-incarnation-replaced"
                    [] route = "hook" -> HookDelivered
                    [] OTHER -> "provider-unsupported"
    IN  /\ task[i].pc = "dispatch"
        /\ launch # i \/ route \in {"hook", "none"}
        /\ reg' = Undeliverable(Locked(reg), i, task[i].generation, reason)
        /\ Done(i) /\ ServeKeeps
        /\ UNCHANGED <<session, keys, provider>>

\* The recipient works, its control is missing, its notice is not ready.
DispatchDeferred(i) ==
    /\ task[i].pc = "dispatch"
    /\ launch = i /\ route \in {"native", "structured"}
    /\ Goto(i, "defer") /\ ServeKeeps
    /\ UNCHANGED <<reg, session, keys, provider>>

SendKey(i) == <<i, task[i].generation>>

\* Refused under the record lock: the key of a guarded send was used before,
\* the runtime is gone, or a guard or the quiescence check says no.
DispatchRefused(i) ==
    /\ task[i].pc = "dispatch"
    /\ launch = i /\ route \in {"native", "structured"}
    /\ Goto(i, "failed") /\ ServeKeeps
    /\ UNCHANGED <<reg, session, keys, provider>>

\* begin_attempt, under the record lock and the registry lock.
DispatchBegin(i) ==
    LET R == Locked(reg)
        g == task[i].generation
        admitted == HasPendingContent(R, i) /\ CanAttempt(R, i, g)
    IN  /\ task[i].pc = "dispatch"
        /\ launch = i /\ alive /\ route \in {"native", "structured"}
        /\ route = "native" => SendKey(i) \notin keys
        /\ reg' = IF admitted THEN TransitionAttempt(R, i) ELSE ResolveDrained(R, {i})
        /\ task' = [task EXCEPT ![i].pc = IF admitted THEN "begun" ELSE "failed",
                                ![i].epoch = R.epoch[i]]
        /\ ServeKeeps
        /\ UNCHANGED <<session, keys, provider>>

Wake(i) == [launch |-> i, epoch |-> task[i].epoch, generation |-> task[i].generation]
ClaimKey(i) == keys' = IF route = "native" THEN keys \cup {SendKey(i)} ELSE keys

\* The submission itself.  A guard may refuse before the key is claimed or
\* after; the provider may take the prompt and serve learn of it, or not; or
\* the provider may take it later.
SubmitRefused(i) ==
    /\ task[i].pc = "begun"
    /\ Goto(i, "failed") /\ ServeKeeps
    /\ UNCHANGED <<reg, session, keys, provider>>

SubmitTaken(i, confirmed) ==
    /\ task[i].pc = "begun" /\ launch = i /\ alive
    /\ ClaimKey(i)
    /\ Land({Wake(i)})
    /\ Goto(i, IF confirmed THEN "accepted" ELSE "failed") /\ ServeKeeps
    /\ UNCHANGED <<reg, session, flight>>

SubmitLate(i) ==
    /\ task[i].pc = "begun"
    /\ ClaimKey(i)
    /\ flight' = flight \cup {Wake(i)}
    /\ Goto(i, "failed") /\ ServeKeeps
    /\ UNCHANGED <<reg, session, landed, doubled>>

\* mark_submitted
MarkSubmitted(i) ==
    /\ task[i].pc = "accepted"
    /\ reg' = TransitionSubmitted(Locked(reg), i, task[i].generation)
    /\ Done(i) /\ ServeKeeps
    /\ UNCHANGED <<session, keys, provider>>

\* mark_unknown; what it does not match was never attempted and is deferred.
MarkUnknown(i) ==
    LET R == Locked(reg)
    IN  /\ task[i].pc = "failed"
        /\ IF MatchingAttempt(R, i, task[i].generation)
           THEN reg' = TransitionUnknown(R, i) /\ Done(i)
           ELSE reg' = R /\ Goto(i, "defer")
        /\ ServeKeeps
        /\ UNCHANGED <<session, keys, provider>>

DeferTask(i) ==
    /\ task[i].pc = "defer"
    /\ reg' = Defer(Locked(reg), i, task[i].generation)
    /\ Done(i) /\ ServeKeeps
    /\ UNCHANGED <<session, keys, provider>>

\* serve dies, and is started again.
Crash ==
    /\ phase # "down" /\ crashes < MaxCrashes
    /\ phase' = "down" /\ todo' = {}
    /\ task' = [i \in Launches |-> NoTask]
    /\ crashes' = crashes + 1
    /\ UNCHANGED <<reg, session, keys, provider>>

Restart ==
    /\ phase = "down"
    /\ phase' = "idle"
    /\ UNCHANGED <<reg, todo, task, crashes, session, keys, provider>>

-----------------------------------------------------------------------------
(* Everything else                                                         *)

\* A prompt under way is taken by the runtime it was sent to, or lost.
LateArrival(w) ==
    /\ w \in flight
    /\ flight' = flight \ {w}
    /\ IF w.launch = launch /\ alive THEN Land({w}) ELSE UNCHANGED <<landed, doubled>>
    /\ UNCHANGED <<reg, session, keys, serve>>

LateLoss(w) ==
    /\ w \in flight
    /\ flight' = flight \ {w}
    /\ UNCHANGED <<reg, session, keys, serve, landed, doubled>>

Tick ==
    /\ reg' = [reg EXCEPT !.notifications =
                [i \in Launches |->
                    LET r == reg.notifications[i]
                    IN  [r EXCEPT !.wait = IF @ = 0 THEN 0 ELSE @ - 1,
                                  !.since = Least(@ + 1, Interval)]]]
    /\ reg' # reg
    /\ UNCHANGED <<session, keys, serve, provider>>

\* A message expires, or its retention ends.
MessageAges(m) ==
    /\ reg.messages[m].state \in {"unread", "read", "terminal"}
    /\ ~reg.messages[m].aged
    /\ reg' = [reg EXCEPT !.messages[m].aged = TRUE]
    /\ UNCHANGED <<session, keys, serve, provider>>

\* A quota signal is a day old.
SignalExpires(i) ==
    /\ QuotaPending(reg.notifications[i])
    /\ reg' = [reg EXCEPT !.notifications[i].signal = 0]
    /\ UNCHANGED <<session, keys, serve, provider>>

Pass ==
    \/ UnresolvedScan \/ PendingScan \/ PassEnds
    \/ \E c \in todo : ObserveNothing(c) \/ ReconcileSubmitted(c)
    \/ \E i \in Launches :
        \/ DispatchUndeliverable(i) \/ DispatchDeferred(i) \/ DispatchRefused(i)
        \/ SubmitRefused(i) \/ MarkSubmitted(i) \/ MarkUnknown(i) \/ DeferTask(i)

Next ==
    \/ \E m \in Messages :
        \/ \E k \in Kinds : Send(m, k.quiet, k.urgent, k.interval)
        \/ Show(m) \/ Ack(m) \/ MessageAges(m)
    \/ \E read \in BOOLEAN : Reminder(read)
    \/ SendRejected \/ Stop \/ Die \/ Resume
    \/ Pass
    \/ \E c \in todo : Observe(c)
    \/ \E i \in Launches :
        \/ DispatchBegin(i) \/ SubmitLate(i)
        \/ \E confirmed \in BOOLEAN : SubmitTaken(i, confirmed)
        \/ SignalExpires(i)
    \/ \E w \in flight : LateArrival(w) \/ LateLoss(w)
    \/ Crash \/ Restart \/ Tick

Spec == Init /\ [][Next]_vars

\* The notification loop polls every second whatever happens, a supervisor
\* restarts serve, and time passes.  A recipient that can be reached is, now
\* and then, found idle with an empty composer: DispatchDeferred and
\* DispatchRefused do not win every time.
Fairness ==
    /\ WF_vars(Pass) /\ WF_vars(Restart) /\ WF_vars(Tick)
    /\ \A i \in Launches : SF_vars(DispatchBegin(i))

FairSpec == Spec /\ Fairness

-----------------------------------------------------------------------------
(* Properties                                                              *)

\* Every variable has its type.
TypeOK ==
    /\ reg \in [messages : [Messages -> Message],
                notifications : [Launches -> Receipt],
                epoch : [Launches -> Nat]]
    /\ launch \in Launches /\ alive \in BOOLEAN /\ route \in Routes
    /\ keys \subseteq Launches \X Generations
    /\ phase \in {"down", "idle", "observe", "dispatch"}
    /\ todo \subseteq Candidate
    /\ task \in [Launches -> Task]
    /\ flight \subseteq Wakes /\ landed \subseteq Wakes /\ doubled \subseteq landed
    /\ crashes \in 0 .. MaxCrashes

\* A generation of a receipt prompts the provider at most once: not again
\* after serve died between submission and outcome, not when a prompt arrives
\* after serve called its outcome unknown, not from serve and the policy hook
\* both (transition_attempt_at, transition_submitted, claim_hook_reminder).
NoDoubleWake == doubled = {}

\* Mail that waits to be announced always has a receipt that still covers it:
\* schedule, normalisation, draining, retention and the carrying of mail to a
\* later launch never leave unread mail behind a receipt that counts it as
\* announced or as drained.
NoSilentMail ==
    \A m \in Messages :
        LET msg == reg.messages[m]
            r == reg.notifications[msg.to]
        IN  Live(reg, m) =>
                /\ r.state # "none"
                /\ r.generation >= msg.generation
                /\ r.state = "prompt_submitted" => r.notified >= msg.generation
                /\ r.reason = Drained => r.notified >= msg.generation

Unannounced(m) ==
    Live(reg, m) /\ reg.notifications[reg.messages[m].to].notified < reg.messages[m].generation

\* An urgent message that nobody announced yet, admitted to the recipient's
\* launch while its policy had a routine window, is never held back by that
\* window, whatever mail, signal or attempt comes after it (admit, due).  Two
\* kinds of urgent mail are outside, see UrgentNeverHeld: mail admitted when the
\* interval was 0, which leaves no urgent generation (admit's early return), and
\* mail carried to a later launch, whose receipt starts without one.
UrgentBypasses ==
    \A m \in Messages :
        LET msg == reg.messages[m]
        IN  Unannounced(m) /\ msg.urgent /\ msg.window => Due(reg.notifications[msg.to])

\* While serve is between begin_attempt and the outcome and the receipt it
\* claimed is retained, the fence keeps the recipient at the launch the prompt
\* goes to (ensure_notification_submission_not_in_progress, RestartFence).
AttemptOnRunning ==
    \A i \in Launches :
        task[i].pc \in {"begun", "accepted"} /\ task[i].epoch = reg.epoch[i] => launch = i

\* A generation that is queued for a running recipient serve can reach does
\* not stay queued: retries, routine windows, newer mail and quota signals
\* delay it but nothing parks it (loop, pending, defer_with_detail, due).  One
\* thing does, and the property says so: on the native route a generation number
\* that a dropped receipt of the launch used before names a send key that exists
\* already, and every send is refused (KeyUsed; run notification_key shows it).
Waiting(i) ==
    /\ reg.notifications[i].state = "queued"
    /\ HasPendingContent(reg, i)
    /\ launch = i /\ alive
KeyUsed(i) == route = "native" /\ <<i, reg.notifications[i].generation>> \in keys
QueuedIsTried == \A i \in Launches : Waiting(i) ~> (~Waiting(i) \/ KeyUsed(i))

\* What the documents say and the code does not do.

\* "a later send advances the generation and makes it deliverable again"
\* (notification.rs, deliverable_candidates): the send key of a generation
\* that waits for a native recipient between two passes was never used.
WakeKeyUnused ==
    phase = "idle" => \A i \in Launches : Waiting(i) => ~KeyUsed(i)

\* "a current transcript without it safely requeues" (coordination-mailbox-
\* v1.md): after the observations of a pass, only an attempt some dispatch
\* still owns fences its session.
FenceHasOwner ==
    phase = "dispatch" =>
        \A i \in Launches : Fences(reg, i) => task[i].pc \in {"begun", "accepted", "failed"}

\* "They remain eligible even when all queued mail is already read"
\* (coordination-mailbox-v1.md): no step drops a receipt whose quota signal is
\* pending.
QuotaSignalKept ==
    [][\A i \in Launches :
        QuotaPending(reg.notifications[i]) => reg'.notifications[i].state # "none"]_vars

\* "New blocker, decision and authenticated service-origin messages bypass this
\* window" (coordination-mailbox-v1.md): no urgent mail that waits to be
\* announced is held back.  Two sequences hold it: a blocker admitted with
\* interval 0, or carried to a new launch, and routine mail under a window
\* behind it.
UrgentNeverHeld ==
    \A m \in Messages :
        LET msg == reg.messages[m]
        IN  Unannounced(m) /\ msg.urgent => Due(reg.notifications[msg.to])

=============================================================================
