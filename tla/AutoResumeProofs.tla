------------------------- MODULE AutoResumeProofs -------------------------
(***************************************************************************)
(* Proofs about AutoResume, for every number of turns, revisions, arming   *)
(* calls and attempts.                                                     *)
(*                                                                         *)
(* A record that says checking belongs to the continuation in flight, or   *)
(* to one whose outcome was lost (Held); what the user stopped leaves the  *)
(* record disabled until the user enables it again (Stays).  The second    *)
(* part counts continuations (Tally): a turn that was continued is still   *)
(* the record's, or its claim cannot be made again, or a delayed arming of *)
(* an earlier turn took the record over (Given); calls about earlier turns *)
(* carry earlier revisions (RevOrder); and the record's attempt counts the *)
(* chain of capacity continuations (Counted).                              *)
(***************************************************************************)
EXTENDS AutoResume, TLAPS

Recovering == {"armed", "scheduled", "checking", "transient_failure", "resumed"}

\* A record that follows a turn names it, and so does the activity of a turn that ended.
Shape ==
    /\ rec.state \in Recovering => rec.turn # 0
    /\ act.kind # "none" => act.last # 0
    /\ sub # NoSub => sub.claim.turn # 0 /\ sub.claim.state = "checking"

\* Who holds a claim, and what was given to the provider for it.
Held ==
    rec.state = "checking" =>
        \/ sub = NoSub /\ untracked
        \/ /\ sub # NoSub /\ rec = sub.claim /\ ~sub.stale
           /\ sub.pc = "written" => writes[rec.turn] >= 1

\* What the user stopped stays stopped; a continuation of Claude's that has left the
\* lock was not promised to be stopped.
Stays ==
    /\ dismissed # {} => ~Enabled
    /\ sub.pc = "released" /\ agent = "claude" => sub.claim.turn \notin dismissed

Inv == TypeOK /\ Shape /\ Held /\ ResumedIsWritten /\ Stays

-----------------------------------------------------------------------------
(* Records.                                                                *)

\* Which states are over, and which are not.
LEMMA StateFacts ==
    /\ {"terminal_failure", "unavailable", "cancelled"} \subseteq States \ Recovering
    /\ Recovering \subseteq States
    /\ Enabled <=> rec.state \notin {"disabled", "terminal_failure", "unavailable", "cancelled"}
BY DEF States, Recovering, Enabled

\* reset_enabled_recovery and set_enabled_locked leave a record without a turn.
LEMMA ResetRecord ==
    ASSUME NEW on \in BOOLEAN
    PROVE  /\ Reset(on) \in Records
           /\ Reset(on).state = IF on THEN "enabled" ELSE "disabled"
BY AutoResumeAssumption DEF Reset, Records, States, Causes

\* A recovery that is over.
LEMMA OverRecord ==
    ASSUME NEW state \in {"terminal_failure", "unavailable", "cancelled"}
    PROVE  Over(state) \in Records /\ Over(state).state = state
<1>1. Reset(FALSE) \in Records
  BY ResetRecord
<1>2. QED
  BY <1>1 DEF Over, Records, States

\* record_retry keeps the turn or gives up.
LEMMA RetryRecord ==
    ASSUME NEW r \in Records
    PROVE  /\ Retry(r) \in Records
           /\ \/ Retry(r).state = "terminal_failure"
              \/ Retry(r).state = "transient_failure" /\ Retry(r).turn = r.turn
<1>1. Over("terminal_failure") \in Records
      /\ Over("terminal_failure").state = "terminal_failure"
  BY OverRecord
<1>2. CASE r.attempt + 1 >= MAX_TRANSIENT_ATTEMPTS
  BY <1>1, <1>2 DEF Retry
<1>3. CASE ~(r.attempt + 1 >= MAX_TRANSIENT_ATTEMPTS)
  <2>1. r.attempt + 1 \in 0..MAX_TRANSIENT_ATTEMPTS
    BY <1>3, AutoResumeAssumption DEF Records
  <2>2. Retry(r) = [r EXCEPT !.attempt = r.attempt + 1, !.state = "transient_failure",
     !.waits = TRUE]
    BY <1>3 DEF Retry
  <2>3. QED
    BY <2>1, <2>2 DEF Records, States
<1>4. QED
  BY <1>2, <1>3

\* So does record_capacity_scheduler_retry.
LEMMA CapacityRetryRecord ==
    ASSUME NEW r \in Records
    PROVE  /\ CapacityRetry(r) \in Records
           /\ \/ CapacityRetry(r).state = "terminal_failure"
              \/ CapacityRetry(r).state = "transient_failure" /\ CapacityRetry(r).turn = r.turn
<1>1. Over("terminal_failure") \in Records
      /\ Over("terminal_failure").state = "terminal_failure"
  BY OverRecord
<1>2. CASE r.fallback + 1 >= MAX_TRANSIENT_ATTEMPTS
  BY <1>1, <1>2 DEF CapacityRetry
<1>3. CASE ~(r.fallback + 1 >= MAX_TRANSIENT_ATTEMPTS)
  <2>1. r.fallback + 1 \in 0..MAX_TRANSIENT_ATTEMPTS
    BY <1>3, AutoResumeAssumption DEF Records
  <2>2. CapacityRetry(r) = [r EXCEPT !.fallback = r.fallback + 1,
     !.state = "transient_failure", !.waits = TRUE]
    BY <1>3 DEF CapacityRetry
  <2>3. QED
    BY <2>1, <2>2 DEF Records, States
<1>4. QED
  BY <1>2, <1>3

\* Manual input and an account switch leave the record alone or end its recovery.
LEMMA StoppedRecord ==
    ASSUME rec \in Records
    PROVE  \A r \in {AfterInput(rec), AfterSwitch(rec)} :
             /\ r \in Records
             /\ r = rec \/ r.state \notin Recovering
             /\ Active(rec) \/ Unarmed(rec) => r.state = "cancelled"
             /\ ~Enabled => r = rec
             /\ r = rec => rec.state # "checking"
<1>1. Over("cancelled") \in Records /\ Over("cancelled").state = "cancelled"
  BY OverRecord
<1>2. Reset(TRUE) \in Records /\ Reset(TRUE).state = "enabled"
  BY ResetRecord
<1>3. ASSUME NEW r, r = AfterInput(rec) \/ r = AfterSwitch(rec)
      PROVE  \/ r = rec /\ ~Active(rec) /\ ~Unarmed(rec)
             \/ r = Over("cancelled") /\ (Active(rec) \/ Unarmed(rec))
             \/ r = Reset(TRUE) /\ rec.state = "resumed"
  BY <1>3 DEF AfterInput, AfterSwitch, Stopped
<1>4. SUFFICES ASSUME NEW r \in {AfterInput(rec), AfterSwitch(rec)}
      PROVE  /\ r \in Records
             /\ r = rec \/ r.state \notin Recovering
             /\ Active(rec) \/ Unarmed(rec) => r.state = "cancelled"
             /\ ~Enabled => r = rec
             /\ r = rec => rec.state # "checking"
  OBVIOUS
<1>5. CASE r = rec /\ ~Active(rec) /\ ~Unarmed(rec)
  BY <1>5 DEF Active
<1>6. CASE r = Over("cancelled") /\ (Active(rec) \/ Unarmed(rec))
  BY <1>1, <1>6 DEF Active, Unarmed, Recovering, Enabled
<1>7. CASE r = Reset(TRUE) /\ rec.state = "resumed"
  BY <1>2, <1>7 DEF Active, Unarmed, Recovering, Enabled
<1>8. QED
  BY <1>3, <1>4, <1>5, <1>6, <1>7

\* The turns manual input and an account switch fence exist.
LEMMA FencedTurns ==
    ASSUME Inv
    PROVE  /\ Fenced(rec) \subseteq Turns
           /\ Fenced(rec) # {} => Active(rec) \/ Unarmed(rec)
BY AutoResumeAssumption DEF Inv, TypeOK, Shape, Fenced, Active, Unarmed, CapacityFailed,
   Records,
   Activities, Turns, Recovering

-----------------------------------------------------------------------------
(* Three ways a step keeps Inv.                                            *)

\* Only the activity, the calls and the chain move.
LEMMA ActivityStep ==
    ASSUME Inv, TypeOK',
           UNCHANGED <<agent, rec, sub, writes, dismissed, untracked>>,
           act'.kind # "none" => act'.last # 0
    PROVE  Inv'
BY DEF Inv, Shape, Held, ResumedIsWritten, Stays, Enabled

\* The record moves to a state that is no claim; only the user enables.
LEMMA RecordStep ==
    ASSUME Inv, TypeOK',
           UNCHANGED <<agent, act, sub, writes, dismissed, untracked>>,
           rec'.state \notin {"checking", "resumed"},
           rec'.state \in Recovering => rec'.turn # 0,
           Enabled' => Enabled
    PROVE  Inv'
BY DEF Inv, Shape, Held, ResumedIsWritten, Stays

\* The user moves the record, or leaves one alone that is no claim.
LEMMA UserStep ==
    ASSUME Inv, TypeOK', UNCHANGED <<agent, untracked>>,
           \/ rec' = rec /\ rec.state # "checking" /\ writes' = writes
           \/ rec'.state \notin Recovering,
           act'.kind # "none" => act'.last # 0,
           \/ sub' = sub
           \/ sub # NoSub /\ sub' # NoSub /\ sub'.claim = sub.claim
                /\ sub'.pc \in {sub.pc, "refused"},
           dismissed' # {} => ~Enabled',
           sub'.pc = "released" /\ agent = "claude" => sub'.claim.turn \notin dismissed'
    PROVE  Inv'
<1>1. Shape'
  BY DEF Inv, Shape
<1>2. Held' /\ ResumedIsWritten'
  BY DEF Inv, Held, ResumedIsWritten, Recovering
<1>3. Stays'
  BY DEF Stays
<1>4. QED
  BY <1>1, <1>2, <1>3 DEF Inv

-----------------------------------------------------------------------------
(* The provider and its activity.                                          *)

\* The fields of the activity, and the next revision.
LEMMA ActivityFields ==
    ASSUME Inv
    PROVE  /\ act.phase \in {"starting", "working", "waiting", "unknown"}
           /\ act.revision \in 1..MaxRevision
           /\ act.revision < MaxRevision => act.revision + 1 \in 1..MaxRevision
           /\ act.current \in 0..MaxTurn /\ act.last \in 0..MaxTurn
           /\ act.kind \in Outcomes \cup {"none", "interrupted"}
           /\ act.turns \in 0..MaxTurn
           /\ act.turns < MaxTurn => act.turns + 1 \in 0..MaxTurn /\ act.turns + 1 # 0
           /\ act.kind # "none" => act.last # 0
BY AutoResumeAssumption DEF Inv, TypeOK, Shape, Activities

LEMMA InitInv == Init => Inv
<1> SUFFICES ASSUME Init PROVE Inv
  OBVIOUS
<1>1. rec \in Records /\ rec.state = "disabled"
  BY ResetRecord DEF Init
<1>2. act \in Activities /\ act.kind = "none"
  BY AutoResumeAssumption DEF Init, Activities, Outcomes
<1>3. TypeOK
  <2>1. writes \in [Turns -> 0..2] /\ chain \in Nat
    BY DEF Init
  <2>2. displaced \subseteq Turns /\ dismissed \subseteq Turns /\ calls \subseteq Calls
    BY DEF Init
  <2>3. outcome \in [Turns -> Outcomes \cup {"none"}] /\ queued \in BOOLEAN
        /\ untracked \in BOOLEAN
    BY DEF Init, Outcomes
  <2> QED
    BY <1>1, <1>2, <2>1, <2>2, <2>3 DEF Init, TypeOK
<1>4. sub.pc = "none" /\ dismissed = {} /\ sub = NoSub
  BY DEF Init, NoSub
<1>5. QED
  BY <1>1, <1>2, <1>3, <1>4 DEF Inv, Shape, Held, ResumedIsWritten, Stays, Recovering

LEMMA TurnStartedInv ==
    ASSUME Inv, NEW byUser \in BOOLEAN, TurnStarted(byUser)
    PROVE  Inv'
<1>1. act' \in Activities /\ (act'.kind # "none" => act'.last # 0)
  <2>1. act \in Activities
    BY DEF Inv, TypeOK
  <2>2. QED
    BY <2>1, ActivityFields DEF TurnStarted, Ingest, Activities, Outcomes
<1>2. TypeOK'
  BY <1>1, AutoResumeAssumption DEF Inv, TypeOK, Shape, TurnStarted, Ingest, Arms,
     Activities, Calls, Outcomes, Turns, ghosts
<1>3. QED
  BY <1>1, <1>2, ActivityStep DEF TurnStarted, ghosts

LEMMA ProgressInv ==
    ASSUME Inv, Progress
    PROVE  Inv'
<1>1. act' \in Activities /\ (act'.kind # "none" => act'.last # 0)
  <2>1. act \in Activities
    BY DEF Inv, TypeOK
  <2>2. QED
    BY <2>1, ActivityFields DEF Progress, Ingest, Activities, Outcomes
<1>2. TypeOK'
  BY <1>1, AutoResumeAssumption DEF Inv, TypeOK, Shape, Progress, Ingest, Arms, Activities,
     Calls, Outcomes, Turns, ghosts
<1>3. QED
  BY <1>1, <1>2, ActivityStep DEF Progress, ghosts

LEMMA TurnEndedInv ==
    ASSUME Inv, NEW kind \in Outcomes, TurnEnded(kind)
    PROVE  Inv'
<1> DEFINE turn == IF act.current = 0 THEN act.last ELSE act.current
           call == [kind |-> kind, turn |-> turn, rev |-> act.revision + 1]
<1>1. turn \in Turns /\ act.revision + 1 \in 1..MaxRevision
  BY ActivityFields, AutoResumeAssumption DEF TurnEnded, Ingest, Turns
<1>2. act' = [act EXCEPT !.phase = "waiting", !.revision = act.revision + 1, !.current = 0,
                         !.last = turn, !.kind = kind]
  BY DEF TurnEnded
<1>3. act' \in Activities /\ act'.last # 0
  <2>1. act \in Activities /\ turn \in 0..MaxTurn /\ turn # 0 /\ 0 \in 0..MaxTurn
    BY <1>1, AutoResumeAssumption DEF Inv, TypeOK, Turns
  <2> HIDE DEF turn
  <2>2. QED
    BY <1>1, <1>2, <2>1 DEF Activities
<1>4. calls' \subseteq Calls
  <2>1. Arms(kind) => call \in Calls
    BY <1>1 DEF Arms, Calls
  <2>2. calls' = IF Arms(kind) THEN calls \cup {call} ELSE calls
    BY DEF TurnEnded
  <2> HIDE DEF call
  <2>3. QED
    BY <2>1, <2>2 DEF Inv, TypeOK
<1>5. outcome' \in [Turns -> Outcomes \cup {"none"}] /\ chain' \in Nat
  BY DEF TurnEnded, Inv, TypeOK
<1>6. TypeOK'
  BY <1>3, <1>4, <1>5 DEF Inv, TypeOK, TurnEnded
<1>7. QED
  BY <1>3, <1>6, ActivityStep DEF TurnEnded

LEMMA ReplayInv ==
    ASSUME Inv, Replay
    PROVE  Inv'
<1>1. act' \in Activities /\ (act'.kind # "none" => act'.last # 0)
  <2>1. act \in Activities
    BY DEF Inv, TypeOK
  <2>2. QED
    BY <2>1, ActivityFields DEF Replay, Ingest, Activities, Outcomes
<1>2. TypeOK'
  BY <1>1, AutoResumeAssumption DEF Inv, TypeOK, Shape, Replay, Ingest, Arms, Activities,
     Calls, Outcomes, Turns, ghosts
<1>3. QED
  BY <1>1, <1>2, ActivityStep DEF Replay, ghosts

LEMMA DegradeInv ==
    ASSUME Inv, Degrade
    PROVE  Inv'
<1>1. act' \in Activities /\ (act'.kind # "none" => act'.last # 0)
  <2>1. act \in Activities
    BY DEF Inv, TypeOK
  <2>2. QED
    BY <2>1, ActivityFields DEF Degrade, Ingest, Activities, Outcomes
<1>2. TypeOK'
  BY <1>1, AutoResumeAssumption DEF Inv, TypeOK, Shape, Degrade, Ingest, Arms, Activities,
     Calls, Outcomes, Turns, ghosts
<1>3. QED
  BY <1>1, <1>2, ActivityStep DEF Degrade, ghosts

-----------------------------------------------------------------------------
(* Arming.                                                                 *)

\* A call under way names a turn and a revision.
LEMMA CallFields ==
    ASSUME Inv, NEW c \in calls
    PROVE  c.turn \in Turns /\ c.turn \in 0..MaxTurn /\ c.turn # 0 /\ c.rev \in 0..MaxRevision
BY AutoResumeAssumption DEF Inv, TypeOK, Calls, Turns

LEMMA ArmUsageInv ==
    ASSUME Inv, NEW c \in calls, ArmUsage(c)
    PROVE  Inv'
<1>1. rec \in Records /\ 0 \in 0..MAX_TRANSIENT_ATTEMPTS
  BY AutoResumeAssumption DEF Inv, TypeOK
<1>2. CASE ~UsageArms(c)
  <2>1. TypeOK'
    BY <1>2 DEF Inv, TypeOK, ArmUsage, ghosts
  <2>2. QED
    BY <1>2, <2>1, ActivityStep DEF Inv, Shape, ArmUsage, ghosts
<1>3. CASE UsageArms(c)
  <2>1. rec' = [rec EXCEPT !.state = "armed", !.cause = "usage", !.turn = c.turn, !.rev = c.rev,
                           !.attempt = 0, !.ever = FALSE, !.waits = FALSE]
    BY <1>3 DEF ArmUsage
  <2>2. rec' \in Records /\ rec'.state = "armed" /\ rec'.turn # 0
    BY <1>1, <2>1, CallFields DEF Records, States, Causes
  <2>3. displaced' \subseteq Turns /\ chain' \in Nat
    <3>1. Overtaken(c) => rec.turn \in Turns
      BY <1>1, AutoResumeAssumption DEF Inv, Shape, Overtaken, Recovering, Records, Turns
    <3> QED
      BY <3>1 DEF Inv, TypeOK, ArmUsage
  <2>4. TypeOK'
    BY <2>2, <2>3 DEF Inv, TypeOK, ArmUsage
  <2> QED
    BY <1>3, <2>2, <2>4, RecordStep DEF ArmUsage, UsageArms, Enabled, ghosts
<1>4. QED
  BY <1>2, <1>3

LEMMA ArmCapacityInv ==
    ASSUME Inv, NEW c \in calls, ArmCapacity(c)
    PROVE  Inv'
<1>1. rec \in Records /\ 0 \in 0..MAX_TRANSIENT_ATTEMPTS /\ chain' \in Nat
  BY AutoResumeAssumption DEF Inv, TypeOK, ArmCapacity
<1>2. CASE ~CapacityArms(c)
  <2>1. rec' = rec
    BY <1>2 DEF ArmCapacity
  <2>2. TypeOK'
    BY <1>1, <2>1 DEF Inv, TypeOK, ArmCapacity
  <2>3. QED
    BY <2>1, <2>2, ActivityStep DEF Inv, Shape, ArmCapacity
<1>3. CASE CapacityArms(c)
  <2>1. \/ rec' = Over("terminal_failure")
        \/ rec' = [rec EXCEPT !.state = "scheduled", !.cause = "capacity", !.turn = c.turn,
                              !.rev = c.rev, !.ever = TRUE, !.waits = TRUE,
                              !.attempt = IF SameChain THEN @ ELSE 0,
                              !.fallback = IF SameChain THEN @ ELSE 0]
    BY <1>3 DEF ArmCapacity
  <2>2. rec' \in Records /\ (rec'.state = "terminal_failure" \/ (rec'.state = "scheduled"
        /\ rec'.turn # 0))
    <3> DEFINE a == IF SameChain THEN rec.attempt ELSE 0
               f == IF SameChain THEN rec.fallback ELSE 0
    <3>1. a \in 0..MAX_TRANSIENT_ATTEMPTS /\ f \in 0..MAX_TRANSIENT_ATTEMPTS
      BY <1>1 DEF Records
    <3>2. CASE rec' = Over("terminal_failure")
      BY <3>2, OverRecord
    <3>3. CASE rec' = [rec EXCEPT !.state = "scheduled", !.cause = "capacity", !.turn = c.turn,
                                  !.rev = c.rev, !.ever = TRUE, !.waits = TRUE,
                                  !.attempt = a, !.fallback = f]
      <4> HIDE DEF a, f
      <4>1. QED
        BY <1>1, <3>1, <3>3, CallFields DEF Records, States, Causes
    <3>4. QED
      BY <2>1, <3>2, <3>3
  <2>3. TypeOK'
    BY <1>1, <2>2 DEF Inv, TypeOK, ArmCapacity
  <2>4. QED
    BY <1>3, <2>2, <2>3, RecordStep DEF ArmCapacity, CapacityArms, Enabled, Recovering
<1>4. QED
  BY <1>2, <1>3

LEMMA CompleteCapacityInv ==
    ASSUME Inv, NEW c \in calls, CompleteCapacity(c)
    PROVE  Inv'
<1>1. CASE rec' = rec
  <2>1. TypeOK'
    BY <1>1 DEF Inv, TypeOK, CompleteCapacity, ghosts
  <2>2. QED
    BY <1>1, <2>1, ActivityStep DEF Inv, Shape, CompleteCapacity, ghosts
<1>2. CASE rec' = Reset(TRUE) /\ rec.state = "resumed"
  <2>1. rec' \in Records /\ rec'.state = "enabled"
    BY <1>2, ResetRecord
  <2>2. TypeOK'
    BY <2>1 DEF Inv, TypeOK, CompleteCapacity, ghosts
  <2>3. QED
    BY <1>2, <2>1, <2>2, RecordStep DEF CompleteCapacity, Enabled, Recovering, ghosts
<1>3. QED
  BY <1>1, <1>2 DEF CompleteCapacity, SameChain

LEMMA EndCallInv ==
    ASSUME Inv, NEW c \in calls, EndCall(c)
    PROVE  Inv'
<1>1. TypeOK'
  BY DEF Inv, TypeOK, EndCall, ghosts
<1>2. QED
  BY <1>1, ActivityStep DEF Inv, Shape, EndCall, ghosts

-----------------------------------------------------------------------------
(* The user.                                                               *)

\* A record operation of the user keeps the types of what it counts.
LEMMA UserTypes ==
    ASSUME Inv, NEW r, UserSets(r)
    PROVE  /\ writes' \in [Turns -> 0..2] /\ chain' \in Nat
           /\ UNCHANGED displaced
BY DEF UserSets, Inv, TypeOK

\* The continuation in flight is only marked, and only if the record moved.
LEMMA OutdatedSub ==
    ASSUME Inv
    PROVE  /\ Outdated \in Submissions \cup {NoSub}
           /\ Outdated.pc = sub.pc
           /\ \/ Outdated = sub
              \/ sub # NoSub /\ Outdated # NoSub /\ Outdated.claim = sub.claim
BY DEF Inv, TypeOK, Outdated, Submissions, NoSub

\* What Claude's continuation is past cannot be dismissed.
LEMMA DismissTurns ==
    ASSUME Inv, NEW ts \in SUBSET Turns
    PROVE  /\ Dismiss(ts) \subseteq Turns
           /\ sub.pc = "released" /\ agent = "claude" => sub.claim.turn \notin Dismiss(ts)
           /\ ts = {} => Dismiss(ts) = dismissed
BY DEF Inv, TypeOK, Stays, Dismiss, BeyondRecall

\* The turns so far.
LEMMA TurnsSoFar == Inv => 1..act.turns \subseteq Turns
BY ActivityFields, AutoResumeAssumption DEF Turns

LEMMA SetEnabledInv ==
    ASSUME Inv, NEW on \in BOOLEAN, SetEnabled(on)
    PROVE  Inv'
<1>1. rec' \in Records /\ rec'.state = IF on THEN "enabled" ELSE "disabled"
  BY ResetRecord DEF SetEnabled, UserSets
<1>2. sub' = Outdated /\ UNCHANGED <<agent, act, untracked, outcome, calls, queued>>
  BY DEF SetEnabled, UserSets
<1>3. /\ dismissed' \subseteq Turns
      /\ dismissed' # {} => ~on
      /\ sub.pc = "released" /\ agent = "claude" => sub.claim.turn \notin dismissed'
  BY DismissTurns, TurnsSoFar DEF SetEnabled
<1>4. TypeOK'
  BY <1>1, <1>2, <1>3, OutdatedSub, UserTypes DEF Inv, TypeOK, SetEnabled
<1>5. QED
  BY <1>1, <1>2, <1>3, <1>4, OutdatedSub, UserStep DEF Inv, Shape, Enabled, Recovering

LEMMA CancelInv ==
    ASSUME Inv, Cancel
    PROVE  Inv'
<1>1. rec' \in Records /\ rec'.state = "cancelled"
  BY OverRecord DEF Cancel, UserSets
<1>2. sub' = Outdated /\ UNCHANGED <<agent, act, untracked, outcome, calls, queued>>
  BY DEF Cancel, UserSets
<1>3. /\ dismissed' \subseteq Turns
      /\ sub.pc = "released" /\ agent = "claude" => sub.claim.turn \notin dismissed'
  BY DismissTurns, TurnsSoFar DEF Cancel
<1>4. TypeOK'
  BY <1>1, <1>2, <1>3, OutdatedSub, UserTypes DEF Inv, TypeOK, Cancel
<1>5. QED
  BY <1>1, <1>2, <1>3, <1>4, OutdatedSub, UserStep DEF Inv, Shape, Enabled, Recovering

LEMMA ManualInputInv ==
    ASSUME Inv, ManualInput
    PROVE  Inv'
<1>1. /\ rec' \in Records
      /\ rec' = rec \/ rec'.state \notin Recovering
      /\ Active(rec) \/ Unarmed(rec) => rec'.state = "cancelled"
      /\ ~Enabled => rec' = rec
      /\ rec' = rec => rec.state # "checking"
  BY StoppedRecord DEF ManualInput, UserSets, Inv, TypeOK
<1>2. /\ sub' = Outdated /\ UNCHANGED <<agent, act, untracked, outcome, calls, queued>>
      /\ rec' = rec => writes' = writes
  BY DEF ManualInput, UserSets
<1>3. /\ dismissed' \subseteq Turns
      /\ dismissed' # {} => ~Enabled'
      /\ sub.pc = "released" /\ agent = "claude" => sub.claim.turn \notin dismissed'
  BY <1>1, DismissTurns, FencedTurns DEF ManualInput, Inv, Stays, Enabled
<1>4. TypeOK'
  BY <1>1, <1>2, <1>3, OutdatedSub, UserTypes DEF Inv, TypeOK, ManualInput
<1>5. QED
  BY <1>1, <1>2, <1>3, <1>4, OutdatedSub, UserStep DEF Inv, Shape

LEMMA AccountSwitchInv ==
    ASSUME Inv, AccountSwitch
    PROVE  Inv'
<1>1. /\ rec' \in Records
      /\ rec' = rec \/ rec'.state \notin Recovering
      /\ Active(rec) \/ Unarmed(rec) => rec'.state = "cancelled"
      /\ ~Enabled => rec' = rec
      /\ rec' = rec => rec.state # "checking"
  BY StoppedRecord DEF AccountSwitch, UserSets, Inv, TypeOK
<1>2. /\ sub' = Outdated /\ UNCHANGED <<agent, act, untracked, outcome, calls, queued>>
      /\ rec' = rec => writes' = writes
  BY DEF AccountSwitch, UserSets
<1>3. /\ dismissed' \subseteq Turns
      /\ dismissed' # {} => ~Enabled'
      /\ sub.pc = "released" /\ agent = "claude" => sub.claim.turn \notin dismissed'
  BY <1>1, DismissTurns, FencedTurns DEF AccountSwitch, Inv, Stays, Enabled
<1>4. TypeOK'
  BY <1>1, <1>2, <1>3, OutdatedSub, UserTypes DEF Inv, TypeOK, AccountSwitch
<1>5. QED
  BY <1>1, <1>2, <1>3, <1>4, OutdatedSub, UserStep DEF Inv, Shape

LEMMA RestartInv ==
    ASSUME Inv, Restart
    PROVE  Inv'
<1>1. /\ rec' \in Records
      /\ rec' = rec \/ rec'.state \notin Recovering
      /\ Active(rec) \/ Unarmed(rec) => rec'.state = "cancelled"
      /\ ~Enabled => rec' = rec
      /\ rec' = rec => rec.state # "checking"
  BY StoppedRecord DEF Restart, UserSets, Inv, TypeOK
<1>2. /\ UNCHANGED <<agent, untracked, outcome, calls>> /\ queued' = FALSE
      /\ rec' = rec => writes' = writes
  BY DEF Restart, UserSets
<1>3. act' \in Activities /\ (act'.kind # "none" => act'.last # 0)
  <2>1. act \in Activities /\ 0 \in 0..MaxTurn
    BY AutoResumeAssumption DEF Inv, TypeOK
  <2>2. QED
    BY <2>1, ActivityFields DEF Restart, Activities, Outcomes
<1>4. /\ sub' \in Submissions \cup {NoSub}
      /\ sub'.pc # "released"
      /\ \/ sub' = sub
         \/ sub # NoSub /\ sub' # NoSub /\ sub'.claim = sub.claim /\ sub'.pc \in {sub.pc,
            "refused"}
  <2>1. CASE sub.pc # "released"
    BY <2>1, OutdatedSub DEF Restart
  <2>2. CASE sub.pc = "released"
    <3>1. Outdated \in Submissions /\ sub # NoSub /\ Outdated.claim = sub.claim
      BY <2>2, OutdatedSub DEF NoSub
    <3>2. QED
      BY <2>2, <3>1 DEF Restart, Submissions, NoSub
  <2>3. QED
    BY <2>1, <2>2
<1>5. dismissed' \subseteq Turns /\ (dismissed' # {} => ~Enabled')
  BY <1>1, FencedTurns DEF Restart, Inv, TypeOK, Stays, Enabled
<1>6. TypeOK'
  BY <1>1, <1>2, <1>3, <1>4, <1>5, UserTypes DEF Inv, TypeOK, Restart
<1>7. QED
  BY <1>1, <1>2, <1>3, <1>4, <1>5, <1>6, UserStep

-----------------------------------------------------------------------------
(* The scheduler.                                                          *)

LEMMA FailClosedInv ==
    ASSUME Inv, FailClosed
    PROVE  Inv'
<1>1. rec' \in Records /\ rec'.state \in {"terminal_failure", "unavailable"}
  BY OverRecord DEF FailClosed
<1>2. TypeOK'
  BY <1>1 DEF Inv, TypeOK, FailClosed, ghosts
<1>3. QED
  BY <1>1, <1>2, RecordStep DEF FailClosed, Inv, Shape, Recovering, Enabled, ghosts

LEMMA ElapseInv ==
    ASSUME Inv, Elapse
    PROVE  Inv'
<1>1. rec' \in Records /\ rec'.state = rec.state /\ rec'.turn = rec.turn
  BY DEF Inv, TypeOK, Elapse, Records
<1>2. TypeOK'
  BY <1>1 DEF Inv, TypeOK, Elapse, ghosts
<1>3. QED
  BY <1>1, <1>2, RecordStep DEF Elapse, Pending, Inv, Shape, Enabled, ghosts

LEMMA WakeScheduledInv ==
    ASSUME Inv, WakeScheduled
    PROVE  Inv'
<1>1. rec' \in Records /\ rec'.state = rec.state /\ rec'.turn = rec.turn
  BY DEF Inv, TypeOK, WakeScheduled, Records
<1>2. TypeOK'
  BY <1>1 DEF Inv, TypeOK, WakeScheduled, ghosts
<1>3. QED
  BY <1>1, <1>2, RecordStep DEF WakeScheduled, Pending, Inv, Shape, Enabled, ghosts

LEMMA SchedulerErrorInv ==
    ASSUME Inv, SchedulerError
    PROVE  Inv'
<1>0. rec \in Records
  BY DEF Inv, TypeOK
<1>1. /\ rec' \in Records
      /\ \/ rec'.state \in {"terminal_failure", "unavailable"}
         \/ Pending /\ rec'.state = "transient_failure" /\ rec'.turn = rec.turn
  BY <1>0, OverRecord, RetryRecord, CapacityRetryRecord DEF SchedulerError
<1>2. TypeOK'
  BY <1>1 DEF Inv, TypeOK, SchedulerError, ghosts
<1>3. QED
  BY <1>1, <1>2, RecordStep DEF SchedulerError, Pending, Inv, Shape, Recovering, Enabled, ghosts

LEMMA TickRecoverInv ==
    ASSUME Inv, TickRecover
    PROVE  Inv'
<1>1. rec \in Records /\ rec.state = "checking" /\ sub = NoSub /\ untracked
  BY DEF Inv, TypeOK, TickRecover, TryAttempt, Held
<1>2. \/ rec' = [rec EXCEPT !.state = "resumed"]
      \/ rec' = Over("terminal_failure")
  BY DEF TickRecover
<1>3. /\ rec' \in Records
      /\ \/ rec'.state = "terminal_failure"
         \/ rec'.state = "resumed" /\ rec'.turn = rec.turn
  BY <1>1, <1>2, OverRecord DEF Records, States
<1>4. TypeOK'
  BY <1>3 DEF Inv, TypeOK, TickRecover, ghosts
<1>5. QED
  BY <1>1, <1>3, <1>4 DEF TickRecover, Inv, Shape, Held, ResumedIsWritten, Stays, Enabled,
     Recovering, ghosts

LEMMA TickRetryInv ==
    ASSUME Inv, TickRetry
    PROVE  Inv'
<1>1. rec' \in Records
      /\ (rec'.state = "terminal_failure" \/ (rec'.state = "transient_failure"
      /\ rec'.turn = rec.turn))
  BY RetryRecord DEF TickRetry, Inv, TypeOK
<1>2. TypeOK'
  BY <1>1 DEF Inv, TypeOK, TickRetry, ghosts
<1>3. QED
  BY <1>1, <1>2, RecordStep DEF TickRetry, Due, Pending, Inv, Shape, Recovering, Enabled, ghosts

LEMMA TickScheduleInv ==
    ASSUME Inv, TickSchedule
    PROVE  Inv'
<1>0. rec \in Records /\ 0 \in 0..MAX_TRANSIENT_ATTEMPTS
  BY AutoResumeAssumption DEF Inv, TypeOK
<1>1. rec' \in Records /\ rec'.state = "scheduled" /\ rec'.turn = rec.turn
  BY <1>0 DEF TickSchedule, Records, States
<1>2. TypeOK'
  BY <1>1 DEF Inv, TypeOK, TickSchedule, ghosts
<1>3. QED
  BY <1>1, <1>2, RecordStep DEF TickSchedule, Due, Pending, Inv, Shape, Recovering, Enabled,
     ghosts

LEMMA TickFallbackInv ==
    ASSUME Inv, TickFallback
    PROVE  Inv'
<1>0. rec \in Records /\ 0 \in 0..MAX_TRANSIENT_ATTEMPTS
  BY AutoResumeAssumption DEF Inv, TypeOK
<1>1. rec' \in Records /\ rec'.state = "scheduled" /\ rec'.turn = rec.turn
  BY <1>0 DEF TickFallback, Records, States
<1>2. TypeOK'
  BY <1>1 DEF Inv, TypeOK, TickFallback, ghosts
<1>3. QED
  BY <1>1, <1>2, RecordStep DEF TickFallback, Due, Pending, Inv, Shape, Recovering, Enabled,
     ghosts

LEMMA TickChangedInv ==
    ASSUME Inv, TickChanged
    PROVE  Inv'
<1>1. rec' \in Records /\ rec'.state \in {"terminal_failure", "unavailable"}
  BY OverRecord DEF TickChanged
<1>2. TypeOK'
  BY <1>1 DEF Inv, TypeOK, TickChanged, ghosts
<1>3. QED
  BY <1>1, <1>2, RecordStep DEF TickChanged, Recovering, Enabled, ghosts

LEMMA TickClaimInv ==
    ASSUME Inv, TickClaim
    PROVE  Inv'
<1> DEFINE n == IF rec.cause = "capacity" THEN rec.attempt + 1 ELSE rec.attempt
           claim == [rec EXCEPT !.state = "checking", !.waits = FALSE, !.attempt = n]
<1>1. rec \in Records /\ rec.turn # 0 /\ dismissed = {}
  BY DEF Inv, TypeOK, Shape, Stays, TickClaim, Ready, Due, Pending, Recovering, Enabled
<1>2. n \in 0..MAX_TRANSIENT_ATTEMPTS
  BY <1>1, AutoResumeAssumption DEF TickClaim, Records
<1>3. rec' = claim
  BY DEF TickClaim
<1>4. PICK pc \in {"released", "refused"} : sub' = [pc |-> pc, claim |-> claim, stale |-> FALSE]
  BY DEF TickClaim
<1> HIDE DEF n
<1>5. claim \in Records /\ claim.state = "checking" /\ claim.turn = rec.turn
  BY <1>1, <1>2 DEF Records, States
<1> HIDE DEF claim
<1>6. sub' \in Submissions /\ sub' # NoSub /\ sub'.claim = claim /\ ~sub'.stale
      /\ sub'.pc # "written"
  BY <1>4, <1>5 DEF Submissions, NoSub
<1>7. TypeOK'
  BY <1>3, <1>5, <1>6 DEF Inv, TypeOK, TickClaim
<1>8. Shape' /\ Held' /\ ResumedIsWritten'
  BY <1>1, <1>3, <1>5, <1>6 DEF Inv, Shape, Held, ResumedIsWritten, TickClaim
<1>9. Stays'
  BY <1>1 DEF Stays, TickClaim
<1>10. QED
  BY <1>7, <1>8, <1>9 DEF Inv

-----------------------------------------------------------------------------
(* The continuation in flight.                                             *)

LEMMA WriteInv ==
    ASSUME Inv, Write
    PROVE  Inv'
<1>1. sub \in Submissions /\ sub # NoSub /\ sub.claim \in Records /\ sub.claim.turn \in Turns
  BY AutoResumeAssumption DEF Inv, TypeOK, Shape, Write, NoSub, Submissions, Records, Turns
<1>2. sub' = [sub EXCEPT !.pc = "written"]
  BY DEF Write
<1>3. sub' \in Submissions /\ sub' # NoSub /\ sub'.claim = sub.claim
      /\ sub'.pc = "written" /\ sub'.stale = sub.stale
  BY <1>1, <1>2 DEF Submissions, NoSub
<1>4. /\ writes' \in [Turns -> 0..2] /\ chain' \in Nat
      /\ \A t \in Turns : writes'[t] >= writes[t]
      /\ ~sub.stale => writes'[sub.claim.turn] >= 1
  BY <1>1 DEF Inv, TypeOK, Write, Least
<1>5. TypeOK'
  BY <1>3, <1>4 DEF Inv, TypeOK, Write
<1>6. Shape' /\ Stays'
  BY <1>1, <1>3 DEF Inv, Shape, Stays, Write, Enabled
<1>7. Held'
  BY <1>1, <1>3, <1>4 DEF Inv, Held, Write
<1>8. ResumedIsWritten'
  <2>1. rec.state = "resumed" => rec.turn \in Turns
    BY AutoResumeAssumption DEF Inv, TypeOK, Shape, Records, Recovering, Turns
  <2>2. rec.turn \in Turns => writes[rec.turn] \in Nat /\ writes'[rec.turn] \in Nat
    BY <1>4 DEF Inv, TypeOK
  <2>3. QED
    BY <1>4, <2>1, <2>2 DEF Inv, ResumedIsWritten, Write
<1>9. QED
  BY <1>5, <1>6, <1>7, <1>8 DEF Inv

LEMMA RefuseInv ==
    ASSUME Inv, Refuse
    PROVE  Inv'
<1>1. sub \in Submissions /\ sub' = [sub EXCEPT !.pc = "refused"]
  BY DEF Inv, TypeOK, Refuse, NoSub
<1>2. sub' \in Submissions /\ sub # NoSub /\ sub' # NoSub /\ sub'.claim = sub.claim
      /\ sub'.pc = "refused" /\ sub'.stale = sub.stale
  BY <1>1 DEF Submissions, NoSub
<1>3. TypeOK'
  BY <1>2 DEF Inv, TypeOK, Refuse, ghosts
<1>4. QED
  BY <1>2, <1>3 DEF Inv, Shape, Held, ResumedIsWritten, Stays, Enabled, Refuse, ghosts

LEMMA PublishInv ==
    ASSUME Inv, NEW ok \in BOOLEAN, Publish(ok)
    PROVE  Inv'
<1>1. sub # NoSub /\ sub' = NoSub /\ sub'.pc = "none" /\ rec \in Records
  BY DEF Inv, TypeOK, Publish, NoSub
<1>2. CASE rec # sub.claim
  <2>1. rec' = rec /\ rec.state # "checking"
    BY <1>1, <1>2 DEF Publish, Inv, Held
  <2>2. TypeOK'
    BY <1>1, <2>1 DEF Inv, TypeOK, Publish, ghosts
  <2>3. QED
    BY <1>1, <2>1, <2>2 DEF Inv, Shape, Held, ResumedIsWritten, Stays, Enabled, Publish, ghosts
<1>3. CASE rec = sub.claim /\ ~ok
  <2>1. rec' \in Records /\ rec'.state = "terminal_failure"
    BY <1>3, OverRecord DEF Publish
  <2>2. TypeOK'
    BY <1>1, <2>1 DEF Inv, TypeOK, Publish, ghosts
  <2>3. QED
    BY <1>1, <2>1, <2>2 DEF Inv, Shape, Held, ResumedIsWritten, Stays, Enabled, Recovering,
       Publish, ghosts
<1>4. CASE rec = sub.claim /\ ok
  <2> DEFINE f == IF rec.cause = "capacity" THEN 0 ELSE rec.fallback
  <2>1. rec.state = "checking" /\ writes[rec.turn] >= 1 /\ rec.turn # 0
    BY <1>1, <1>4 DEF Publish, Inv, Shape, Held, Recovering
  <2>2. f \in 0..MAX_TRANSIENT_ATTEMPTS /\ rec' = [rec EXCEPT !.state = "resumed",
     !.fallback = f]
    BY <1>1, <1>4, AutoResumeAssumption DEF Publish, Records
  <2> HIDE DEF f
  <2>3. rec' \in Records /\ rec'.state = "resumed" /\ rec'.turn = rec.turn
    BY <1>1, <2>2 DEF Records, States
  <2>4. TypeOK'
    BY <1>1, <2>3 DEF Inv, TypeOK, Publish, ghosts
  <2>5. QED
    BY <1>1, <2>1, <2>3, <2>4 DEF Inv, Shape, Held, ResumedIsWritten, Stays, Enabled,
       Publish, ghosts
<1>5. QED
  BY <1>2, <1>3, <1>4

LEMMA PublishTimeoutInv ==
    ASSUME Inv, PublishTimeout
    PROVE  Inv'
<1>1. sub' = NoSub /\ sub'.pc = "none" /\ untracked' = TRUE
  BY DEF PublishTimeout, NoSub
<1>2. TypeOK'
  BY <1>1 DEF Inv, TypeOK, PublishTimeout
<1>3. QED
  BY <1>1, <1>2 DEF Inv, Shape, Held, ResumedIsWritten, Stays, Enabled, PublishTimeout

LEMMA CrashInv ==
    ASSUME Inv, Crash
    PROVE  Inv'
<1>1. sub' = NoSub /\ sub'.pc = "none" /\ untracked' = TRUE
  BY DEF Crash, NoSub
<1>2. TypeOK'
  BY <1>1 DEF Inv, TypeOK, Crash
<1>3. QED
  BY <1>1, <1>2 DEF Inv, Shape, Held, ResumedIsWritten, Stays, Enabled, Crash

-----------------------------------------------------------------------------
(* The theorems.                                                           *)

LEMMA StutterInv ==
    ASSUME Inv, UNCHANGED vars
    PROVE  Inv'
BY DEF Inv, TypeOK, Shape, Held, ResumedIsWritten, Stays, Enabled, vars

LEMMA NextInv ==
    ASSUME Inv, [Next]_vars
    PROVE  Inv'
<1>1. CASE Provider
  BY <1>1, TurnStartedInv, ProgressInv, TurnEndedInv, ReplayInv, DegradeInv DEF Provider
<1>2. CASE Arming
  BY <1>2, ArmUsageInv, ArmCapacityInv, CompleteCapacityInv, EndCallInv DEF Arming
<1>3. CASE User
  BY <1>3, SetEnabledInv, CancelInv, ManualInputInv, AccountSwitchInv, RestartInv DEF User
<1>4. CASE Scheduler
  BY <1>4, FailClosedInv, ElapseInv, WakeScheduledInv, SchedulerErrorInv, TickRecoverInv,
     TickRetryInv, TickScheduleInv, TickFallbackInv, TickChangedInv, TickClaimInv, WriteInv,
        RefuseInv, PublishInv, PublishTimeoutInv, CrashInv DEF Scheduler, Submission
<1>5. QED
  BY <1>1, <1>2, <1>3, <1>4, StutterInv DEF Next

LEMMA Invariance == Spec => []Inv
<1>1. Init => Inv
  BY InitInv
<1>2. Inv /\ [Next]_vars => Inv'
  BY NextInv
<1>3. QED
  BY <1>1, <1>2, PTL DEF Spec

\* Types: whatever is reported, lost or cancelled, the budgets of retries are kept
\* and a record names an existing turn.
THEOREM AutoResumeTypes == Spec => []TypeOK
<1>1. Inv => TypeOK
  BY DEF Inv
<1>2. QED
  BY <1>1, Invariance, PTL

\* A record that says resumed was preceded by a continuation given to the provider,
\* unless the outcome of its claim was lost.
THEOREM ResumedTheorem == Spec => []ResumedIsWritten
<1>1. Inv => ResumedIsWritten
  BY DEF Inv
<1>2. QED
  BY <1>1, Invariance, PTL

\* Only Write gives a continuation to the provider.
LEMMA OnlyWrite ==
    ASSUME Inv, Next, sub.pc = "released", sub'.pc = "written"
    PROVE  Write
<1>1. ~Provider
  BY DEF Provider, TurnStarted, Progress, TurnEnded, Replay, Degrade
<1>2. ~Arming
  BY DEF Arming, ArmUsage, ArmCapacity, CompleteCapacity, EndCall
<1>3. ~User
  <2>1. sub' # Outdated
    BY OutdatedSub
  <2>2. ~Restart
    <3>1. Outdated \in Submissions
      BY OutdatedSub DEF NoSub
    <3>2. [Outdated EXCEPT !.pc = "refused"].pc = "refused"
      BY <3>1 DEF Submissions
    <3>3. QED
      BY <3>2 DEF Restart
  <2>3. QED
    BY <2>1, <2>2 DEF User, SetEnabled, Cancel, ManualInput, AccountSwitch
<1>4. Scheduler
  BY <1>1, <1>2, <1>3 DEF Next
<1>5. ~(\/ Elapse \/ WakeScheduled \/ SchedulerError \/ TickRecover \/ TickRetry \/ TickSchedule
        \/ TickFallback \/ TickChanged \/ FailClosed)
  BY DEF Elapse, WakeScheduled, SchedulerError, TickRecover, TickRetry, TickSchedule,
     TickFallback,
         TickChanged, FailClosed
<1>6. ~TickClaim /\ ~Crash
  BY DEF TickClaim, Ready, TryAttempt, Crash, NoSub
<1>7. ~Refuse /\ ~PublishTimeout /\ (\A ok \in BOOLEAN : ~Publish(ok))
  BY DEF Refuse, PublishTimeout, Publish, Inv, TypeOK, Submissions, NoSub
<1>8. QED
  BY <1>4, <1>5, <1>6, <1>7 DEF Scheduler, Submission

\* A continuation that is written is of no dismissed turn.
LEMMA DismissedStep ==
    ASSUME Inv, [Next]_vars
    PROVE  [\A t \in dismissed : ~Wrote(t)]_vars
<1> SUFFICES ASSUME Next, NEW t \in dismissed, Wrote(t)
             PROVE  FALSE
  BY DEF vars
<1>1. Write /\ sub.claim.turn = t /\ sub # NoSub
  BY OnlyWrite DEF Wrote, NoSub
<1>2. ~Enabled
  BY DEF Inv, Stays
<1>3. CASE agent = "claude"
  BY <1>1, <1>3 DEF Inv, Stays, Write
<1>4. CASE agent = "codex"
  <2>1. rec = sub.claim /\ sub.claim.state = "checking"
    BY <1>1, <1>4 DEF Write, Matches, Inv, Shape
  <2>2. QED
    BY <1>2, <2>1 DEF Enabled
<1>5. QED
  BY <1>3, <1>4, AutoResumeAssumption DEF Inv, TypeOK

\* No continuation of a turn whose recovery the user stopped reaches the provider,
\* except Claude's that had already left the lock.
THEOREM UserWinsTheorem == Spec => UserWins
<1>1. Inv /\ [Next]_vars => [\A t \in dismissed : ~Wrote(t)]_vars
  BY DismissedStep
<1>2. QED
  BY <1>1, Invariance, PTL DEF Spec, UserWins

-----------------------------------------------------------------------------
(* With any number of arming calls under way, however late they take the   *)
(* record lock: continuations are not repeated, and the budget of capacity *)
(* continuations is kept.                                                  *)

\* Turns come in order, and a turn ends in one way.
Order ==
    /\ act.current # 0 => act.current = act.turns
    /\ act.current = 0 => act.last = act.turns
    /\ act.phase = "waiting" =>
        act.current = 0 /\ act.kind \in Outcomes /\ act.kind = outcome[act.last]
    /\ \A c \in calls : outcome[c.turn] = c.kind /\ c.turn <= act.turns
    /\ rec.state \in Recovering =>
        /\ rec.cause # "none" /\ outcome[rec.turn] = rec.cause
        /\ rec.state = "armed" => rec.cause = "usage"
        /\ rec.turn <= act.turns

\* A call about an earlier turn carries an earlier revision: what
\* complete_provider_capacity_recovery tells a late call by.
RevOrder ==
    /\ \A c \in calls : c.rev <= act.revision /\ (c.turn < act.turns => c.rev < act.revision)
    /\ \A c, d \in calls : c.turn < d.turn => c.rev < d.rev
    /\ rec.state \in Recovering => \A c \in calls : c.turn < rec.turn => c.rev < rec.rev

\* The recovery follows turn t and has claimed it.
Followed(t) == rec.turn = t /\ rec.state \in {"checking", "resumed"}

\* No claim of turn t can be made any more, unless the user steps in.
Closed(t) == ~Enabled \/ t < act.turns

\* A continuation that may still be given is the first of its turn, unless the
\* turn was displaced.
FirstOfTurn ==
    sub.pc = "released" /\ ~sub.stale =>
        \/ sub.claim.turn \in displaced
        \/ /\ writes[sub.claim.turn] = 0
           /\ rec = sub.claim \/ Closed(sub.claim.turn)

\* One that was given is followed, or its turn is closed.
Given ==
    \A t \in Turns \ displaced :
        writes[t] = 0 \/ (writes[t] = 1 /\ (Followed(t) \/ Closed(t)))

\* Only Codex reports refused capacity.
OfCodex ==
    /\ \A c \in calls : c.kind = "capacity" => agent = "codex"
    /\ rec.state \in Recovering /\ rec.cause = "capacity" => agent = "codex"
    /\ sub # NoSub /\ sub.claim.cause = "capacity" => agent = "codex"

\* The record counts every continuation of the chain, and the one to come; a
\* completion still to be applied is of a turn before the chain's last.
Counted ==
    /\ chain <= MAX_TRANSIENT_ATTEMPTS
    /\ chain > 0 /\ Enabled =>
        /\ rec.cause = "capacity" /\ rec.state \in Recovering /\ chain <= rec.attempt
        /\ rec.state = "scheduled" => rec.turn = act.turns
        /\ queued => rec.turn = act.turns /\ rec.state \in {"checking", "resumed"}
        /\ \A c \in calls : c.kind = "completed" => c.turn < rec.turn
    /\ sub.pc = "released" /\ rec = sub.claim /\ rec.cause = "capacity" =>
        chain < rec.attempt
    /\ act.phase = "waiting" /\ act.kind # "capacity" => chain = 0

Tally == Order /\ RevOrder /\ FirstOfTurn /\ Given /\ OfCodex /\ Counted

\* What a step needs to know of the types.
LEMMA Fields ==
    ASSUME Inv
    PROVE  /\ rec.turn \in 0..MaxTurn /\ rec.attempt \in Nat /\ chain \in Nat
           /\ rec.attempt <= MAX_TRANSIENT_ATTEMPTS /\ MAX_TRANSIENT_ATTEMPTS \in Nat
           /\ rec.state \in Recovering => rec.turn \in Turns
           /\ act.turns \in Nat /\ act.last \in Nat /\ act.current \in Nat
           /\ act.revision \in Nat /\ rec.rev \in Nat
           /\ \A c \in calls : /\ c.turn \in Turns /\ c.turn \in Nat /\ c.rev \in Nat
                               /\ c.kind \in {"completed", "usage", "capacity"}
           /\ \A t \in Turns : writes[t] \in 0..2 /\ t \in Nat
           /\ sub # NoSub => sub.claim \in Records /\ sub.claim.turn \in Turns
           /\ sub.pc # "none" => sub # NoSub
<1>a. MaxTurn \in Nat /\ MAX_TRANSIENT_ATTEMPTS \in Nat /\ MaxRevision \in Nat
  BY AutoResumeAssumption
<1>1. /\ rec.turn \in 0..MaxTurn /\ rec.attempt \in Nat /\ chain \in Nat
      /\ rec.attempt <= MAX_TRANSIENT_ATTEMPTS /\ MAX_TRANSIENT_ATTEMPTS \in Nat
      /\ rec.state \in Recovering => rec.turn \in Turns
      /\ rec.rev \in Nat
  BY <1>a DEF Inv, TypeOK, Shape, Records, Turns
<1>2. /\ act.turns \in Nat /\ act.last \in Nat /\ act.current \in Nat
      /\ act.revision \in Nat
  BY <1>a DEF Inv, TypeOK, Activities
<1>3. ASSUME NEW c \in calls
      PROVE  /\ c.turn \in Turns /\ c.turn \in Nat /\ c.rev \in Nat
             /\ c.kind \in {"completed", "usage", "capacity"}
  BY <1>a DEF Inv, TypeOK, Calls, Turns
<1>4. \A t \in Turns : writes[t] \in 0..2 /\ t \in Nat
  BY <1>a DEF Inv, TypeOK, Turns
<1>5. sub # NoSub => sub.claim \in Records /\ sub.claim.turn \in Turns
  BY <1>a DEF Inv, TypeOK, Shape, Submissions, Records, Turns
<1>6. sub.pc # "none" => sub # NoSub
  BY DEF NoSub
<1> QED
  BY <1>1, <1>2, <1>3, <1>4, <1>5, <1>6

LEMMA TallyInit == Init => Tally
<1> SUFFICES ASSUME Init
             PROVE  Tally
  OBVIOUS
<1>1. rec.state = "disabled" /\ ~Enabled
  BY ResetRecord DEF Init, Enabled
<1>2. sub.pc = "none" /\ sub = NoSub /\ chain = 0 /\ calls = {} /\ act.phase # "waiting"
  BY DEF Init, NoSub
<1>3. Order
  BY <1>1, <1>2 DEF Init, Order, Recovering
<1>4. RevOrder /\ FirstOfTurn /\ Given /\ OfCodex
  BY <1>1, <1>2 DEF Init, RevOrder, FirstOfTurn, Given, OfCodex, Recovering
<1>5. Counted
  BY <1>1, <1>2, AutoResumeAssumption DEF Counted
<1> QED
  BY <1>3, <1>4, <1>5 DEF Tally

-----------------------------------------------------------------------------
(* The provider.                                                           *)

\* What an activity event leaves alone, with later turns only added.
LEMMA TallyActivity ==
    ASSUME Inv, Tally, UNCHANGED <<agent, rec, sub, writes, displaced>>,
           act'.turns \in Nat, act'.turns >= act.turns
    PROVE  FirstOfTurn' /\ Given'
<1>1. Enabled' = Enabled
  BY DEF Enabled
<1>2. \A t \in Turns : Closed(t) => Closed(t)'
  BY <1>1, Fields DEF Closed
<1>3. FirstOfTurn'
  BY <1>2, Fields DEF Tally, FirstOfTurn, NoSub
<1>4. Given'
  BY <1>2 DEF Tally, Given, Followed
<1> QED
  BY <1>3, <1>4

LEMMA TallyStarted ==
    ASSUME Inv, Tally, NEW byUser \in BOOLEAN, TurnStarted(byUser)
    PROVE  Tally'
<1>1. /\ act'.phase = "working" /\ act'.turns = act.turns + 1
      /\ act'.current = act.turns + 1
      /\ act'.revision = act.revision + 1
      /\ UNCHANGED <<agent, rec, outcome, calls, sub, writes, displaced>>
      /\ chain' = IF byUser THEN 0 ELSE chain
      /\ byUser \/ (queued /\ queued' = FALSE)
    BY DEF TurnStarted, Inv, TypeOK, Activities
<1>2. Order' /\ RevOrder' /\ OfCodex'
  BY <1>1, Fields DEF Tally, Order, RevOrder, OfCodex
<1>3. FirstOfTurn' /\ Given'
  BY <1>1, Fields, TallyActivity
<1>4. Counted'
  BY <1>1, Fields DEF Tally, Counted, Enabled
<1> QED
  BY <1>2, <1>3, <1>4 DEF Tally

LEMMA TallyProgress ==
    ASSUME Inv, Tally, Progress \/ Degrade
    PROVE  Tally'
<1>1. /\ act'.phase \in {"working", "unknown"} /\ act'.turns = act.turns
      /\ act'.last = act.last /\ act'.current \in {act.current, act.last}
      /\ act'.current # act.current => act.current = 0
      /\ act'.revision = act.revision + 1
      /\ UNCHANGED <<agent, rec, outcome, calls, sub, writes, chain, queued, displaced>>
    BY DEF Progress, Degrade, ghosts, Inv, TypeOK, Activities
<1>2. Order' /\ RevOrder' /\ OfCodex'
  BY <1>1, Fields DEF Tally, Order, RevOrder, OfCodex
<1>3. FirstOfTurn' /\ Given'
  BY <1>1, Fields, TallyActivity
<1>4. Counted'
  BY <1>1, Fields DEF Tally, Counted, Enabled
<1> QED
  BY <1>2, <1>3, <1>4 DEF Tally

LEMMA TallyEnded ==
    ASSUME Inv, Tally, NEW kind \in Outcomes, TurnEnded(kind)
    PROVE  Tally'
<1> DEFINE turn == IF act.current = 0 THEN act.last ELSE act.current
           call == [kind |-> kind, turn |-> turn, rev |-> act.revision + 1]
<1>1. /\ act'.phase = "waiting" /\ act'.turns = act.turns /\ act'.current = 0
      /\ act'.last = turn /\ act'.kind = kind /\ act'.revision = act.revision + 1
      /\ UNCHANGED <<agent, rec, sub, writes, queued, displaced>>
      /\ outcome' = [outcome EXCEPT ![turn] = kind]
      /\ outcome[turn] \in {"none", kind}
      /\ chain' = IF kind = "capacity" THEN chain ELSE 0
      /\ kind = "capacity" => agent = "codex"
      /\ turn # 0
    BY Fields DEF TurnEnded, Inv, TypeOK, Activities
<1>2. turn = act.turns /\ turn \in Turns
  <2>1. turn \in 0..MaxTurn
    BY ActivityFields
  <2> QED
    BY <1>1, <2>1, AutoResumeAssumption DEF Tally, Order, Turns
<1>3. /\ outcome'[turn] = kind
      /\ \A t \in Turns : t # turn => outcome'[t] = outcome[t]
  BY <1>1, <1>2 DEF Inv, TypeOK
<1>4. \A c \in calls' : c \in calls \/ c = call
  BY DEF TurnEnded
<1>5. call.kind = kind /\ call.turn = turn /\ call.rev = act.revision + 1
  OBVIOUS
<1> HIDE DEF turn, call
<1>6. RevOrder'
  BY <1>1, <1>2, <1>4, <1>5, Fields DEF Tally, Order, RevOrder
<1>7. Order'
  <2>1. \A c \in calls' : outcome'[c.turn] = c.kind /\ c.turn <= act'.turns
    BY <1>1, <1>2, <1>3, <1>4, <1>5, Fields DEF Tally, Order
  <2>2. rec'.state \in Recovering =>
          /\ rec'.cause # "none" /\ outcome'[rec'.turn] = rec'.cause
          /\ rec'.state = "armed" => rec'.cause = "usage"
          /\ rec'.turn <= act'.turns
    BY <1>1, <1>2, <1>3, <1>4, <1>5, Fields DEF Tally, Order
  <2> QED
    BY <1>1, <1>2, <1>3, <2>1, <2>2 DEF Order
<1>8. FirstOfTurn' /\ Given'
  BY <1>1, Fields, TallyActivity
<1>9. OfCodex'
  BY <1>1, <1>4, <1>5 DEF Tally, OfCodex
<1>10. Counted'
  BY <1>1, <1>4, <1>5, Fields DEF Tally, Counted, Enabled
<1> QED
  BY <1>6, <1>7, <1>8, <1>9, <1>10 DEF Tally

LEMMA TallyReplay ==
    ASSUME Inv, Tally, Replay
    PROVE  Tally'
<1> DEFINE call == [kind |-> act.kind, turn |-> act.last, rev |-> act.revision]
<1>1. calls' = calls \cup {call}
  BY DEF Replay
<1>2. /\ UNCHANGED <<agent, rec, act, outcome, sub, queued, writes, chain, displaced>>
      /\ act.phase = "waiting" /\ Arms(act.kind)
  BY DEF Replay, ghosts
<1>3. call.kind = act.kind /\ call.turn = act.last /\ call.rev = act.revision
  OBVIOUS
<1> HIDE DEF call
<1>4. Order' /\ RevOrder'
  BY <1>1, <1>2, <1>3, Fields DEF Tally, Order, RevOrder
<1>5. FirstOfTurn' /\ Given'
  BY <1>2, Fields, TallyActivity
<1>6. OfCodex'
  BY <1>1, <1>2, <1>3 DEF Tally, OfCodex, Arms
<1>7. Counted'
  BY <1>1, <1>2, <1>3 DEF Tally, Order, Counted, Enabled
<1> QED
  BY <1>4, <1>5, <1>6, <1>7 DEF Tally

-----------------------------------------------------------------------------
(* The record, the call and the continuation.                              *)

\* The continuation in flight stays or cannot be given any more.
Settles ==
    \/ sub' = sub
    \/ sub'.pc # "released" /\ sub' = NoSub
    \/ sub'.pc # "released" /\ sub # NoSub /\ sub' # NoSub /\ sub'.claim = sub.claim

\* The recovery ends.
LEMMA TallyOver ==
    ASSUME Inv, Inv', Tally, UNCHANGED <<agent, act, outcome, queued, writes, displaced>>,
           calls' \subseteq calls, chain' \in {0, chain}, Settles,
           ~Enabled'
    PROVE  Tally'
<1>1. rec'.state \notin Recovering
  BY DEF Enabled, Recovering
<1>2. Order' /\ RevOrder'
  BY <1>1, Fields DEF Tally, Order, RevOrder
<1>3. FirstOfTurn' /\ Given'
  <2>1. sub'.pc = "released" => sub' = sub
    BY DEF Settles
  <2> QED
    BY <2>1 DEF Tally, FirstOfTurn, Given, Closed
<1>4. OfCodex'
  BY <1>1 DEF Tally, OfCodex, Settles
<1>5. Counted'
  <2>1. sub'.pc = "released" => sub' # NoSub /\ sub'.claim.state = "checking"
    BY DEF Inv, Shape, NoSub
  <2>2. sub'.pc = "released" => rec' # sub'.claim
    BY <1>1, <2>1 DEF Recovering
  <2> QED
    BY <2>2, Fields, AutoResumeAssumption DEF Tally, Counted
<1> QED
  BY <1>2, <1>3, <1>4, <1>5 DEF Tally

\* The record stays.
LEMMA TallySame ==
    ASSUME Inv, Tally, UNCHANGED <<agent, rec, act, outcome, queued, writes, displaced>>,
           calls' \subseteq calls, chain' \in {0, chain}, Settles
    PROVE  Tally'
<1>1. Order' /\ RevOrder'
  BY Fields DEF Tally, Order, RevOrder
<1>2. FirstOfTurn' /\ Given' /\ OfCodex'
  <2>1. sub'.pc = "released" => sub' = sub
    BY DEF Settles
  <2>2. Enabled' = Enabled
    BY DEF Enabled
  <2> QED
    BY <2>1, <2>2 DEF Tally, FirstOfTurn, Given, Followed, Closed, OfCodex, Settles
<1>3. Counted'
  <2>1. sub'.pc = "released" => sub' = sub
    BY DEF Settles
  <2> QED
    BY <2>1, Fields, AutoResumeAssumption DEF Tally, Counted, Enabled
<1> QED
  BY <1>1, <1>2, <1>3 DEF Tally

\* A recovery that waits goes on waiting.
LEMMA TallyWaits ==
    ASSUME Inv, Tally,
           UNCHANGED <<agent, act, outcome, calls, queued, writes, chain, sub, displaced>>,
           Pending, rec'.state \in {"armed", "scheduled", "transient_failure"},
           rec'.turn = rec.turn, rec'.cause = rec.cause, rec'.rev = rec.rev,
           rec'.state = "armed" => rec.state = "armed",
           rec.cause = "capacity" =>
             /\ rec'.attempt = rec.attempt
             /\ rec'.state = "scheduled" => rec.state = "scheduled"
    PROVE  Tally'
<1>1. /\ rec.state \in Recovering /\ rec'.state \in Recovering
      /\ Enabled /\ Enabled'
      /\ rec.state \notin {"checking", "resumed"}
  BY DEF Pending, Recovering, Enabled
<1>2. sub.pc = "released" => sub # NoSub /\ sub.claim.state = "checking"
  BY DEF Inv, Shape, NoSub
<1>3. Order' /\ RevOrder' /\ OfCodex'
  BY <1>1 DEF Tally, Order, RevOrder, OfCodex
<1>4. FirstOfTurn' /\ Given'
  BY <1>1, <1>2 DEF Tally, FirstOfTurn, Given, Followed, Closed
<1>5. Counted'
  BY <1>1, <1>2 DEF Tally, Counted
<1> QED
  BY <1>3, <1>4, <1>5 DEF Tally

\* A claim whose text was given, or may have been, is resumed.
LEMMA TallyResumed ==
    ASSUME Inv, Tally,
           UNCHANGED <<agent, act, outcome, calls, queued, writes, chain, displaced>>,
           sub' = NoSub, rec.state = "checking", rec'.state = "resumed",
           rec'.turn = rec.turn, rec'.cause = rec.cause, rec'.attempt = rec.attempt,
           rec'.rev = rec.rev
    PROVE  Tally'
<1>1. /\ rec.state \in Recovering /\ rec'.state \in Recovering
      /\ Enabled /\ Enabled' /\ sub'.pc # "released"
  BY DEF Recovering, Enabled, NoSub
<1>2. Order' /\ RevOrder' /\ OfCodex'
  BY <1>1 DEF Tally, Order, RevOrder, OfCodex
<1>3. FirstOfTurn' /\ Given'
  BY <1>1 DEF Tally, FirstOfTurn, Given, Followed, Closed
<1>4. Counted'
  BY <1>1 DEF Tally, Counted
<1> QED
  BY <1>2, <1>3, <1>4 DEF Tally

-----------------------------------------------------------------------------
(* Arming.                                                                 *)

\* A claim that the record gives up is of a turn that is over, or was displaced.
LEMMA TallyMoves ==
    ASSUME Inv, Tally, Enabled, Enabled',
           UNCHANGED <<agent, act, outcome, queued, writes, sub>>,
           displaced \subseteq displaced',
           rec'.state \notin {"checking", "resumed"},
           rec.state \in {"checking", "resumed"} =>
             rec.turn < act.turns \/ rec.turn \in displaced'
    PROVE  FirstOfTurn' /\ Given'
<1>1. \A t \in Turns : Followed(t) => t < act.turns \/ t \in displaced'
  BY DEF Followed
<1>2. Given'
  BY <1>1 DEF Tally, Given, Closed
<1>3. FirstOfTurn'
  <2> SUFFICES ASSUME sub.pc = "released", ~sub.stale, sub.claim.turn \notin displaced'
               PROVE  writes[sub.claim.turn] = 0 /\ sub.claim.turn < act.turns
    BY DEF FirstOfTurn, Closed
  <2>1. sub # NoSub /\ sub.claim.state = "checking" /\ sub.claim.turn \in Turns
    BY Fields DEF Inv, Shape, NoSub
  <2>2. writes[sub.claim.turn] = 0 /\ (rec = sub.claim \/ sub.claim.turn < act.turns)
    BY DEF Tally, FirstOfTurn, Closed
  <2>3. rec = sub.claim => Followed(sub.claim.turn)
    BY <2>1 DEF Followed
  <2> QED
    BY <1>1, <2>1, <2>2, <2>3
<1> QED
  BY <1>2, <1>3

LEMMA TallyUsage ==
    ASSUME Inv, Inv', Tally, NEW c \in calls, ArmUsage(c)
    PROVE  Tally'
<1>1. /\ c.kind = "usage"
      /\ UNCHANGED <<agent, act, outcome, calls, sub, queued, writes>>
  BY DEF ArmUsage
<1>2. CASE ~UsageArms(c)
  <2>1. UNCHANGED <<rec, chain, displaced>>
    BY <1>2 DEF ArmUsage
  <2> QED
    BY <1>1, <2>1, TallySame DEF Settles
<1>3. CASE UsageArms(c)
  <2>1. /\ rec'.state = "armed" /\ rec'.cause = "usage" /\ rec'.turn = c.turn
        /\ rec'.rev = c.rev
    BY <1>3 DEF ArmUsage, Inv, TypeOK, Records
  <2>2. Enabled /\ Enabled' /\ rec'.state \in Recovering
    BY <1>3, <2>1 DEF UsageArms, Enabled, Recovering
  <2>3. /\ chain' = 0 /\ displaced \subseteq displaced'
        /\ Overtaken(c) => rec.turn \in displaced'
    BY <1>3 DEF ArmUsage
  <2>4. rec.state \in {"checking", "resumed"} =>
          rec.turn < act.turns \/ rec.turn \in displaced'
    <3> SUFFICES ASSUME rec.state \in {"checking", "resumed"}, ~Overtaken(c)
                 PROVE  rec.turn < act.turns
      BY <2>3
    <3>1. rec.turn # c.turn
      BY <1>3 DEF UsageArms, SameTurn
    <3>2. c.turn <= act.turns
      BY DEF Tally, Order
    <3> QED
      BY <3>1, <3>2, Fields DEF Overtaken
  <2>5. FirstOfTurn' /\ Given'
    BY <1>1, <2>1, <2>2, <2>3, <2>4, TallyMoves
  <2>6. Order' /\ RevOrder' /\ OfCodex'
    BY <1>1, <2>1 DEF Tally, Order, RevOrder, OfCodex
  <2>7. Counted'
    <3>1. sub'.pc = "released" => rec' # sub'.claim
      BY <2>1 DEF Inv, Shape, NoSub
    <3> QED
      BY <1>1, <2>3, <3>1, Fields DEF Counted
  <2> QED
    BY <2>5, <2>6, <2>7 DEF Tally
<1> QED
  BY <1>2, <1>3

\* A completion that resets the record is of a later turn than the record's, and no
\* chain is counted: a late one has too early a revision.
LEMMA TallyComplete ==
    ASSUME Inv, Inv', Tally, NEW c \in calls, CompleteCapacity(c)
    PROVE  Tally'
<1>1. /\ c.kind = "completed"
      /\ UNCHANGED <<agent, act, outcome, calls, sub, queued, writes, chain, displaced>>
  BY DEF CompleteCapacity, ghosts
<1>2. CASE rec' = rec
  BY <1>1, <1>2, TallySame DEF Settles
<1>3. CASE SameChain /\ c.rev > rec.rev /\ rec' = Reset(TRUE)
  <2>1. rec'.state = "enabled" /\ rec'.cause = "none"
    BY <1>3 DEF Reset
  <2>2. /\ Enabled /\ Enabled' /\ rec'.state \notin Recovering
        /\ rec.state \in Recovering /\ rec.state = "resumed" /\ rec.cause = "capacity"
    BY <1>3, <2>1 DEF SameChain, Enabled, Recovering
  <2>3. ~(c.turn < rec.turn)
    BY <1>3, <2>2, Fields DEF Tally, RevOrder
  <2>4. rec.turn < act.turns
    <3>1. outcome[rec.turn] = "capacity" /\ outcome[c.turn] = "completed"
      BY <1>1, <2>2 DEF Tally, Order
    <3>2. rec.turn # c.turn /\ c.turn <= act.turns
      BY <3>1 DEF Tally, Order
    <3> QED
      BY <2>3, <3>2, Fields
  <2>5. FirstOfTurn' /\ Given'
    BY <1>1, <2>1, <2>2, <2>4, TallyMoves
  <2>6. chain = 0
    BY <1>1, <2>2, <2>3, Fields DEF Tally, Counted
  <2>7. Order' /\ RevOrder' /\ OfCodex'
    BY <1>1, <2>2 DEF Tally, Order, RevOrder, OfCodex
  <2>8. Counted'
    BY <1>1, <2>1, <2>6, Fields DEF Counted
  <2> QED
    BY <2>5, <2>7, <2>8 DEF Tally
<1> QED
  BY <1>2, <1>3 DEF CompleteCapacity

LEMMA TallyCapacity ==
    ASSUME Inv, Inv', Tally, NEW c \in calls, ArmCapacity(c)
    PROVE  Tally'
<1>1. /\ c.kind = "capacity"
      /\ UNCHANGED <<agent, act, outcome, calls, sub, queued, writes, displaced>>
      /\ chain' \in {0, chain}
      /\ CapacityArms(c) /\ rec.state = "transient_failure" => chain' = 0
  BY DEF ArmCapacity
<1>2. CASE ~CapacityArms(c)
  BY <1>1, <1>2, TallySame DEF ArmCapacity, Settles
<1>3. CASE CapacityArms(c) /\ rec' = Over("terminal_failure")
  <2>1. ~Enabled'
    BY <1>3, OverRecord DEF Enabled
  <2> QED
    BY <1>1, <2>1, TallyOver DEF Settles
<1>4. CASE /\ CapacityArms(c)
           /\ rec' = [rec EXCEPT !.state = "scheduled", !.cause = "capacity", !.turn = c.turn,
                                 !.rev = c.rev, !.ever = TRUE, !.waits = TRUE,
                                 !.attempt = IF SameChain THEN @ ELSE 0,
                                 !.fallback = IF SameChain THEN @ ELSE 0]
  <2>1. /\ rec'.state = "scheduled" /\ rec'.cause = "capacity" /\ rec'.turn = c.turn
        /\ rec'.rev = c.rev
        /\ SameChain => rec'.attempt = rec.attempt
    BY <1>4 DEF Inv, TypeOK, Records
  <2>2. Enabled /\ Enabled' /\ rec'.state \in Recovering
    BY <1>4, <2>1 DEF CapacityArms, Enabled, Recovering
  <2>3. outcome[c.turn] = "capacity" /\ c.turn = act.turns /\ agent = "codex"
    BY <1>1, <1>4 DEF Tally, Order, OfCodex, CapacityArms
  <2>4. rec.state \in {"checking", "resumed"} => rec.turn < act.turns
    <3>1. rec.state \in {"checking", "resumed"} => rec.turn # c.turn /\ rec.turn <= act.turns
      BY <1>4, <2>3 DEF Tally, Order, CapacityArms, SameTurn, Claimed, Recovering
    <3> QED
      BY <2>3, <3>1, Fields
  <2>5. FirstOfTurn' /\ Given'
    BY <1>1, <2>1, <2>2, <2>4, TallyMoves
  <2>6. Order' /\ RevOrder' /\ OfCodex'
    BY <1>1, <2>1, <2>3, Fields DEF Tally, Order, RevOrder, OfCodex
  <2>7. chain' > 0 => /\ SameChain /\ chain <= rec.attempt /\ chain' = chain /\ ~queued
    <3> SUFFICES ASSUME chain' > 0
                 PROVE  SameChain /\ chain <= rec.attempt /\ chain' = chain /\ ~queued
      OBVIOUS
    <3>1. /\ chain' = chain /\ chain > 0 /\ rec.state # "transient_failure"
      BY <1>1, <1>4, Fields
    <3>2. /\ rec.cause = "capacity" /\ rec.state \in Recovering /\ chain <= rec.attempt
          /\ rec.state = "scheduled" => rec.turn = act.turns
          /\ queued => rec.turn = act.turns /\ rec.state \in {"checking", "resumed"}
      BY <2>2, <3>1 DEF Tally, Counted
    <3>3. rec.state # "armed" /\ rec.state # "checking"
      BY <1>4, <3>2 DEF Tally, Order, CapacityArms, Claimed
    <3>4. rec.state # "scheduled"
      BY <1>4, <2>3, <3>2 DEF CapacityArms, SameTurn
    <3> QED
      BY <2>3, <2>4, <3>1, <3>2, <3>3, <3>4, Fields DEF Recovering, SameChain
  <2>8. \A d \in calls : d.kind = "completed" => d.turn < act.turns
    <3> SUFFICES ASSUME NEW d \in calls, d.kind = "completed"
                 PROVE  d.turn < act.turns
      OBVIOUS
    <3>1. outcome[d.turn] = "completed" /\ d.turn <= act.turns
      BY DEF Tally, Order
    <3> QED
      BY <2>3, <3>1, Fields
  <2>9. Counted'
    <3>1. sub'.pc = "released" => rec' # sub'.claim
      BY <2>1 DEF Inv, Shape, NoSub
    <3>2. chain' <= MAX_TRANSIENT_ATTEMPTS
      BY <1>1, Fields DEF Tally, Counted
    <3>3. act'.phase = "waiting" /\ act'.kind # "capacity" => chain' = 0
      BY <1>4 DEF CapacityArms, ArmCapacity
    <3> QED
      BY <1>1, <2>1, <2>2, <2>3, <2>7, <2>8, <3>1, <3>2, <3>3 DEF Counted
  <2> QED
    BY <2>5, <2>6, <2>9 DEF Tally
<1> QED
  BY <1>2, <1>3, <1>4 DEF ArmCapacity

LEMMA TallyLost ==
    ASSUME Inv, Tally, NEW c \in calls, EndCall(c)
    PROVE  Tally'
BY TallySame DEF EndCall, ghosts, Settles

-----------------------------------------------------------------------------
(* The user, who starts the counts again or changes nothing.               *)

LEMMA TallyUser ==
    ASSUME Inv, Inv', Tally, UNCHANGED <<agent, calls, outcome, displaced>>,
           \/ UNCHANGED <<act, queued>>
           \/ /\ act'.phase = "starting" /\ act'.current = 0 /\ act'.turns = act.turns
              /\ act'.last = act.turns /\ act'.revision = act.revision + 1
              /\ queued' = FALSE,
           \/ UNCHANGED <<rec, writes, chain>> /\ Settles
           \/ /\ rec'.state \notin Recovering
              /\ writes' = [t \in Turns |-> 0] /\ chain' = 0
              /\ \/ sub' = NoSub
                 \/ sub # NoSub /\ sub' # NoSub /\ sub'.claim = sub.claim /\ sub'.stale = TRUE
    PROVE  Tally'
<1>1. CASE UNCHANGED <<rec, writes, chain>> /\ Settles
  <2>1. sub'.pc = "released" => sub' = sub
    BY <1>1 DEF Settles
  <2>2. Enabled' = Enabled /\ act'.turns = act.turns
    BY <1>1 DEF Enabled
  <2>3. Order' /\ RevOrder'
    BY <1>1, Fields DEF Tally, Order, RevOrder
  <2>4. FirstOfTurn' /\ Given' /\ OfCodex'
    BY <1>1, <2>1, <2>2 DEF Tally, FirstOfTurn, Given, Followed, Closed, OfCodex, Settles
  <2>5. Counted'
    BY <1>1, <2>1, <2>2 DEF Tally, Counted
  <2> QED
    BY <2>3, <2>4, <2>5 DEF Tally
<1>2. CASE /\ rec'.state \notin Recovering
           /\ writes' = [t \in Turns |-> 0] /\ chain' = 0
           /\ \/ sub' = NoSub
              \/ sub # NoSub /\ sub' # NoSub /\ sub'.claim = sub.claim /\ sub'.stale = TRUE
  <2>1. sub'.pc = "released" => sub' # NoSub /\ sub'.stale = TRUE
    BY <1>2 DEF NoSub
  <2>2. sub' # NoSub => sub'.claim.state = "checking"
    BY DEF Inv, Shape
  <2>3. Order' /\ RevOrder'
    BY <1>2, Fields DEF Tally, Order, RevOrder
  <2>4. FirstOfTurn' /\ Given' /\ OfCodex'
    BY <1>2, <2>1 DEF Tally, FirstOfTurn, Given, OfCodex
  <2>5. sub'.pc = "released" => rec' # sub'.claim
    BY <1>2, <2>1, <2>2 DEF Recovering
  <2>6. Counted'
    BY <1>2, <2>5, Fields, AutoResumeAssumption DEF Tally, Counted
  <2> QED
    BY <2>3, <2>4, <2>6 DEF Tally
<1> QED
  BY <1>1, <1>2

\* What an operation of the user does to the counts and to the continuation.
LEMMA UserCounts ==
    ASSUME Inv, NEW r, UserSets(r), r = rec \/ r.state \notin Recovering
    PROVE  /\ UNCHANGED <<agent, calls, displaced>>
           /\ \/ UNCHANGED <<rec, writes, chain>> /\ Outdated = sub
              \/ /\ rec'.state \notin Recovering
                 /\ writes' = [t \in Turns |-> 0] /\ chain' = 0
                 /\ \/ Outdated = NoSub
                    \/ /\ sub # NoSub /\ Outdated # NoSub /\ Outdated.claim = sub.claim
                       /\ Outdated.stale = TRUE
<1>1. UNCHANGED <<agent, calls, displaced>> /\ rec' = r
  BY DEF UserSets
<1>2. CASE r = rec
  BY <1>1, <1>2 DEF UserSets, Outdated
<1>3. CASE r # rec
  <2>1. sub = NoSub => Outdated = NoSub
    BY DEF Outdated
  <2>2. sub # NoSub => /\ Outdated # NoSub /\ Outdated.claim = sub.claim
                       /\ Outdated.stale = TRUE
    <3>1. sub # NoSub => Outdated = [sub EXCEPT !.stale = TRUE] /\ sub \in Submissions
      BY <1>1, <1>3 DEF Outdated, Inv, TypeOK
    <3> QED
      BY <3>1 DEF Submissions, NoSub
  <2> QED
    BY <1>1, <1>3, <2>1, <2>2 DEF UserSets
<1> QED
  BY <1>2, <1>3

LEMMA TallyByUser ==
    ASSUME Inv, Inv', Tally, User
    PROVE  Tally'
<1>1. ASSUME NEW r, r = rec \/ r.state \notin Recovering, UserSets(r),
             sub' = Outdated, UNCHANGED <<act, outcome, queued>>
      PROVE  Tally'
  BY <1>1, UserCounts, TallyUser DEF Settles
<1>2. ASSUME NEW on \in BOOLEAN, SetEnabled(on)
      PROVE  Tally'
  <2>1. Reset(on).state \notin Recovering
    BY ResetRecord DEF Recovering
  <2> QED
    BY <1>1, <1>2, <2>1 DEF SetEnabled
<1>3. CASE Cancel
  <2>1. Over("cancelled").state \notin Recovering
    BY OverRecord DEF Recovering
  <2> QED
    BY <1>1, <1>3, <2>1 DEF Cancel
<1>4. \A r \in {AfterInput(rec), AfterSwitch(rec)} : r = rec \/ r.state \notin Recovering
  BY StoppedRecord DEF Inv, TypeOK
<1>5. CASE ManualInput \/ AccountSwitch
  BY <1>1, <1>4, <1>5 DEF ManualInput, AccountSwitch
<1>6. CASE Restart
  <2>1. /\ UserSets(AfterInput(rec)) /\ UNCHANGED outcome
        /\ act'.phase = "starting" /\ act'.current = 0 /\ act'.turns = act.turns
        /\ act'.last = (IF act.current = 0 THEN act.last ELSE act.current)
        /\ queued' = FALSE /\ act'.revision = act.revision + 1
        /\ sub' = IF sub.pc = "released" THEN [Outdated EXCEPT !.pc = "refused"] ELSE Outdated
    BY <1>6 DEF Restart, Inv, TypeOK, Activities
  <2>2. act'.last = act.turns
    BY <2>1 DEF Tally, Order
  <2>3. /\ Outdated \in Submissions \cup {NoSub} /\ Outdated.pc = sub.pc
        /\ Outdated = NoSub => sub.pc # "released"
    BY OutdatedSub DEF NoSub
  <2>4. CASE sub.pc # "released"
    BY <1>4, <2>1, <2>2, <2>4, UserCounts, TallyUser DEF Settles
  <2>5. CASE sub.pc = "released"
    <3>1. /\ sub' # NoSub /\ sub'.pc = "refused" /\ sub'.claim = Outdated.claim
          /\ sub'.stale = Outdated.stale /\ sub # NoSub
      BY <2>1, <2>3, <2>5 DEF Submissions, NoSub
    <3>2. \/ UNCHANGED <<rec, writes, chain>> /\ Outdated = sub
          \/ /\ rec'.state \notin Recovering
             /\ writes' = [t \in Turns |-> 0] /\ chain' = 0
             /\ Outdated.claim = sub.claim /\ Outdated.stale = TRUE
      BY <1>4, <2>1, <2>3, <2>5, UserCounts
    <3>3. UNCHANGED <<agent, calls, displaced>>
      BY <2>1 DEF UserSets
    <3> QED
      BY <2>1, <2>2, <3>1, <3>2, <3>3, TallyUser DEF Settles
  <2> QED
    BY <2>4, <2>5
<1> QED
  BY <1>2, <1>3, <1>5, <1>6 DEF User

-----------------------------------------------------------------------------
(* The scheduler and the continuation in flight.                           *)

\* A retry that does not give up waits, and leaves the count of a chain alone.
LEMMA RetryFields ==
    ASSUME NEW r \in Records
    PROVE  /\ \/ Retry(r).state = "terminal_failure"
              \/ /\ Retry(r).state = "transient_failure" /\ Retry(r).turn = r.turn
                 /\ Retry(r).cause = r.cause /\ Retry(r).rev = r.rev
           /\ \/ CapacityRetry(r).state = "terminal_failure"
              \/ /\ CapacityRetry(r).state = "transient_failure"
                 /\ CapacityRetry(r).turn = r.turn /\ CapacityRetry(r).cause = r.cause
                 /\ CapacityRetry(r).attempt = r.attempt /\ CapacityRetry(r).rev = r.rev
<1>1. Over("terminal_failure").state = "terminal_failure"
  BY OverRecord
<1> QED
  BY <1>1 DEF Retry, CapacityRetry, Records

LEMMA TallyRecord ==
    ASSUME Inv, Inv', Tally,
           \/ Elapse \/ WakeScheduled \/ SchedulerError \/ TickRecover \/ TickRetry
           \/ TickSchedule \/ TickFallback \/ TickChanged \/ FailClosed
    PROVE  Tally'
<1>1. UNCHANGED <<agent, act, outcome, calls, sub, queued, writes, chain, displaced>>
  BY DEF Elapse, WakeScheduled, SchedulerError, TickRecover, TickRetry, TickSchedule,
     TickFallback, TickChanged, FailClosed, ghosts
<1>2. rec \in Records
  BY DEF Inv, TypeOK
<1>3. ASSUME rec'.state \in {"terminal_failure", "unavailable"}
      PROVE  Tally'
  BY <1>1, <1>3, TallyOver DEF Settles, Enabled
<1>4. CASE Elapse \/ WakeScheduled
  <2>1. /\ rec' = [rec EXCEPT !.waits = FALSE] /\ Pending
    BY <1>4 DEF Elapse, WakeScheduled, Pending
  <2>2. /\ rec'.state = rec.state /\ rec'.turn = rec.turn /\ rec'.cause = rec.cause
        /\ rec'.attempt = rec.attempt /\ rec'.rev = rec.rev
    BY <1>2, <2>1 DEF Records
  <2> QED
    BY <1>1, <2>1, <2>2, TallyWaits DEF Pending
<1>5. CASE SchedulerError
  <2>1. CASE rec' = Over("unavailable")
    BY <1>3, <2>1, OverRecord
  <2>2. CASE /\ Pending
             /\ rec' = IF rec.cause = "capacity" THEN CapacityRetry(rec) ELSE Retry(rec)
    <3>1. \/ rec'.state = "terminal_failure"
          \/ /\ rec'.state = "transient_failure" /\ rec'.turn = rec.turn
             /\ rec'.cause = rec.cause /\ rec'.rev = rec.rev
             /\ rec.cause = "capacity" => rec'.attempt = rec.attempt
      BY <1>2, <2>2, RetryFields
    <3> QED
      BY <1>1, <1>3, <2>2, <3>1, TallyWaits
  <2> QED
    BY <1>5, <2>1, <2>2 DEF SchedulerError
<1>6. CASE TickRecover
  <2>1. CASE rec' = Over("terminal_failure")
    BY <1>3, <2>1, OverRecord
  <2>2. CASE rec' = [rec EXCEPT !.state = "resumed"]
    <3>1. /\ rec'.state = "resumed" /\ rec'.turn = rec.turn /\ rec'.cause = rec.cause
          /\ rec'.attempt = rec.attempt /\ rec'.rev = rec.rev
      BY <1>2, <2>2 DEF Records
    <3>2. sub = NoSub /\ rec.state = "checking"
      BY <1>6 DEF TickRecover, TryAttempt
    <3> QED
      BY <1>1, <3>1, <3>2, TallyResumed
  <2> QED
    BY <1>6, <2>1, <2>2 DEF TickRecover
<1>7. CASE TickRetry
  <2>1. Pending /\ rec.cause = "usage" /\ rec' = Retry(rec)
    BY <1>7 DEF TickRetry, Due
  <2> QED
    BY <1>1, <1>2, <1>3, <2>1, RetryFields, TallyWaits
<1>8. CASE TickSchedule \/ TickFallback
  <2>1. Pending /\ rec.cause = "usage"
    BY <1>8 DEF TickSchedule, TickFallback, Due
  <2>2. /\ rec'.state = "scheduled" /\ rec'.turn = rec.turn /\ rec'.cause = rec.cause
        /\ rec'.rev = rec.rev
    BY <1>2, <1>8 DEF TickSchedule, TickFallback, Records
  <2> QED
    BY <1>1, <2>1, <2>2, TallyWaits
<1>9. CASE TickChanged \/ FailClosed
  BY <1>3, <1>9, OverRecord DEF TickChanged, FailClosed
<1> QED
  BY <1>4, <1>5, <1>6, <1>7, <1>8, <1>9

LEMMA TallyClaim ==
    ASSUME Inv, Inv', Tally, TickClaim
    PROVE  Tally'
<1> DEFINE n == IF rec.cause = "capacity" THEN rec.attempt + 1 ELSE rec.attempt
<1>1. rec' = [rec EXCEPT !.state = "checking", !.waits = FALSE, !.attempt = n]
  BY DEF TickClaim
<1>2. /\ rec'.state = "checking" /\ rec'.turn = rec.turn /\ rec'.cause = rec.cause
      /\ rec'.attempt = n /\ rec'.rev = rec.rev
  BY <1>1 DEF Inv, TypeOK, Records
<1>3. /\ UNCHANGED <<agent, act, outcome, calls, queued, writes, chain, displaced>>
      /\ rec.state \in {"armed", "scheduled", "transient_failure"}
      /\ act.phase = "waiting" /\ sub'.claim = rec' /\ sub' # NoSub
      /\ sub'.pc = "released" => act.last = rec.turn
  BY <1>1 DEF TickClaim, Ready, Due, Pending, Eligible, NoSub
<1>4. /\ rec.state \in Recovering /\ rec'.state \in Recovering /\ Enabled /\ Enabled'
      /\ rec.turn \in Turns
  BY <1>2, <1>3, Fields DEF Recovering, Enabled
<1>5. sub'.pc = "released" => writes[rec.turn] = 0 \/ rec.turn \in displaced
  <2>1. sub'.pc = "released" => ~Closed(rec.turn) /\ ~Followed(rec.turn)
    BY <1>3, <1>4, Fields DEF Tally, Order, Closed, Followed
  <2> QED
    BY <1>4, <2>1 DEF Tally, Given
<1>6. Order' /\ RevOrder'
  BY <1>2, <1>3, <1>4 DEF Tally, Order, RevOrder
<1>7. FirstOfTurn' /\ Given' /\ OfCodex'
  BY <1>2, <1>3, <1>4, <1>5 DEF Tally, FirstOfTurn, Given, Followed, Closed, OfCodex
<1>8. Counted'
  <2>1. rec.cause = "capacity" => rec'.attempt = rec.attempt + 1
    BY <1>2
  <2>2. chain > 0 => rec.cause = "capacity" /\ chain <= rec.attempt /\ ~queued
    BY <1>3, <1>4 DEF Tally, Counted
  <2>3. rec.cause = "capacity" => chain < rec'.attempt
    BY <2>1, <2>2, Fields
  <2> QED
    BY <1>2, <1>3, <1>4, <2>1, <2>2, <2>3, Fields DEF Tally, Counted
<1> QED
  BY <1>6, <1>7, <1>8 DEF Tally

LEMMA TallyWrite ==
    ASSUME Inv, Inv', Tally, Write
    PROVE  Tally'
<1> DEFINE t == sub.claim.turn
<1>1. /\ sub # NoSub /\ sub.claim \in Records /\ t \in Turns
      /\ sub.claim.state = "checking" /\ sub.pc = "released"
  BY Fields DEF Inv, Shape, Write
<1>2. /\ sub'.pc = "written" /\ sub' # NoSub /\ sub'.claim = sub.claim
  BY <1>1 DEF Write, Inv, TypeOK, Submissions, NoSub
<1>3. /\ UNCHANGED <<agent, rec, act, outcome, calls, displaced>> /\ queued' = TRUE
      /\ writes' = IF sub.stale THEN writes ELSE [writes EXCEPT ![t] = Least(2, @ + 1)]
      /\ chain' = IF sub.claim.cause = "capacity" THEN chain + 1 ELSE 0
  BY DEF Write
<1>4. Enabled' = Enabled
  BY <1>3 DEF Enabled
<1>5. Order' /\ RevOrder' /\ OfCodex' /\ FirstOfTurn'
  BY <1>1, <1>2, <1>3 DEF Tally, Order, RevOrder, OfCodex, FirstOfTurn
<1>6. Given'
  <2>1. CASE sub.stale
    BY <1>3, <1>4, <2>1 DEF Tally, Given, Followed, Closed
  <2>2. CASE ~sub.stale
    <3>1. \A o \in Turns : o # t => writes'[o] = writes[o]
      BY <1>1, <1>3, <2>2 DEF Inv, TypeOK
    <3>2. t \in displaced \/ (writes'[t] = 1 /\ (rec = sub.claim \/ Closed(t)))
      <4>1. t \in displaced \/ (writes[t] = 0 /\ (rec = sub.claim \/ Closed(t)))
        BY <1>1, <2>2 DEF Tally, FirstOfTurn
      <4>2. writes[t] = 0 => writes'[t] = 1
        BY <1>1, <1>3, <2>2 DEF Inv, TypeOK, Least
      <4> QED
        BY <4>1, <4>2
    <3>3. rec = sub.claim => Followed(t)
      BY <1>1 DEF Followed
    <3> QED
      BY <1>3, <1>4, <3>1, <3>2, <3>3 DEF Tally, Given, Followed, Closed
  <2> QED
    BY <2>1, <2>2
<1>7. Counted'
  <2>1. CASE sub.claim.cause # "capacity"
    BY <1>2, <1>3, <2>1, Fields DEF Tally, Counted
  <2>2. CASE sub.claim.cause = "capacity"
    <3>1. rec = sub.claim /\ Eligible(rec) /\ act.last = rec.turn
      BY <1>1, <2>2 DEF Tally, OfCodex, Write, Matches
    <3>2. /\ rec.state = "checking" /\ rec.state \in Recovering
          /\ act.phase = "waiting" /\ rec.turn = act.turns
      BY <1>1, <3>1 DEF Eligible, Recovering, Tally, Order
    <3>3. chain + 1 <= rec.attempt
      BY <1>1, <2>2, <3>1, Fields DEF Tally, Counted
    <3>4. \A c \in calls : c.kind = "completed" => c.turn < rec.turn
      <4> SUFFICES ASSUME NEW c \in calls, c.kind = "completed"
                   PROVE  c.turn < rec.turn
        OBVIOUS
      <4>1. outcome[c.turn] = "completed" /\ c.turn <= act.turns
        BY DEF Tally, Order
      <4>2. outcome[rec.turn] = "capacity"
        BY <2>2, <3>1, <3>2 DEF Tally, Order
      <4> QED
        BY <3>2, <4>1, <4>2, Fields
    <3>5. act.kind = "capacity"
      BY <2>2, <3>1, <3>2 DEF Tally, Order
    <3> QED
      BY <1>2, <1>3, <1>4, <2>2, <3>1, <3>2, <3>3, <3>4, <3>5, Fields DEF Counted
  <2> QED
    BY <2>1, <2>2
<1> QED
  BY <1>5, <1>6, <1>7 DEF Tally

LEMMA TallyInFlight ==
    ASSUME Inv, Inv', Tally,
           \/ Refuse \/ PublishTimeout \/ Crash
           \/ \E ok \in BOOLEAN : Publish(ok)
    PROVE  Tally'
<1>1. UNCHANGED <<agent, act, outcome, calls, queued, writes, chain, displaced>>
  BY DEF Refuse, PublishTimeout, Crash, Publish, ghosts
<1>2. Settles
  BY DEF Refuse, PublishTimeout, Crash, Publish, Settles, NoSub, Inv, TypeOK, Submissions
<1>3. CASE UNCHANGED rec
  BY <1>1, <1>2, <1>3, TallySame
<1>4. ASSUME NEW ok \in BOOLEAN, Publish(ok), ~UNCHANGED rec
      PROVE  Tally'
  <2>1. rec = sub.claim /\ sub' = NoSub /\ sub # NoSub /\ rec \in Records
    BY <1>4 DEF Publish, NoSub, Inv, TypeOK
  <2>2. rec.state = "checking"
    BY <2>1 DEF Inv, Shape
  <2>3. CASE ok
    <3> DEFINE f == IF rec.cause = "capacity" THEN 0 ELSE rec.fallback
    <3>1. rec' = [rec EXCEPT !.state = "resumed", !.fallback = f]
      BY <1>4, <2>1, <2>3 DEF Publish
    <3> HIDE DEF f
    <3>2. /\ rec'.state = "resumed" /\ rec'.turn = rec.turn /\ rec'.cause = rec.cause
          /\ rec'.attempt = rec.attempt /\ rec'.rev = rec.rev
      BY <2>1, <3>1 DEF Records
    <3> QED
      BY <1>1, <2>1, <2>2, <3>2, TallyResumed
  <2>4. CASE ~ok
    <3>1. ~Enabled'
      BY <1>4, <2>1, <2>4, OverRecord DEF Publish, Enabled
    <3> QED
      BY <1>1, <1>2, <3>1, TallyOver
  <2> QED
    BY <2>3, <2>4
<1> QED
  BY <1>3, <1>4 DEF Refuse, PublishTimeout, Crash

LEMMA TallyNext ==
    ASSUME Inv, Inv', Tally, [Next]_vars
    PROVE  Tally'
<1>1. CASE Provider
  BY <1>1, TallyStarted, TallyProgress, TallyEnded, TallyReplay DEF Provider
<1>2. CASE Arming
  BY <1>2, TallyUsage, TallyCapacity, TallyComplete, TallyLost DEF Arming
<1>3. CASE User
  BY <1>3, TallyByUser
<1>4. CASE Scheduler
  BY <1>4, TallyRecord, TallyClaim, TallyWrite, TallyInFlight
     DEF Scheduler, Submission
<1>5. CASE UNCHANGED vars
  BY <1>5, TallySame DEF vars, Settles
<1> QED
  BY <1>1, <1>2, <1>3, <1>4, <1>5 DEF Next

LEMMA TallyInvariance == Spec => [](Inv /\ Tally)
<1>1. Init => Inv /\ Tally
  BY InitInv, TallyInit
<1>2. Inv /\ Tally /\ [Next]_vars => (Inv /\ Tally)'
  BY NextInv, TallyNext
<1> QED
  BY <1>1, <1>2, PTL DEF Spec

\* The provider is given at most one continuation for a failed turn between two
\* interventions of the user, however many processes report the failure, however late
\* their calls take the lock, and whether the claim is lost with its process or its
\* outcome is not stored (tick_inner, arm_usage_exhaustion, arm_provider_capacity).
\* Excepted is a turn whose claim or continuation a delayed usage arming of an earlier
\* turn has displaced from the record.
THEOREM NeverReplayedTheorem == Spec => []NeverReplayed
<1>1. Inv /\ Tally => NeverReplayed
  BY Fields DEF Tally, Given, NeverReplayed
<1> QED
  BY <1>1, TallyInvariance, PTL

\* No more than MAX_TRANSIENT_ATTEMPTS capacity continuations follow each other: the
\* count is kept in the record across the turns of a chain (preserve_recovery_chain of
\* arm_provider_capacity), and a completion of an earlier turn that is applied late
\* does not reset it (the revision complete_provider_capacity_recovery asks for).
THEOREM CapacityBudgetTheorem == Spec => []CapacityBudget
<1>1. Tally => CapacityBudget
  BY DEF Tally, Counted, CapacityBudget
<1> QED
  BY <1>1, TallyInvariance, PTL

=============================================================================
