------------------------- MODULE NotificationProofs -------------------------
(***************************************************************************)
(* Reminders wake the recipient once, and leave no mail behind, for any    *)
(* number of launches, messages, generations and deaths of serve.          *)
(*                                                                         *)
(* None of the properties is inductive.  Sound says of one receipt how its *)
(* generations and its state belong together: above all, a generation that *)
(* was attempted and not notified is attempting or its outcome is unknown, *)
(* so it is never queued again.  Announced says of one message that its    *)
(* receipt covers it.  Fenced says that an attempt under way keeps its     *)
(* receipt attempting, and the fence up, until serve has the outcome or    *)
(* retention drops the receipt; Woken that a prompt of the receipt at hand *)
(* is of a generation it has attempted.                                    *)
(***************************************************************************)
EXTENDS Notification, TLAPS

Registry ==
    [messages : [Messages -> Message], notifications : [Launches -> Receipt],
     epoch : [Launches -> Nat]]

\* Receipts whose prompt may or may not have been taken.
Tried == {"attempting", "attempt_unknown"}

Sound(r) ==
    /\ r \in Receipt
    /\ r.notified <= r.generation /\ r.attempted <= r.generation
    /\ r.urgent <= r.generation
    /\ r.state = "none" => r = NoReceipt
    /\ r.state \in Tried => r.attempted > 0
    /\ r.attempted = r.generation /\ r.attempted > r.notified => r.state \in Tried
    /\ r.state = "prompt_submitted" => r.notified = r.generation
    /\ r.state = "attempting" => r.reason # Drained

\* r covers the message msg, which waits to be announced.
Covers(r, msg) ==
    /\ r.state # "none"
    /\ r.generation >= msg.generation
    /\ r.reason # Drained
    /\ msg.window => r.urgent >= msg.generation

Announced(R, m) ==
    Live(R, m) =>
        /\ R.messages[m].to \in Launches
        /\ R.messages[m].generation > 0
        /\ Covers(R.notifications[R.messages[m].to], R.messages[m])

Good(R) ==
    /\ R \in Registry
    /\ \A i \in Launches : Sound(R.notifications[i])
    /\ \A m \in Messages : Announced(R, m)

\* Launches to come have no receipt.
Ahead(R, l) == \A i \in Launches : i > l => R.notifications[i] = NoReceipt

\* A dispatch between begin_attempt and the outcome.
Submitting(i) == task[i].pc \in {"begun", "accepted"}

Attempting(r, g) == r.state = "attempting" /\ r.attempted = g /\ g > r.notified

Fenced(i) ==
    Submitting(i) =>
        /\ task[i].epoch <= reg.epoch[i]
        /\ task[i].generation > 0
        /\ task[i].epoch = reg.epoch[i] =>
            launch = i /\ Attempting(reg.notifications[i], task[i].generation)

\* The prompts that were taken or still may be.
Prompts == landed \cup flight

Woken(R, w) ==
    /\ w.generation > 0
    /\ w.epoch <= R.epoch[w.launch]
    /\ w.epoch = R.epoch[w.launch] =>
        w.generation <= R.notifications[w.launch].attempted

Fresh(i) == task[i].pc = "begun" => Wake(i) \notin Prompts

Inv ==
    /\ TypeOK
    /\ Good(reg)
    /\ Ahead(reg, launch)
    /\ phase # "dispatch" => \A i \in Launches : task[i] = NoTask
    /\ \A i \in Launches : Fenced(i) /\ Fresh(i)
    /\ \A w \in Prompts : Woken(reg, w)
    /\ flight \cap landed = {}
    /\ doubled = {}

-----------------------------------------------------------------------------
(* Receipts                                                                *)

\* A receipt that is attempting goes on with the attempt.
Held(r, s) ==
    r.state = "attempting" =>
        s.state = "attempting" /\ s.attempted = r.attempted /\ s.notified = r.notified

\* s covers the mail that r covers.
Serves(r, s) ==
    /\ r.state # "none" => s.state # "none"
    /\ s.generation >= r.generation /\ s.urgent >= r.urgent
    /\ s.reason = Drained => r.reason = Drained

\* What most transitions do to a receipt.
Goes(r, s) ==
    /\ Sound(s)
    /\ s.attempted >= r.attempted
    /\ Held(r, s)
    /\ r = NoReceipt => s = NoReceipt
    /\ Serves(r, s)

LEMMA Numbers ==
    /\ MaxLaunch \in Nat \ {0} /\ MaxMessage \in Nat /\ MaxGeneration \in Nat
    /\ MaxCrashes \in Nat /\ Retry \in Nat /\ Interval \in Nat \ {0}
    /\ MAX_SESSION_MESSAGES \in Nat /\ AlertCount \in Nat
BY NotificationAssumption

LEMMA ReceiptFields ==
    ASSUME NEW r \in Receipt
    PROVE  /\ r.state \in ReceiptStates /\ r.generation \in Generations
           /\ r.notified \in Generations /\ r.attempted \in Generations
           /\ r.wait \in 0 .. Retry /\ r.since \in 0 .. Interval
           /\ r.interval \in {0, Interval} /\ r.urgent \in Generations
           /\ r.signal \in Generations /\ r.above \in BOOLEAN /\ r.reason \in Reasons
           /\ r.generation \in Nat /\ r.notified \in Nat /\ r.attempted \in Nat
           /\ r.urgent \in Nat /\ r.signal \in Nat
BY Numbers DEF Receipt, Generations

\* The values that receipts are given.
LEMMA Values ==
    /\ 0 \in 0 .. Retry /\ Retry \in 0 .. Retry
    /\ 0 \in 0 .. Interval /\ Interval \in 0 .. Interval /\ 0 \in Generations
    /\ {"none", "queued", "attempting", "attempt_unknown", "prompt_submitted",
        "undeliverable"} \subseteq ReceiptStates
    /\ {"none", Pending, "notification-attempting", "prompt-accepted", Drained,
        HookDelivered, "recipient-incarnation-replaced", "provider-unsupported",
        "provider-not-ready", "submission-outcome-unknown"} \subseteq Reasons
    /\ Pending # Drained
<1>1. /\ 0 \in 0 .. Retry /\ Retry \in 0 .. Retry
      /\ 0 \in 0 .. Interval /\ Interval \in 0 .. Interval /\ 0 \in Generations
  BY Numbers DEF Generations
<1>2. /\ {"none", "queued", "attempting", "attempt_unknown", "prompt_submitted",
          "undeliverable"} \subseteq ReceiptStates
      /\ {"none", Pending, "notification-attempting", "prompt-accepted", Drained,
          HookDelivered, "recipient-incarnation-replaced", "provider-unsupported",
          "provider-not-ready", "submission-outcome-unknown"} \subseteq Reasons
  BY DEF ReceiptStates, Reasons
<1>3. Pending # Drained
  BY DEF Pending, Drained
<1> QED BY <1>1, <1>2, <1>3

LEMMA NoReceiptSound == Sound(NoReceipt)
<1>1. NoReceipt \in Receipt
  BY Numbers DEF NoReceipt, Receipt, Generations, ReceiptStates, Reasons
<1> QED BY <1>1 DEF Sound, NoReceipt, Tried

LEMMA GoesItself ==
    ASSUME NEW r, Sound(r)
    PROVE  Goes(r, r)
BY ReceiptFields DEF Goes, Held, Serves, Sound

\* normalize_registry finds nothing to repair in a sound receipt.
LEMMA NormalizeCurrentSame ==
    ASSUME NEW r, Sound(r)
    PROVE  NormalizeCurrent(r) = r
<1>1. r \in Receipt /\ r.notified \in Nat /\ r.generation \in Nat /\ r.attempted \in Nat
  BY ReceiptFields DEF Sound
<1>2. Least(r.notified, r.generation) = r.notified
  BY <1>1 DEF Sound, Least
<1>3. [r EXCEPT !.notified = Least(@, r.generation)] = r
  BY <1>1, <1>2 DEF Receipt
<1>4. ~(r.state = "attempting" /\ (r.attempted = 0 \/ r.attempted > r.generation))
  BY <1>1 DEF Sound, Tried
<1> QED BY <1>3, <1>4 DEF NormalizeCurrent

LEMMA ResumeGoes ==
    ASSUME NEW r, Sound(r)
    PROVE  Goes(r, ResumeNewGeneration(r))
<1> DEFINE s == [r EXCEPT !.state = "queued", !.wait = 0, !.reason = Pending]
<1>1. CASE ResumeNewGeneration(r) = r
  BY <1>1, GoesItself
<1>2. CASE /\ ResumeNewGeneration(r) = s /\ r.state = "attempt_unknown"
           /\ r.generation > r.attempted
  <2>1. r \in Receipt /\ r # NoReceipt
    BY <1>2 DEF Sound, NoReceipt
  <2>2. s \in Receipt
    BY <2>1, Values DEF Receipt
  <2>3. /\ s.state = "queued" /\ s.reason = Pending /\ s.generation = r.generation
        /\ s.notified = r.notified /\ s.attempted = r.attempted /\ s.urgent = r.urgent
    BY <2>1 DEF Receipt
  <2>4. Sound(s)
    BY <1>2, <2>1, <2>2, <2>3, ReceiptFields DEF Sound, Tried, Pending, Drained
  <2> QED BY <1>2, <2>1, <2>3, <2>4, ReceiptFields
          DEF Goes, Held, Serves, Pending, Drained
<1> QED BY <1>1, <1>2 DEF ResumeNewGeneration

LEMMA ResolveSound ==
    ASSUME NEW r, Sound(r)
    PROVE  /\ Sound(Resolve(r))
           /\ Resolve(r).attempted = r.attempted
           /\ Held(r, Resolve(r))
           /\ r = NoReceipt => Resolve(r) = NoReceipt
<1> DEFINE s == [r EXCEPT !.reason = Drained, !.wait = 0]
<1>1. CASE Resolve(r) = r
  BY <1>1 DEF Held
<1>2. CASE Resolve(r) = s /\ r.state \notin {"none", "attempting"}
  <2>1. r \in Receipt /\ r # NoReceipt
    BY <1>2 DEF Sound, NoReceipt
  <2>2. s \in Receipt
    BY <2>1, Values DEF Receipt
  <2>3. /\ s.state = r.state /\ s.generation = r.generation
        /\ s.notified = r.notified /\ s.attempted = r.attempted /\ s.urgent = r.urgent
    BY <2>1 DEF Receipt
  <2> QED BY <1>2, <2>1, <2>2, <2>3 DEF Sound, Held
<1> QED BY <1>1, <1>2 DEF Resolve

-----------------------------------------------------------------------------
(* Registries                                                              *)

\* An attempt goes on unless its receipt is one of I or retention drops it.
Steady(R, S, I) ==
    \A i \in Launches :
        \/ S.epoch[i] > R.epoch[i]
        \/ /\ S.epoch[i] = R.epoch[i]
           /\ S.notifications[i].attempted >= R.notifications[i].attempted
           /\ i \notin I => Held(R.notifications[i], S.notifications[i])

\* Only the launches J get a receipt.
Silent(R, S, J) ==
    \A i \in Launches \ J :
        R.notifications[i] = NoReceipt => S.notifications[i] = NoReceipt

Leads(R, S, I, J) == Good(S) /\ Steady(R, S, I) /\ Silent(R, S, J)

\* One receipt of such a step, where no receipt is dropped.
OneGoes(R, i, s, I, J) ==
    LET r == R.notifications[i]
    IN  /\ Sound(s)
        /\ s.attempted >= r.attempted
        /\ i \notin I => Held(r, s)
        /\ i \notin J => (r = NoReceipt => s = NoReceipt)
        /\ (\E m \in Messages : Live(R, m) /\ R.messages[m].to = i) => Serves(r, s)

LEMMA GoodParts ==
    ASSUME NEW R, Good(R)
    PROVE  /\ R \in Registry
           /\ R.messages \in [Messages -> Message]
           /\ R.notifications \in [Launches -> Receipt]
           /\ R.epoch \in [Launches -> Nat]
           /\ \A i \in Launches : Sound(R.notifications[i])
           /\ \A i \in Launches : R.epoch[i] \in Nat
           /\ \A m \in Messages : Announced(R, m)
BY DEF Good, Registry

LEMMA LeadsItself ==
    ASSUME NEW R, Good(R), NEW I, NEW J
    PROVE  Leads(R, R, I, J)
<1>1. \A i \in Launches : Goes(R.notifications[i], R.notifications[i])
  BY GoodParts, GoesItself
<1> QED BY <1>1, GoodParts DEF Leads, Steady, Silent, Goes

LEMMA LeadsOn ==
    ASSUME NEW R, NEW S, NEW T, NEW I, NEW J, Good(R),
           Leads(R, S, I, J), Leads(S, T, I, J)
    PROVE  Leads(R, T, I, J)
<1>1. Steady(R, T, I)
  <2> SUFFICES ASSUME NEW i \in Launches
               PROVE  \/ T.epoch[i] > R.epoch[i]
                      \/ /\ T.epoch[i] = R.epoch[i]
                         /\ T.notifications[i].attempted >= R.notifications[i].attempted
                         /\ i \notin I => Held(R.notifications[i], T.notifications[i])
    BY DEF Steady
  <2>1. /\ R.epoch[i] \in Nat /\ S.epoch[i] \in Nat /\ T.epoch[i] \in Nat
        /\ R.notifications[i].attempted \in Nat /\ S.notifications[i].attempted \in Nat
        /\ T.notifications[i].attempted \in Nat
    BY GoodParts, ReceiptFields DEF Leads, Sound
  <2>2. \/ S.epoch[i] > R.epoch[i]
        \/ /\ S.epoch[i] = R.epoch[i]
           /\ S.notifications[i].attempted >= R.notifications[i].attempted
           /\ i \notin I => Held(R.notifications[i], S.notifications[i])
    BY DEF Leads, Steady
  <2>3. \/ T.epoch[i] > S.epoch[i]
        \/ /\ T.epoch[i] = S.epoch[i]
           /\ T.notifications[i].attempted >= S.notifications[i].attempted
           /\ i \notin I => Held(S.notifications[i], T.notifications[i])
    BY DEF Leads, Steady
  <2> QED BY <2>1, <2>2, <2>3 DEF Held
<1> QED BY <1>1 DEF Leads, Silent

\* A step that writes receipts only.
LEMMA ReceiptsLead ==
    ASSUME NEW R, Good(R), NEW f \in [Launches -> Receipt], NEW I, NEW J,
           \A i \in Launches : OneGoes(R, i, f[i], I, J)
    PROVE  Leads(R, [R EXCEPT !.notifications = f], I, J)
<1> DEFINE S == [R EXCEPT !.notifications = f]
<1>1. S \in Registry /\ S.messages = R.messages /\ S.notifications = f /\ S.epoch = R.epoch
  BY GoodParts DEF Registry
<1>2. ASSUME NEW m \in Messages PROVE Announced(S, m)
  <2> SUFFICES ASSUME Live(S, m)
               PROVE  /\ S.messages[m].to \in Launches
                      /\ S.messages[m].generation > 0
                      /\ Covers(S.notifications[S.messages[m].to], S.messages[m])
    BY DEF Announced
  <2> DEFINE msg == R.messages[m]
             i == R.messages[m].to
  <2>1. Live(R, m)
    BY <1>1 DEF Live
  <2>2. i \in Launches /\ msg.generation > 0 /\ Covers(R.notifications[i], msg)
    BY <2>1, GoodParts DEF Announced
  <2>3. Serves(R.notifications[i], f[i])
    BY <2>1, <2>2 DEF OneGoes
  <2>4. /\ R.notifications[i].generation \in Nat /\ f[i].generation \in Nat
        /\ R.notifications[i].urgent \in Nat /\ f[i].urgent \in Nat
        /\ msg.generation \in Nat
    BY <2>2, GoodParts, ReceiptFields, Numbers DEF Message, Generations
  <2>5. Covers(f[i], msg)
    BY <2>2, <2>3, <2>4 DEF Covers, Serves
  <2> QED BY <1>1, <2>2, <2>5
<1>3. Good(S)
  BY <1>1, <1>2 DEF Good, OneGoes
<1>4. Steady(R, S, I)
  BY <1>1 DEF Steady, OneGoes
<1>5. Silent(R, S, J)
  BY <1>1 DEF Silent, OneGoes
<1> QED BY <1>3, <1>4, <1>5 DEF Leads

\* A step that writes one receipt.
LEMMA ReceiptLeads ==
    ASSUME NEW R, Good(R), NEW i \in Launches, NEW s, NEW I, NEW J,
           OneGoes(R, i, s, I, J)
    PROVE  /\ Leads(R, [R EXCEPT !.notifications[i] = s], I, J)
           /\ [R EXCEPT !.notifications[i] = s].notifications
                = [R.notifications EXCEPT ![i] = s]
           /\ [R EXCEPT !.notifications[i] = s].messages = R.messages
           /\ [R EXCEPT !.notifications[i] = s].epoch = R.epoch
<1> DEFINE f == [R.notifications EXCEPT ![i] = s]
<1>1. R.notifications \in [Launches -> Receipt] /\ s \in Receipt
  BY GoodParts DEF OneGoes, Sound
<1>2. f \in [Launches -> Receipt]
  BY <1>1
<1>3. ASSUME NEW j \in Launches PROVE OneGoes(R, j, f[j], I, J)
  <2>1. CASE j = i
    BY <1>1, <2>1
  <2>2. CASE j # i
    <3>1. f[j] = R.notifications[j]
      BY <1>1, <2>2
    <3>2. Goes(R.notifications[j], R.notifications[j])
      BY GoodParts, GoesItself
    <3> QED BY <3>1, <3>2 DEF Goes, OneGoes
  <2> QED BY <2>1, <2>2
<1>4. [R EXCEPT !.notifications[i] = s] = [R EXCEPT !.notifications = f]
  BY GoodParts DEF Registry
<1>5. Leads(R, [R EXCEPT !.notifications = f], I, J)
  <2> HIDE DEF f
  <2> QED BY <1>2, <1>3, ReceiptsLead
<1>6. /\ [R EXCEPT !.notifications = f].notifications = f
      /\ [R EXCEPT !.notifications = f].messages = R.messages
      /\ [R EXCEPT !.notifications = f].epoch = R.epoch
  BY GoodParts DEF Registry
<1> QED BY <1>4, <1>5, <1>6

\* A step that writes messages only; those that are live are as they were or
\* are covered.
LEMMA MessagesLead ==
    ASSUME NEW R, Good(R), NEW g \in [Messages -> Message], NEW I, NEW J,
           \A m \in Messages :
               g[m].state = "unread" /\ ~g[m].quiet /\ ~g[m].aged =>
                   \/ g[m] = R.messages[m]
                   \/ /\ g[m].to \in Launches /\ g[m].generation > 0
                      /\ Covers(R.notifications[g[m].to], g[m])
    PROVE  Leads(R, [R EXCEPT !.messages = g], I, J)
<1> DEFINE S == [R EXCEPT !.messages = g]
<1>1. S \in Registry /\ S.messages = g /\ S.notifications = R.notifications /\ S.epoch = R.epoch
  BY GoodParts DEF Registry
<1>2. ASSUME NEW m \in Messages PROVE Announced(S, m)
  <2>1. Announced(R, m)
    BY GoodParts
  <2>2. CASE g[m] = R.messages[m]
    BY <1>1, <2>1, <2>2 DEF Announced, Live
  <2>3. CASE g[m] # R.messages[m]
    <3>1. Live(S, m) => g[m].state = "unread" /\ ~g[m].quiet /\ ~g[m].aged
      BY <1>1 DEF Live
    <3> QED BY <1>1, <2>3, <3>1 DEF Announced
  <2> QED BY <2>2, <2>3
<1>3. Good(S)
  BY <1>1, <1>2, GoodParts DEF Good
<1>4. Steady(R, S, I) /\ Silent(R, S, J)
  BY <1>1, LeadsItself DEF Leads, Steady, Silent
<1> QED BY <1>3, <1>4 DEF Leads

LEMMA GoesLeads ==
    ASSUME NEW R, Good(R), NEW i \in Launches, NEW s, NEW I, NEW J,
           Goes(R.notifications[i], s)
    PROVE  OneGoes(R, i, s, I, J)
BY DEF Goes, OneGoes

LEMMA NormalizeLeads ==
    ASSUME NEW R, Good(R), NEW I, NEW J
    PROVE  /\ Leads(R, Normalize(R), I, J)
           /\ Normalize(R).messages = R.messages
           /\ Normalize(R).epoch = R.epoch
           /\ \A i \in Launches :
                Normalize(R).notifications[i] = ResumeNewGeneration(R.notifications[i])
<1> DEFINE f == [i \in Launches |-> ResumeNewGeneration(NormalizeCurrent(R.notifications[i]))]
<1>1. ASSUME NEW i \in Launches
      PROVE  /\ f[i] = ResumeNewGeneration(R.notifications[i])
             /\ Goes(R.notifications[i], f[i])
             /\ f[i] \in Receipt
  <2>1. Sound(R.notifications[i])
    BY GoodParts
  <2>2. f[i] = ResumeNewGeneration(R.notifications[i])
    BY <2>1, NormalizeCurrentSame
  <2>3. Goes(R.notifications[i], f[i])
    BY <2>1, <2>2, ResumeGoes
  <2> QED BY <2>2, <2>3 DEF Goes, Sound
<1>2. f \in [Launches -> Receipt]
  BY <1>1
<1>3. \A i \in Launches : OneGoes(R, i, f[i], I, J)
  BY <1>1, GoesLeads
<1>4. Normalize(R) = [R EXCEPT !.notifications = f]
  BY DEF Normalize
<1>5. Leads(R, [R EXCEPT !.notifications = f], I, J)
  <2> HIDE DEF f
  <2> QED BY <1>2, <1>3, ReceiptsLead
<1>6. /\ [R EXCEPT !.notifications = f].messages = R.messages
      /\ [R EXCEPT !.notifications = f].epoch = R.epoch
      /\ [R EXCEPT !.notifications = f].notifications = f
  BY GoodParts DEF Registry
<1> QED BY <1>1, <1>4, <1>5, <1>6

LEMMA ResolveDrainedLeads ==
    ASSUME NEW R, Good(R), NEW K, NEW I, NEW J
    PROVE  /\ Leads(R, ResolveDrained(R, K), I, J)
           /\ ResolveDrained(R, K).messages = R.messages
           /\ ResolveDrained(R, K).epoch = R.epoch
<1> DEFINE f == [i \in Launches |->
                    IF i \in K /\ ~HasPendingContent(R, i)
                    THEN Resolve(R.notifications[i])
                    ELSE R.notifications[i]]
<1>1. ASSUME NEW i \in Launches
      PROVE  OneGoes(R, i, f[i], I, J) /\ f[i] \in Receipt
  <2>1. Sound(R.notifications[i])
    BY GoodParts
  <2>2. CASE i \in K /\ ~HasPendingContent(R, i)
    <3>1. f[i] = Resolve(R.notifications[i])
      BY <2>2
    <3>2. ~\E m \in Messages : Live(R, m) /\ R.messages[m].to = i
      BY <2>2 DEF HasPendingContent
    <3>3. R.notifications[i].attempted \in Nat
      BY <2>1, ReceiptFields DEF Sound
    <3> QED BY <2>1, <3>1, <3>2, <3>3, ResolveSound DEF OneGoes, Sound
  <2>3. CASE ~(i \in K /\ ~HasPendingContent(R, i))
    BY <2>1, <2>3, GoesItself, GoesLeads DEF Sound
  <2> QED BY <2>2, <2>3
<1>2. f \in [Launches -> Receipt]
  BY <1>1
<1>3. ResolveDrained(R, K) = [R EXCEPT !.notifications = f]
  BY DEF ResolveDrained
<1>4. Leads(R, [R EXCEPT !.notifications = f], I, J)
  <2> HIDE DEF f
  <2> QED BY <1>1, <1>2, ReceiptsLead
<1>5. /\ [R EXCEPT !.notifications = f].messages = R.messages
      /\ [R EXCEPT !.notifications = f].epoch = R.epoch
  BY GoodParts DEF Registry
<1> QED BY <1>3, <1>4, <1>5

\* What is kept of mail that is no longer unread.
LEMMA HandledType ==
    ASSUME NEW msg \in Message, NEW state \in {"read", "terminal", "gone"}
    PROVE  /\ Handled(msg, state) \in Message
           /\ Handled(msg, state).to = msg.to
           /\ Handled(msg, state).state = state
           /\ [Handled(msg, state) EXCEPT !.aged = FALSE] \in Message
           /\ [Handled(msg, state) EXCEPT !.aged = FALSE].to = msg.to
           /\ [Handled(msg, state) EXCEPT !.aged = FALSE].state = state
<1>1. NoMessage \in Message
  BY Numbers DEF NoMessage, Message, Generations
<1>2. msg.to \in 0 .. MaxLaunch /\ msg.aged \in BOOLEAN
  BY DEF Message
<1> QED BY <1>1, <1>2 DEF Handled, Message

LEMMA TerminateType ==
    ASSUME NEW msg \in Message
    PROVE  /\ Terminate(msg) \in Message
           /\ Terminate(msg).to = msg.to
           /\ Terminate(msg).state = "unread" => Terminate(msg) = msg
           /\ msg.state = "unread" /\ ~msg.aged => Terminate(msg) = msg
<1>1. CASE msg.aged /\ msg.state \in {"unread", "read"}
  BY <1>1, HandledType DEF Terminate
<1>2. CASE msg.aged /\ msg.state = "terminal"
  BY <1>2, HandledType DEF Terminate
<1>3. CASE ~(msg.aged /\ msg.state \in {"unread", "read", "terminal"})
  <2>1. Terminate(msg) = msg
    BY <1>3 DEF Terminate
  <2> QED BY <2>1
<1> QED BY <1>1, <1>2, <1>3

\* Retention drops no receipt that live mail needs.
LEMMA RetentionLeads ==
    ASSUME NEW R, Good(R), NEW I, NEW J
    PROVE  /\ Leads(R, MaintainRetention(R), I, J)
           /\ \A i \in Launches :
                MaintainRetention(R).notifications[i] \in {R.notifications[i], NoReceipt}
           /\ \A m \in Messages :
                /\ MaintainRetention(R).messages[m] = Terminate(R.messages[m])
                /\ MaintainRetention(R).messages[m].to = R.messages[m].to
<1> DEFINE msgs == [m \in Messages |-> Terminate(R.messages[m])]
           f == [i \in Launches |->
                    IF KeepsReceipt(R, msgs, i) THEN R.notifications[i] ELSE NoReceipt]
           e == [i \in Launches |->
                    IF KeepsReceipt(R, msgs, i) \/ R.notifications[i].state = "none"
                    THEN R.epoch[i]
                    ELSE R.epoch[i] + 1]
           S == MaintainRetention(R)
<1>1. S = [messages |-> msgs, notifications |-> f, epoch |-> e]
  BY DEF MaintainRetention
<1>2. S.messages = msgs /\ S.notifications = f /\ S.epoch = e
  BY <1>1
<1>3. \A m \in Messages :
        /\ msgs[m] = Terminate(R.messages[m])
        /\ msgs[m] \in Message /\ msgs[m].to = R.messages[m].to
        /\ msgs[m].state = "unread" => msgs[m] = R.messages[m]
        /\ R.messages[m].state = "unread" /\ ~R.messages[m].aged => msgs[m] = R.messages[m]
  BY GoodParts, TerminateType
<1>4. \A i \in Launches :
        /\ f[i] \in {R.notifications[i], NoReceipt}
        /\ Sound(f[i]) /\ f[i] \in Receipt
        /\ e[i] \in Nat
  BY GoodParts, NoReceiptSound DEF Sound
<1>5. S \in Registry
  <2>1. msgs \in [Messages -> Message] /\ f \in [Launches -> Receipt] /\ e \in [Launches -> Nat]
    BY <1>3, <1>4
  <2> HIDE DEF msgs, f, e
  <2> QED BY <1>1, <2>1 DEF Registry
<1>6. ASSUME NEW m \in Messages PROVE Announced(S, m)
  <2> SUFFICES ASSUME Live(S, m) PROVE Announced(S, m)
    BY DEF Announced
  <2>1. msgs[m] = R.messages[m] /\ Live(R, m) /\ R.messages[m].state = "unread"
    BY <1>2, <1>3 DEF Live
  <2>2. R.messages[m].to \in Launches /\ Announced(R, m)
    BY <2>1, GoodParts DEF Announced
  <2>3. Retained(msgs, R.messages[m].to)
    BY <2>1 DEF Retained
  <2>4. f[R.messages[m].to] = R.notifications[R.messages[m].to]
    BY <2>2, <2>3 DEF KeepsReceipt
  <2> QED BY <1>2, <2>1, <2>2, <2>4 DEF Announced
<1>7. Steady(R, S, I)
  <2> SUFFICES ASSUME NEW i \in Launches
               PROVE  \/ e[i] > R.epoch[i]
                      \/ /\ e[i] = R.epoch[i]
                         /\ f[i].attempted >= R.notifications[i].attempted
                         /\ i \notin I => Held(R.notifications[i], f[i])
    BY <1>2 DEF Steady
  <2>1. Sound(R.notifications[i]) /\ R.epoch[i] \in Nat
    BY GoodParts
  <2>2. CASE KeepsReceipt(R, msgs, i)
    BY <2>1, <2>2, GoesItself DEF Goes
  <2>3. CASE ~KeepsReceipt(R, msgs, i) /\ R.notifications[i].state = "none"
    <3>1. R.notifications[i] = NoReceipt /\ f[i] = NoReceipt
      BY <2>1, <2>3 DEF Sound
    <3> QED BY <2>1, <2>3, <3>1, GoesItself DEF Goes
  <2>4. CASE ~KeepsReceipt(R, msgs, i) /\ R.notifications[i].state # "none"
    BY <2>1, <2>4
  <2> QED BY <2>2, <2>3, <2>4
<1>8. Silent(R, S, J)
  BY <1>2, <1>4 DEF Silent
<1>9. Good(S)
  BY <1>2, <1>4, <1>5, <1>6 DEF Good
<1> QED BY <1>2, <1>3, <1>4, <1>7, <1>8, <1>9 DEF Leads

\* What a command finds under the lock.
LEMMA LockedLeads ==
    ASSUME NEW R, Good(R), NEW I, NEW J
    PROVE  /\ Leads(R, Locked(R), I, J)
           /\ Good(Locked(R))
           /\ \A i \in Launches :
                Locked(R).notifications[i].generation <= R.notifications[i].generation
           /\ \A m \in Messages : Locked(R).messages[m].to = R.messages[m].to
<1> DEFINE N == Normalize(R)
<1>1. /\ Leads(R, N, I, J) /\ N.messages = R.messages
      /\ \A i \in Launches : N.notifications[i] = ResumeNewGeneration(R.notifications[i])
  BY NormalizeLeads
<1>2. Good(N)
  BY <1>1 DEF Leads
<1>3. /\ Leads(N, Locked(R), I, J)
      /\ \A i \in Launches :
            Locked(R).notifications[i] \in {N.notifications[i], NoReceipt}
      /\ \A m \in Messages : Locked(R).messages[m].to = N.messages[m].to
  <2> HIDE DEF N
  <2>1. Locked(R) = MaintainRetention(N)
    BY DEF Locked, N
  <2> QED BY <1>2, <2>1, RetentionLeads
<1>4. ASSUME NEW i \in Launches
      PROVE  Locked(R).notifications[i].generation <= R.notifications[i].generation
  <2>1. R.notifications[i] \in Receipt /\ R.notifications[i].generation \in Nat
    BY GoodParts, ReceiptFields DEF Sound
  <2>2. N.notifications[i].generation = R.notifications[i].generation
    BY <1>1, <2>1 DEF ResumeNewGeneration, Receipt
  <2> QED BY <1>3, <2>1, <2>2 DEF NoReceipt
<1>5. Leads(R, Locked(R), I, J)
  <2> HIDE DEF N
  <2> QED BY <1>1, <1>3, LeadsOn
<1> QED BY <1>1, <1>3, <1>4, <1>5 DEF Leads

-----------------------------------------------------------------------------
(* Generations and quota signals                                           *)

\* A newer generation is queued, or follows the attempt under way.
LEMMA ScheduleLeads ==
    ASSUME NEW R, Good(R), NEW i \in Launches, NEW I, NEW J, i \in J,
           R.notifications[i].generation + 1 <= MaxGeneration
    PROVE  /\ Leads(R, Schedule(R, i), I, J)
           /\ Schedule(R, i).messages = R.messages
           /\ Schedule(R, i).notifications[i].generation
                = R.notifications[i].generation + 1
           /\ Schedule(R, i).notifications[i].state # "none"
           /\ Schedule(R, i).notifications[i].reason # Drained
           /\ Schedule(R, i).notifications[i].urgent = R.notifications[i].urgent
<1> DEFINE N == Normalize(R)
           r == N.notifications[i]
           a == [r EXCEPT !.generation = @ + 1]
           n == ResumeNewGeneration(a)
           q == IF n.state \in {"attempting", "attempt_unknown"}
                THEN n
                ELSE [n EXCEPT !.state = "queued", !.reason = Pending]
<1>1. /\ Leads(R, N, I, J) /\ Good(N) /\ N.messages = R.messages
      /\ r = ResumeNewGeneration(R.notifications[i])
  BY NormalizeLeads DEF Leads
<1>2. /\ Sound(R.notifications[i]) /\ R.notifications[i] \in Receipt
      /\ Sound(r) /\ r \in Receipt
  BY <1>1, GoodParts DEF Sound
<1>3. r.generation = R.notifications[i].generation /\ r.urgent = R.notifications[i].urgent
  BY <1>1, <1>2 DEF ResumeNewGeneration, Receipt
<1>4. /\ r.generation \in Nat /\ r.notified \in Nat /\ r.attempted \in Nat /\ r.urgent \in Nat
      /\ r.generation + 1 \in Generations
  BY <1>2, <1>3, ReceiptFields, Numbers DEF Generations
<1>5. /\ a \in Receipt /\ a.generation = r.generation + 1 /\ a.state = r.state
      /\ a.notified = r.notified /\ a.attempted = r.attempted /\ a.urgent = r.urgent
      /\ a.reason = r.reason
  <2> HIDE DEF N, r
  <2> QED BY <1>2, <1>4 DEF Receipt
<1>6. /\ r.state = "attempting" => q = a
      /\ r.state # "attempting" =>
            /\ q \in Receipt /\ q.state = "queued" /\ q.reason = Pending
            /\ q.generation = a.generation /\ q.notified = a.notified
            /\ q.attempted = a.attempted /\ q.urgent = a.urgent
  <2>1. CASE r.state = "attempt_unknown"
    <3>1. a.attempted > 0 /\ a.generation > a.attempted /\ a.generation > a.notified
      BY <1>2, <1>4, <1>5, <2>1 DEF Sound, Tried
    <3>2. n = [a EXCEPT !.state = "queued", !.wait = 0, !.reason = Pending]
      <4> HIDE DEF a
      <4> QED BY <1>5, <2>1, <3>1 DEF ResumeNewGeneration
    <3> HIDE DEF a, n
    <3>3. /\ n \in Receipt /\ n.state = "queued"
          /\ n.generation = a.generation /\ n.notified = a.notified
          /\ n.attempted = a.attempted /\ n.urgent = a.urgent
      BY <1>5, <3>2, Values DEF Receipt
    <3>4. q = [n EXCEPT !.state = "queued", !.reason = Pending]
      BY <3>3
    <3> HIDE DEF q
    <3> QED BY <2>1, <3>3, <3>4, Values DEF Receipt
  <2>2. CASE r.state # "attempt_unknown"
    <3> HIDE DEF a
    <3>1. n = a
      BY <1>5, <2>2 DEF ResumeNewGeneration
    <3> HIDE DEF n
    <3>2. CASE r.state = "attempting"
      BY <1>5, <3>1, <3>2
    <3>3. CASE r.state # "attempting"
      <4>1. q = [a EXCEPT !.state = "queued", !.reason = Pending]
        BY <1>5, <2>2, <3>1, <3>3
      <4> HIDE DEF q
      <4> QED BY <1>5, <3>3, <4>1, Values DEF Receipt
    <3> QED BY <3>2, <3>3
  <2> QED BY <2>1, <2>2
<1>7. Schedule(R, i) = [N EXCEPT !.notifications[i] = q]
  BY DEF Schedule
<1> HIDE DEF N, a, n, q
<1>8. /\ Sound(q)
      /\ q.generation = r.generation + 1 /\ q.urgent = r.urgent /\ q.attempted = r.attempted
      /\ q.state # "none" /\ q.reason # Drained
      /\ Held(r, q)
  BY <1>2, <1>4, <1>5, <1>6, Values DEF Sound, Tried, Held, Pending, Drained
<1>9. OneGoes(N, i, q, I, J)
  BY <1>4, <1>8 DEF OneGoes, Serves
<1>10. /\ Leads(N, Schedule(R, i), I, J)
       /\ Schedule(R, i).notifications = [N.notifications EXCEPT ![i] = q]
       /\ Schedule(R, i).messages = N.messages
  BY <1>1, <1>7, <1>9, ReceiptLeads
<1>11. Schedule(R, i).notifications[i] = q
  BY <1>1, <1>10, GoodParts
<1> QED BY <1>1, <1>3, <1>8, <1>10, <1>11, LeadsOn

LEMMA AdmitLeads ==
    ASSUME NEW R, Good(R), NEW i \in Launches, NEW I, NEW J,
           NEW interval \in {0, Interval}, NEW urgent \in BOOLEAN,
           R.notifications[i].state # "none"
    PROVE  LET S == AdmitCoalesced(R, i, interval, urgent)
               r == R.notifications[i]
               s == S.notifications[i]
           IN  /\ Leads(R, S, I, J)
               /\ S.messages = R.messages
               /\ s.generation = r.generation /\ s.state = r.state /\ s.reason = r.reason
               /\ interval > 0 /\ urgent => s.urgent = s.generation
<1> DEFINE r == R.notifications[i]
           u == IF interval > 0 /\ urgent THEN r.generation ELSE r.urgent
           s == [r EXCEPT !.interval = interval, !.urgent = u]
<1>1. Sound(r) /\ r \in Receipt /\ r.generation \in Generations /\ r.urgent \in Generations
      /\ r.generation \in Nat /\ r.urgent \in Nat /\ r.notified \in Nat /\ r.attempted \in Nat
  BY GoodParts, ReceiptFields DEF Sound
<1>2. u \in Generations /\ u <= r.generation /\ u >= r.urgent
  BY <1>1 DEF Sound
<1>3. AdmitCoalesced(R, i, interval, urgent) = [R EXCEPT !.notifications[i] = s]
  BY DEF AdmitCoalesced
<1>4. u = r.generation \/ ~(interval > 0 /\ urgent)
  OBVIOUS
<1> HIDE DEF u
<1>5. /\ s \in Receipt /\ s.urgent = u /\ s.generation = r.generation
      /\ s.notified = r.notified /\ s.attempted = r.attempted
      /\ s.state = r.state /\ s.reason = r.reason
  BY <1>1, <1>2 DEF Receipt
<1> HIDE DEF s
<1>6. Goes(r, s)
  BY <1>1, <1>2, <1>5 DEF Goes, Sound, Held, Serves, Tried, NoReceipt
<1>7. OneGoes(R, i, s, I, J)
  BY <1>6, GoesLeads
<1>8. /\ Leads(R, [R EXCEPT !.notifications[i] = s], I, J)
      /\ [R EXCEPT !.notifications[i] = s].notifications = [R.notifications EXCEPT ![i] = s]
      /\ [R EXCEPT !.notifications[i] = s].messages = R.messages
  BY <1>7, ReceiptLeads
<1>9. AdmitCoalesced(R, i, interval, urgent).notifications[i] = s
  BY <1>3, <1>8, GoodParts
<1> QED BY <1>3, <1>4, <1>5, <1>8, <1>9

LEMMA SignalLeads ==
    ASSUME NEW R, Good(R), NEW i \in Launches, NEW I, NEW J, i \in J,
           R.notifications[i].generation + 1 <= MaxGeneration
    PROVE  /\ Leads(R, Signal(R, i), I, J)
           /\ Signal(R, i).messages = R.messages
           /\ Signal(R, i).notifications[i].state # "none"
<1> DEFINE S == Schedule(R, i)
           r == S.notifications[i]
           s == [r EXCEPT !.signal = r.generation, !.urgent = r.generation]
<1>1. /\ Leads(R, S, I, J) /\ S.messages = R.messages /\ r.state # "none"
  BY ScheduleLeads
<1>2. Signal(R, i) = [S EXCEPT !.notifications[i] = s]
  BY DEF Signal
<1> HIDE DEF S
<1>3. Good(S) /\ Sound(r) /\ r \in Receipt
  BY <1>1, GoodParts DEF Leads, Sound
<1>4. /\ r.generation \in Generations /\ r.generation \in Nat /\ r.urgent \in Nat
      /\ r.notified \in Nat /\ r.attempted \in Nat
  BY <1>3, ReceiptFields
<1>5. /\ s \in Receipt /\ s.urgent = r.generation /\ s.generation = r.generation
      /\ s.notified = r.notified /\ s.attempted = r.attempted
      /\ s.state = r.state /\ s.reason = r.reason
  <2> HIDE DEF r
  <2> QED BY <1>3, <1>4 DEF Receipt
<1>6. Goes(r, s)
  <2> HIDE DEF s, r
  <2> QED BY <1>1, <1>3, <1>4, <1>5 DEF Goes, Sound, Held, Serves, Tried, NoReceipt
<1> HIDE DEF s
<1>7. OneGoes(S, i, s, I, J)
  BY <1>3, <1>6, GoesLeads
<1>8. /\ Leads(S, Signal(R, i), I, J)
      /\ Signal(R, i).notifications = [S.notifications EXCEPT ![i] = s]
      /\ Signal(R, i).messages = S.messages
  BY <1>2, <1>3, <1>7, ReceiptLeads
<1>9. Signal(R, i).notifications[i] = s
  BY <1>3, <1>8, GoodParts
<1> QED BY <1>1, <1>5, <1>8, <1>9, LeadsOn

\* The quota flag concerns nothing else.
LEMMA AboveGoes ==
    ASSUME NEW r, Sound(r), NEW b \in BOOLEAN, r.state # "none" \/ ~b
    PROVE  /\ Goes(r, [r EXCEPT !.above = b])
           /\ [r EXCEPT !.above = b].generation = r.generation
<1> DEFINE s == [r EXCEPT !.above = b]
<1>1. r \in Receipt
  BY DEF Sound
<1>2. /\ s \in Receipt /\ s.urgent = r.urgent /\ s.generation = r.generation
      /\ s.notified = r.notified /\ s.attempted = r.attempted
      /\ s.state = r.state /\ s.reason = r.reason
  BY <1>1 DEF Receipt
<1>3. r.state = "none" => s = r
  <2> SUFFICES ASSUME r.state = "none" PROVE s = r
    OBVIOUS
  <2>1. r = NoReceipt /\ b = FALSE
    BY DEF Sound
  <2>2. r.above = b
    BY <2>1 DEF NoReceipt
  <2> QED BY <1>1, <2>2 DEF Receipt
<1> HIDE DEF s
<1>4. Goes(r, s)
  BY <1>1, <1>2, <1>3, ReceiptFields DEF Goes, Sound, Held, Serves, Tried, NoReceipt
<1> QED BY <1>2, <1>4 DEF s

LEMMA RearmLeads ==
    ASSUME NEW R, Good(R), NEW I, NEW J
    PROVE  /\ Leads(R, Rearm(R), I, J)
           /\ Rearm(R).messages = R.messages
           /\ \A i \in Launches :
                Rearm(R).notifications[i].generation = R.notifications[i].generation
<1>1. CASE Above(R)
  BY <1>1, LeadsItself DEF Rearm
<1>2. CASE ~Above(R)
  <2> DEFINE f == [i \in Launches |-> [R.notifications[i] EXCEPT !.above = FALSE]]
  <2>1. \A i \in Launches :
          /\ Goes(R.notifications[i], f[i])
          /\ f[i].generation = R.notifications[i].generation
    BY GoodParts, AboveGoes
  <2>2. f \in [Launches -> Receipt]
    BY <2>1 DEF Goes, Sound
  <2>3. Rearm(R) = [R EXCEPT !.notifications = f]
    BY <1>2 DEF Rearm
  <2> HIDE DEF f
  <2>4. \A i \in Launches : OneGoes(R, i, f[i], I, J)
    BY <2>1, GoesLeads
  <2>5. Leads(R, [R EXCEPT !.notifications = f], I, J)
    BY <2>2, <2>4, ReceiptsLead
  <2>6. /\ [R EXCEPT !.notifications = f].messages = R.messages
        /\ [R EXCEPT !.notifications = f].notifications = f
    BY GoodParts DEF Registry
  <2> QED BY <2>1, <2>3, <2>5, <2>6
<1> QED BY <1>1, <1>2

LEMMA AdmittedLeads ==
    ASSUME NEW R, Good(R), NEW i \in Launches, NEW I, NEW J, i \in J,
           R.notifications[i].generation + 1 <= MaxGeneration
    PROVE  Leads(R, Admitted(R, i), I, J)
<1>1. CASE ~Above(R) \/ R.notifications[i].above
  BY <1>1, LeadsItself DEF Admitted
<1>2. CASE ~(~Above(R) \/ R.notifications[i].above)
  <2> DEFINE S == Signal(R, i)
             s == [S.notifications[i] EXCEPT !.above = TRUE]
  <2>1. Leads(R, S, I, J) /\ S.notifications[i].state # "none"
    BY SignalLeads
  <2>2. Admitted(R, i) = [S EXCEPT !.notifications[i] = s]
    BY <1>2 DEF Admitted
  <2> HIDE DEF S
  <2>3. Good(S) /\ Goes(S.notifications[i], s)
    BY <2>1, GoodParts, AboveGoes DEF Leads
  <2> HIDE DEF s
  <2>4. Leads(S, [S EXCEPT !.notifications[i] = s], I, J)
    BY <2>3, GoesLeads, ReceiptLeads
  <2> QED BY <2>1, <2>2, <2>4, LeadsOn
<1> QED BY <1>1, <1>2

-----------------------------------------------------------------------------
(* Attempts                                                                *)

\* begin_attempt takes a generation that was never attempted.
LEMMA AttemptLeads ==
    ASSUME NEW R, Good(R), NEW i \in Launches, NEW I, NEW J, NEW g, CanAttempt(R, i, g)
    PROVE  LET S == TransitionAttempt(R, i)
           IN  /\ Leads(R, S, I, J)
               /\ S.epoch = R.epoch
               /\ Attempting(S.notifications[i], g)
               /\ R.notifications[i].attempted < g
               /\ g > 0
<1> DEFINE r == R.notifications[i]
           s == [r EXCEPT !.state = "attempting", !.attempted = r.generation,
                          !.since = 0, !.reason = "notification-attempting"]
<1>1. /\ Sound(r) /\ r \in Receipt /\ r.generation \in Generations
      /\ r.generation \in Nat /\ r.notified \in Nat /\ r.attempted \in Nat /\ r.urgent \in Nat
  BY GoodParts, ReceiptFields DEF Sound
<1>2. r.state = "queued" /\ r.generation = g /\ g > r.notified
  BY DEF CanAttempt
<1>3. r.attempted < g
  BY <1>1, <1>2 DEF Sound, Tried
<1>4. TransitionAttempt(R, i) = [R EXCEPT !.notifications[i] = s]
  BY DEF TransitionAttempt
<1>5. /\ s \in Receipt /\ s.urgent = r.urgent /\ s.generation = r.generation
      /\ s.notified = r.notified /\ s.attempted = r.generation
      /\ s.state = "attempting" /\ s.reason = "notification-attempting"
  <2> HIDE DEF r
  <2> QED BY <1>1, Values DEF Receipt
<1>6. Goes(r, s) /\ Attempting(s, g)
  <2> HIDE DEF r, s
  <2> QED BY <1>1, <1>2, <1>3, <1>5
          DEF Goes, Sound, Held, Serves, Tried, NoReceipt, Drained, Attempting
<1> HIDE DEF s
<1>7. /\ Leads(R, [R EXCEPT !.notifications[i] = s], I, J)
      /\ [R EXCEPT !.notifications[i] = s].notifications = [R.notifications EXCEPT ![i] = s]
      /\ [R EXCEPT !.notifications[i] = s].epoch = R.epoch
  BY <1>6, GoesLeads, ReceiptLeads
<1>8. TransitionAttempt(R, i).notifications[i] = s
  BY <1>4, <1>7, GoodParts
<1> QED BY <1>1, <1>2, <1>3, <1>4, <1>6, <1>7, <1>8

\* The outcome of an attempt settles its own receipt only.
LEMMA SubmittedLeads ==
    ASSUME NEW R, Good(R), NEW i \in Launches, NEW I, NEW J, i \in I,
           NEW g \in Generations
    PROVE  Leads(R, TransitionSubmitted(R, i, g), I, J)
<1>1. CASE ~MatchingAttempt(R, i, g)
  BY <1>1, LeadsItself DEF TransitionSubmitted
<1>2. CASE MatchingAttempt(R, i, g)
  <2> DEFINE r == R.notifications[i]
             newer == r.generation > g
             n == IF r.notified > g THEN r.notified ELSE g
             st == IF newer THEN "queued" ELSE "prompt_submitted"
             re == IF newer THEN Pending ELSE "prompt-accepted"
             s == [r EXCEPT !.since = 0, !.notified = n, !.state = st, !.reason = re]
  <2>1. /\ Sound(r) /\ r \in Receipt
        /\ r.generation \in Nat /\ r.notified \in Nat /\ r.attempted \in Nat /\ r.urgent \in Nat
        /\ r.notified \in Generations
    BY GoodParts, ReceiptFields DEF Sound
  <2>2. r.state \in Tried /\ r.attempted = g /\ g \in Nat /\ g <= r.generation
    BY <1>2, <2>1 DEF MatchingAttempt, Tried, Sound
  <2>3. /\ n \in Generations /\ st \in ReceiptStates /\ re \in Reasons
        /\ n <= r.generation /\ n >= g
        /\ st # "none" /\ st \notin Tried /\ re # Drained
        /\ (st = "queued" /\ r.generation > g) \/ (st = "prompt_submitted" /\ n = r.generation)
    BY <2>1, <2>2, Values DEF Sound, Tried, Pending, Drained
  <2>4. TransitionSubmitted(R, i, g) = [R EXCEPT !.notifications[i] = s]
    BY <1>2 DEF TransitionSubmitted
  <2> HIDE DEF r, n, st, re
  <2>5. /\ s \in Receipt /\ s.urgent = r.urgent /\ s.generation = r.generation
        /\ s.notified = n /\ s.attempted = r.attempted
        /\ s.state = st /\ s.reason = re
    BY <2>1, <2>3, Values DEF Receipt
  <2> HIDE DEF s
  <2>6. Sound(s) /\ Serves(r, s) /\ s.attempted >= r.attempted /\ r # NoReceipt
    BY <2>1, <2>2, <2>3, <2>5 DEF Sound, Serves, Tried, NoReceipt
  <2>7. OneGoes(R, i, s, I, J)
    BY <2>6 DEF OneGoes, r
  <2> QED BY <2>4, <2>7, ReceiptLeads
<1> QED BY <1>1, <1>2

LEMMA UnknownLeads ==
    ASSUME NEW R, Good(R), NEW i \in Launches, NEW I, NEW J, i \in I, NEW g,
           MatchingAttempt(R, i, g)
    PROVE  Leads(R, TransitionUnknown(R, i), I, J)
<1> DEFINE r == R.notifications[i]
           s == [r EXCEPT !.state = "attempt_unknown", !.reason = "submission-outcome-unknown"]
<1>1. /\ Sound(r) /\ r \in Receipt /\ r.state \in Tried
      /\ r.generation \in Nat /\ r.notified \in Nat /\ r.attempted \in Nat /\ r.urgent \in Nat
  BY GoodParts, ReceiptFields DEF Sound, MatchingAttempt, Tried
<1>2. TransitionUnknown(R, i) = [R EXCEPT !.notifications[i] = s]
  BY <1>1, GoodParts DEF TransitionUnknown, Registry, Receipt
<1>3. /\ s \in Receipt /\ s.urgent = r.urgent /\ s.generation = r.generation
      /\ s.notified = r.notified /\ s.attempted = r.attempted
      /\ s.state = "attempt_unknown" /\ s.reason = "submission-outcome-unknown"
  <2> HIDE DEF r
  <2> QED BY <1>1, Values DEF Receipt
<1> HIDE DEF s
<1>4. Sound(s) /\ Serves(r, s) /\ s.attempted >= r.attempted /\ r # NoReceipt
  <2> HIDE DEF r
  <2> QED BY <1>1, <1>3 DEF Sound, Serves, Tried, NoReceipt, Drained
<1>5. OneGoes(R, i, s, I, J)
  BY <1>4 DEF OneGoes
<1> QED BY <1>2, <1>5, ReceiptLeads

\* defer and mark_undeliverable keep the generation they did not try.
LEMMA DeferLeads ==
    ASSUME NEW R, Good(R), NEW i \in Launches, NEW I, NEW J, NEW g
    PROVE  Leads(R, Defer(R, i, g), I, J)
<1>1. CASE ~StillQueued(R, i, g)
  BY <1>1, LeadsItself DEF Defer
<1>2. CASE StillQueued(R, i, g)
  <2> DEFINE r == R.notifications[i]
             s == [r EXCEPT !.wait = Retry, !.reason = "provider-not-ready"]
  <2>1. /\ Sound(r) /\ r \in Receipt /\ r.state = "queued"
        /\ r.generation \in Nat /\ r.notified \in Nat /\ r.attempted \in Nat /\ r.urgent \in Nat
    BY <1>2, GoodParts, ReceiptFields DEF Sound, StillQueued
  <2>2. Defer(R, i, g) = [R EXCEPT !.notifications[i] = s]
    BY <1>2, <2>1, GoodParts DEF Defer, Registry, Receipt
  <2>3. /\ s \in Receipt /\ s.urgent = r.urgent /\ s.generation = r.generation
        /\ s.notified = r.notified /\ s.attempted = r.attempted
        /\ s.state = r.state /\ s.reason = "provider-not-ready"
    <3> HIDE DEF r
    <3> QED BY <2>1, Values DEF Receipt
  <2> HIDE DEF s
  <2>4. Goes(r, s)
    <3> HIDE DEF r
    <3> QED BY <2>1, <2>3 DEF Goes, Sound, Held, Serves, Tried, NoReceipt, Drained
  <2> QED BY <2>2, <2>4, GoesLeads, ReceiptLeads
<1> QED BY <1>1, <1>2

LEMMA UndeliverableLeads ==
    ASSUME NEW R, Good(R), NEW i \in Launches, NEW I, NEW J, NEW g,
           NEW reason \in {"recipient-incarnation-replaced", HookDelivered,
                           "provider-unsupported"}
    PROVE  Leads(R, Undeliverable(R, i, g, reason), I, J)
<1>1. CASE ~StillQueued(R, i, g)
  BY <1>1, LeadsItself DEF Undeliverable
<1>2. CASE StillQueued(R, i, g)
  <2> DEFINE r == R.notifications[i]
             s == [r EXCEPT !.state = "undeliverable", !.reason = reason]
  <2>1. /\ Sound(r) /\ r \in Receipt /\ r.state = "queued"
        /\ r.generation \in Nat /\ r.notified \in Nat /\ r.attempted \in Nat /\ r.urgent \in Nat
    BY <1>2, GoodParts, ReceiptFields DEF Sound, StillQueued
  <2>2. Undeliverable(R, i, g, reason) = [R EXCEPT !.notifications[i] = s]
    BY <1>2, <2>1, GoodParts DEF Undeliverable, Registry, Receipt
  <2>3. /\ s \in Receipt /\ s.urgent = r.urgent /\ s.generation = r.generation
        /\ s.notified = r.notified /\ s.attempted = r.attempted
        /\ s.state = "undeliverable" /\ s.reason = reason
    <3> HIDE DEF r
    <3> QED BY <2>1, Values DEF Receipt
  <2>4. reason # Drained
    BY DEF HookDelivered, Drained
  <2> HIDE DEF s
  <2>5. Goes(r, s)
    <3> HIDE DEF r
    <3> QED BY <2>1, <2>3, <2>4 DEF Goes, Sound, Held, Serves, Tried, NoReceipt
  <2> QED BY <2>2, <2>5, GoesLeads, ReceiptLeads
<1> QED BY <1>1, <1>2

\* The policy hook too takes a generation that was never attempted.
LEMMA HookLeads ==
    ASSUME NEW R, Good(R), NEW i \in Launches, NEW I, NEW J, Claimable(R, i)
    PROVE  LET S == ClaimHookReminder(R, i)
           IN  /\ Leads(R, S, I, J)
               /\ S.epoch = R.epoch
               /\ S.notifications[i].attempted = R.notifications[i].generation
               /\ R.notifications[i].attempted < R.notifications[i].generation
               /\ R.notifications[i].state # "attempting"
<1> DEFINE r == R.notifications[i]
           g == r.generation
           s == [r EXCEPT !.state = "prompt_submitted", !.attempted = g, !.notified = g,
                          !.since = 0, !.reason = "prompt-accepted"]
<1>1. /\ Sound(r) /\ r \in Receipt /\ r.generation \in Generations
      /\ r.generation \in Nat /\ r.notified \in Nat /\ r.attempted \in Nat /\ r.urgent \in Nat
  BY GoodParts, ReceiptFields DEF Sound
<1>2. r.state \in {"queued", "undeliverable"} /\ g > r.notified
  BY DEF Claimable
<1>3. r.attempted < g
  BY <1>1, <1>2 DEF Sound, Tried
<1>4. ClaimHookReminder(R, i) = [R EXCEPT !.notifications[i] = s]
  BY DEF ClaimHookReminder
<1>5. /\ s \in Receipt /\ s.urgent = r.urgent /\ s.generation = r.generation
      /\ s.notified = r.generation /\ s.attempted = r.generation
      /\ s.state = "prompt_submitted" /\ s.reason = "prompt-accepted"
  <2> HIDE DEF r
  <2> QED BY <1>1, Values DEF Receipt
<1>6. Goes(r, s)
  <2> HIDE DEF r, s
  <2> QED BY <1>1, <1>2, <1>3, <1>5
          DEF Goes, Sound, Held, Serves, Tried, NoReceipt, Drained
<1> HIDE DEF s
<1>7. /\ Leads(R, [R EXCEPT !.notifications[i] = s], I, J)
      /\ [R EXCEPT !.notifications[i] = s].notifications = [R.notifications EXCEPT ![i] = s]
      /\ [R EXCEPT !.notifications[i] = s].epoch = R.epoch
  BY <1>6, GoesLeads, ReceiptLeads
<1>8. ClaimHookReminder(R, i).notifications[i] = s
  BY <1>4, <1>7, GoodParts
<1> QED BY <1>2, <1>3, <1>4, <1>5, <1>7, <1>8

-----------------------------------------------------------------------------
(* The invariant, step by step                                             *)

LEMMA TaskFields ==
    ASSUME TypeOK, NEW i \in Launches
    PROVE  /\ task[i] \in Task
           /\ task[i].generation \in Generations /\ task[i].generation \in Nat
           /\ task[i].epoch \in Nat
           /\ reg.epoch[i] \in Nat /\ reg.notifications[i] \in Receipt
BY Numbers DEF TypeOK, Task, Generations

LEMMA WakeFields ==
    ASSUME TypeOK, NEW w \in Prompts
    PROVE  w \in Wakes /\ w.launch \in Launches /\ w.epoch \in Nat /\ w.generation \in Nat
BY Numbers DEF TypeOK, Prompts, Wakes, Generations

\* The prompts so far stay prompts of generations attempted before.
LEMMA PromptsStay ==
    ASSUME Inv, NEW I, NEW J, NEW S, Leads(reg, S, I, J), NEW w \in Prompts
    PROVE  Woken(S, w)
<1>1. w.launch \in Launches /\ w.epoch \in Nat /\ w.generation \in Nat /\ Woken(reg, w)
  BY WakeFields DEF Inv
<1> DEFINE i == w.launch
<1>2. /\ reg.epoch[i] \in Nat /\ S.epoch[i] \in Nat
      /\ reg.notifications[i].attempted \in Nat /\ S.notifications[i].attempted \in Nat
  BY <1>1, GoodParts, ReceiptFields DEF Inv, Leads, Sound
<1>3. \/ S.epoch[i] > reg.epoch[i]
      \/ /\ S.epoch[i] = reg.epoch[i]
         /\ S.notifications[i].attempted >= reg.notifications[i].attempted
  BY <1>1 DEF Leads, Steady
<1> QED BY <1>1, <1>2, <1>3 DEF Woken

\* The fence of an attempt under way stays up.
LEMMA AttemptStays ==
    ASSUME Inv, NEW I, NEW J, NEW S, Leads(reg, S, I, J),
           NEW i \in Launches, i \notin I, Submitting(i)
    PROVE  /\ task[i].epoch <= S.epoch[i]
           /\ task[i].generation > 0
           /\ task[i].epoch = S.epoch[i] =>
                launch = i /\ Attempting(S.notifications[i], task[i].generation)
<1>1. Fenced(i) /\ task[i].epoch \in Nat /\ task[i].generation \in Nat
  BY TaskFields DEF Inv
<1>2. reg.epoch[i] \in Nat /\ S.epoch[i] \in Nat
  BY GoodParts DEF Inv, Leads
<1>3. \/ S.epoch[i] > reg.epoch[i]
      \/ /\ S.epoch[i] = reg.epoch[i]
         /\ Held(reg.notifications[i], S.notifications[i])
  BY DEF Leads, Steady
<1> QED BY <1>1, <1>2, <1>3 DEF Fenced, Held, Attempting

LEMMA AheadStays ==
    ASSUME NEW R, NEW S, NEW I, NEW l \in Launches, Ahead(R, l), Leads(R, S, I, {l})
    PROVE  Ahead(S, l)
<1> SUFFICES ASSUME NEW i \in Launches, i > l PROVE S.notifications[i] = NoReceipt
  BY DEF Ahead
<1>1. i # l
  BY Numbers DEF Launches
<1> QED BY <1>1 DEF Ahead, Leads, Silent

\* What a step has to show.
LEMMA AnyStep ==
    ASSUME Inv, NEW I, Leads(reg, reg', I, {launch}), UNCHANGED <<launch, route>>,
           alive' \in BOOLEAN, keys' \subseteq Launches \X Generations,
           phase' \in {"down", "idle", "observe", "dispatch"},
           todo' \subseteq Candidate, task' \in [Launches -> Task],
           crashes' \in 0 .. MaxCrashes,
           phase' # "dispatch" => \A i \in Launches : task'[i] = NoTask,
           \A i \in Launches : Fenced(i)' /\ Fresh(i)',
           landed' \subseteq Wakes, flight' \subseteq Wakes, flight' \cap landed' = {},
           doubled' = {},
           \A w \in Prompts' : w \in Prompts \/ Woken(reg', w)
    PROVE  Inv'
<1>1. Good(reg') /\ Good(reg)'
  BY DEF Leads
<1>2. TypeOK'
  <2>1. reg' \in Registry
    BY <1>1, GoodParts
  <2> QED BY <2>1 DEF Inv, TypeOK, Registry
<1>3. Ahead(reg, launch)'
  BY AheadStays DEF Inv, TypeOK
<1>4. \A w \in Prompts' : Woken(reg', w)
  BY PromptsStay
<1> QED BY <1>1, <1>2, <1>3, <1>4 DEF Inv

\* A step that submits nothing and ends no attempt but those of I.
LEMMA QuietStep ==
    ASSUME Inv, NEW I, Leads(reg, reg', I, {launch}),
           UNCHANGED <<launch, route, flight, landed, doubled>>,
           alive' \in BOOLEAN, keys' \subseteq Launches \X Generations,
           phase' \in {"down", "idle", "observe", "dispatch"},
           todo' \subseteq Candidate, task' \in [Launches -> Task],
           crashes' \in 0 .. MaxCrashes,
           phase' # "dispatch" => \A i \in Launches : task'[i] = NoTask,
           \A i \in Launches : task'[i].pc \in {"begun", "accepted"} =>
               /\ Submitting(i) /\ i \notin I
               /\ task'[i].generation = task[i].generation
               /\ task'[i].epoch = task[i].epoch
               /\ task'[i].pc = "begun" => task[i].pc = "begun"
    PROVE  Inv'
<1>1. ASSUME NEW i \in Launches PROVE Fenced(i)' /\ Fresh(i)'
  <2>1. Fenced(i)'
    BY AttemptStays DEF Fenced, Submitting
  <2>2. Fresh(i)'
    BY DEF Inv, Fresh, Wake, Prompts
  <2> QED BY <2>1, <2>2
<1>2. /\ landed' \subseteq Wakes /\ flight' \subseteq Wakes /\ flight' \cap landed' = {}
      /\ doubled' = {} /\ Prompts' = Prompts
  BY DEF Inv, TypeOK, Prompts
<1> QED BY <1>1, <1>2, AnyStep

\* A step of anyone but serve.
LEMMA OutsideStep ==
    ASSUME Inv, Leads(reg, reg', {}, {launch}),
           UNCHANGED <<launch, route, keys, serve, provider>>, alive' \in BOOLEAN
    PROVE  Inv'
<1>1. UNCHANGED <<launch, route, keys, phase, todo, task, crashes, flight, landed, doubled>>
  BY DEF serve, provider
<1> QED BY <1>1, QuietStep DEF Inv, TypeOK, Submitting

-----------------------------------------------------------------------------
(* Senders, the recipient and time                                         *)

LEMMA MessageFields ==
    ASSUME NEW msg \in Message
    PROVE  /\ msg.to \in 0 .. MaxLaunch /\ msg.generation \in Generations
           /\ msg.quiet \in BOOLEAN /\ msg.urgent \in BOOLEAN
           /\ msg.window \in BOOLEAN /\ msg.aged \in BOOLEAN
           /\ msg.state \in {"none", "unread", "read", "terminal", "gone"}
BY DEF Message

\* One message changes: it stops to be live, or the receipt covers it.
LEMMA OneMessageLeads ==
    ASSUME NEW R, Good(R), NEW m \in Messages, NEW msg \in Message, NEW I, NEW J,
           msg.state = "unread" /\ ~msg.quiet /\ ~msg.aged =>
               /\ msg.to \in Launches /\ msg.generation > 0
               /\ Covers(R.notifications[msg.to], msg)
    PROVE  /\ Leads(R, [R EXCEPT !.messages[m] = msg], I, J)
           /\ [R EXCEPT !.messages[m] = msg].notifications = R.notifications
<1> DEFINE g == [R.messages EXCEPT ![m] = msg]
<1>1. R.messages \in [Messages -> Message]
  BY GoodParts
<1>2. g \in [Messages -> Message]
  BY <1>1
<1>3. \A n \in Messages : g[n] = msg \/ g[n] = R.messages[n]
  BY <1>1
<1>4. [R EXCEPT !.messages[m] = msg] = [R EXCEPT !.messages = g]
  BY GoodParts DEF Registry
<1>5. [R EXCEPT !.messages = g].notifications = R.notifications
  BY GoodParts DEF Registry
<1> HIDE DEF g
<1> QED BY <1>2, <1>3, <1>4, <1>5, MessagesLead

LEMMA ShowInv ==
    ASSUME Inv, NEW m \in Messages, Show(m)
    PROVE  Inv'
<1> DEFINE R == Locked(reg)
           msg == Handled(R.messages[m], "read")
<1>1. Leads(reg, R, {}, {launch}) /\ Good(R)
  BY LockedLeads DEF Inv
<1>2. reg' = [R EXCEPT !.messages[m] = msg]
  BY <1>1, GoodParts DEF Show, Registry
<1> HIDE DEF R
<1>3. msg \in Message /\ msg.state # "unread"
  BY <1>1, GoodParts, HandledType
<1> HIDE DEF msg
<1>4. Leads(R, reg', {}, {launch})
  BY <1>1, <1>2, <1>3, OneMessageLeads
<1>5. Leads(reg, reg', {}, {launch})
  BY <1>1, <1>4, LeadsOn DEF Inv
<1> QED BY <1>5, OutsideStep DEF Show, session, Inv, TypeOK

LEMMA AckInv ==
    ASSUME Inv, NEW m \in Messages, Ack(m)
    PROVE  Inv'
<1> DEFINE R == Locked(reg)
           msg == Handled(R.messages[m], "terminal")
<1>1. Leads(reg, R, {}, {launch}) /\ Good(R)
  BY LockedLeads DEF Inv
<1>2. reg' = [R EXCEPT !.messages[m] = msg]
  BY <1>1, GoodParts DEF Ack, Registry
<1> HIDE DEF R
<1>3. msg \in Message /\ msg.state # "unread"
  BY <1>1, GoodParts, HandledType
<1> HIDE DEF msg
<1>4. Leads(R, reg', {}, {launch})
  BY <1>1, <1>2, <1>3, OneMessageLeads
<1>5. Leads(reg, reg', {}, {launch})
  BY <1>1, <1>4, LeadsOn DEF Inv
<1> QED BY <1>5, OutsideStep DEF Ack, session, Inv, TypeOK

LEMMA MessageAgesInv ==
    ASSUME Inv, NEW m \in Messages, MessageAges(m)
    PROVE  Inv'
<1> DEFINE msg == [reg.messages[m] EXCEPT !.aged = TRUE]
<1>1. Good(reg)
  BY DEF Inv
<1>2. reg' = [reg EXCEPT !.messages[m] = msg]
  BY <1>1, GoodParts DEF MessageAges, Registry
<1>3. msg \in Message /\ msg.aged
  <2>1. reg.messages[m] \in Message
    BY <1>1, GoodParts
  <2>2. msg \in Message
    BY <2>1 DEF Message
  <2>3. msg.aged = TRUE
    BY <2>1 DEF Message
  <2> QED BY <2>2, <2>3
<1> HIDE DEF msg
<1>4. Leads(reg, reg', {}, {launch})
  BY <1>1, <1>2, <1>3, OneMessageLeads
<1> QED BY <1>4, OutsideStep DEF MessageAges, session, Inv, TypeOK

LEMMA SignalExpiresInv ==
    ASSUME Inv, NEW i \in Launches, SignalExpires(i)
    PROVE  Inv'
<1> DEFINE r == reg.notifications[i]
           s == [r EXCEPT !.signal = 0]
<1>1. Good(reg) /\ Sound(r) /\ r \in Receipt
  BY GoodParts DEF Inv, Sound
<1>2. reg' = [reg EXCEPT !.notifications[i] = s]
  BY <1>1, GoodParts DEF SignalExpires, Registry
<1>3. r.state # "none"
  BY <1>1 DEF SignalExpires, QuotaPending, Sound, NoReceipt
<1>4. /\ s \in Receipt /\ s.urgent = r.urgent /\ s.generation = r.generation
      /\ s.notified = r.notified /\ s.attempted = r.attempted
      /\ s.state = r.state /\ s.reason = r.reason
  BY <1>1, Values DEF Receipt
<1> HIDE DEF s
<1>5. Goes(r, s)
  <2> HIDE DEF r
  <2> QED BY <1>1, <1>3, <1>4, ReceiptFields DEF Goes, Sound, Held, Serves, Tried, NoReceipt
<1>6. Leads(reg, reg', {}, {launch})
  BY <1>1, <1>2, <1>5, GoesLeads, ReceiptLeads
<1> QED BY <1>6, OutsideStep DEF SignalExpires, session, Inv, TypeOK

LEMMA TickInv ==
    ASSUME Inv, Tick
    PROVE  Inv'
<1> DEFINE f == [i \in Launches |->
                    LET r == reg.notifications[i]
                    IN  [r EXCEPT !.wait = IF @ = 0 THEN 0 ELSE @ - 1,
                                  !.since = Least(@ + 1, Interval)]]
<1>1. Good(reg)
  BY DEF Inv
<1>2. ASSUME NEW i \in Launches PROVE Goes(reg.notifications[i], f[i]) /\ f[i] \in Receipt
  <2> DEFINE r == reg.notifications[i]
             w == IF r.wait = 0 THEN 0 ELSE r.wait - 1
             t == Least(r.since + 1, Interval)
             s == [r EXCEPT !.wait = w, !.since = t]
  <2>1. Sound(r) /\ r \in Receipt
    BY <1>1, GoodParts DEF Sound
  <2>2. w \in 0 .. Retry /\ t \in 0 .. Interval
    BY <2>1, ReceiptFields, Numbers DEF Least
  <2>3. r = NoReceipt => w = r.wait /\ t = r.since
    BY Numbers DEF NoReceipt, Least
  <2>4. f[i] = s
    OBVIOUS
  <2> HIDE DEF w, t, f, r
  <2>5. /\ s \in Receipt /\ s.urgent = r.urgent /\ s.generation = r.generation
        /\ s.notified = r.notified /\ s.attempted = r.attempted
        /\ s.state = r.state /\ s.reason = r.reason
    BY <2>1, <2>2 DEF Receipt
  <2>6. r = NoReceipt => s = r
    BY <2>1, <2>3 DEF Receipt
  <2> HIDE DEF s
  <2>7. Goes(r, s)
    BY <2>1, <2>5, <2>6, ReceiptFields DEF Goes, Sound, Held, Serves, Tried
  <2> QED BY <2>4, <2>5, <2>7 DEF r
<1>3. f \in [Launches -> Receipt]
  BY <1>2
<1>4. reg' = [reg EXCEPT !.notifications = f]
  BY DEF Tick
<1> HIDE DEF f
<1>5. Leads(reg, reg', {}, {launch})
  BY <1>1, <1>2, <1>3, <1>4, GoesLeads, ReceiptsLead
<1> QED BY <1>5, OutsideStep DEF Tick, session, Inv, TypeOK

LEMMA StopInv ==
    ASSUME Inv, Stop
    PROVE  Inv'
<1>1. Leads(reg, reg', {}, {launch})
  BY LockedLeads DEF Stop, Inv
<1> QED BY <1>1, OutsideStep DEF Stop

LEMMA DieInv ==
    ASSUME Inv, Die
    PROVE  Inv'
<1>1. Leads(reg, reg', {}, {launch})
  BY LeadsItself DEF Die, Inv
<1> QED BY <1>1, OutsideStep DEF Die

LEMMA SendRejectedInv ==
    ASSUME Inv, SendRejected
    PROVE  Inv'
<1> DEFINE L == Locked(reg)
           R == Rearm(L)
<1>1. launch \in Launches /\ Good(reg)
  BY DEF Inv, TypeOK
<1>2. /\ Leads(reg, L, {}, {launch}) /\ Good(L)
      /\ L.notifications[launch].generation <= reg.notifications[launch].generation
  BY <1>1, LockedLeads
<1>3. reg' = Signal(R, launch) /\ reg.notifications[launch].generation + 2 <= MaxGeneration
  BY DEF SendRejected
<1> HIDE DEF L
<1>4. /\ Leads(L, R, {}, {launch}) /\ Good(R)
      /\ R.notifications[launch].generation = L.notifications[launch].generation
  BY <1>1, <1>2, RearmLeads DEF Leads
<1> HIDE DEF R
<1>5. R.notifications[launch].generation + 1 <= MaxGeneration
  <2>1. /\ R.notifications[launch].generation \in Nat
        /\ L.notifications[launch].generation \in Nat
        /\ reg.notifications[launch].generation \in Nat
    BY <1>1, <1>2, <1>4, GoodParts, ReceiptFields
  <2> QED BY <1>2, <1>3, <1>4, <2>1, Numbers
<1>6. Leads(R, reg', {}, {launch})
  BY <1>1, <1>3, <1>4, <1>5, SignalLeads
<1>7. Leads(reg, reg', {}, {launch})
  BY <1>1, <1>2, <1>4, <1>6, LeadsOn
<1> QED BY <1>7, OutsideStep DEF SendRejected, session, Inv, TypeOK

LEMMA SendInv ==
    ASSUME Inv, NEW m \in Messages, NEW quiet \in BOOLEAN, NEW urgent \in BOOLEAN,
           NEW interval \in {0, Interval}, Send(m, quiet, urgent, interval)
    PROVE  Inv'
<1> DEFINE L == Locked(reg)
           R == Rearm(L)
           C == Schedule(R, launch)
           S == IF quiet THEN R ELSE AdmitCoalesced(C, launch, interval, urgent)
           msg == [state |-> "unread", to |-> launch, quiet |-> quiet,
                   urgent |-> urgent, window |-> urgent /\ interval > 0, aged |-> FALSE,
                   generation |-> IF quiet THEN 0 ELSE S.notifications[launch].generation]
           T == [S EXCEPT !.messages[m] = msg]
<1>1. launch \in Launches /\ launch \in 0 .. MaxLaunch /\ Good(reg)
  BY Numbers DEF Inv, TypeOK, Launches
<1>2. /\ Leads(reg, L, {}, {launch}) /\ Good(L)
      /\ L.notifications[launch].generation <= reg.notifications[launch].generation
  BY <1>1, LockedLeads
<1>3. reg' = Admitted(T, launch) /\ reg.notifications[launch].generation + 2 <= MaxGeneration
  BY DEF Send
<1> HIDE DEF L
<1>4. /\ Leads(L, R, {}, {launch}) /\ Good(R)
      /\ R.notifications[launch].generation = L.notifications[launch].generation
  BY <1>1, <1>2, RearmLeads DEF Leads
<1> HIDE DEF R
<1>5. /\ R.notifications[launch].generation \in Nat
      /\ R.notifications[launch].generation + 2 <= MaxGeneration
  <2>1. /\ R.notifications[launch].generation \in Nat
        /\ L.notifications[launch].generation \in Nat
        /\ reg.notifications[launch].generation \in Nat
    BY <1>1, <1>2, <1>4, GoodParts, ReceiptFields
  <2> QED BY <1>2, <1>3, <1>4, <2>1, Numbers
<1>6. /\ Leads(R, S, {}, {launch})
      /\ S.notifications[launch].generation + 1 <= MaxGeneration
      /\ ~quiet =>
            /\ S.notifications[launch].generation > 0
            /\ S.notifications[launch].state # "none"
            /\ S.notifications[launch].reason # Drained
            /\ urgent /\ interval > 0 =>
                  S.notifications[launch].urgent = S.notifications[launch].generation
  <2>1. CASE quiet
    BY <1>4, <1>5, <2>1, LeadsItself, Numbers
  <2>2. CASE ~quiet
    <3>1. R.notifications[launch].generation + 1 <= MaxGeneration
      BY <1>5, Numbers
    <3>2. /\ Leads(R, C, {}, {launch})
          /\ C.notifications[launch].generation = R.notifications[launch].generation + 1
          /\ C.notifications[launch].state # "none" /\ C.notifications[launch].reason # Drained
      BY <1>1, <1>4, <3>1, ScheduleLeads
    <3> HIDE DEF C
    <3>3. LET s == S.notifications[launch]
              r == C.notifications[launch]
          IN  /\ Leads(C, S, {}, {launch})
              /\ s.generation = r.generation /\ s.state = r.state /\ s.reason = r.reason
              /\ interval > 0 /\ urgent => s.urgent = s.generation
      BY <1>1, <2>2, <3>2, AdmitLeads DEF Leads
    <3> HIDE DEF S
    <3>4. Leads(R, S, {}, {launch})
      BY <1>4, <3>2, <3>3, LeadsOn
    <3> QED BY <1>5, <2>2, <3>2, <3>3, <3>4, Numbers
  <2> QED BY <2>1, <2>2
<1> HIDE DEF S
<1>7. Good(S) /\ S.notifications[launch].generation \in Generations
      /\ S.notifications[launch].generation \in Nat
  BY <1>1, <1>6, GoodParts, ReceiptFields DEF Leads
<1>8. /\ msg \in Message
      /\ msg.to = launch
      /\ ~msg.quiet => ~quiet /\ msg.generation = S.notifications[launch].generation
      /\ msg.window => urgent /\ interval > 0
  <2> DEFINE u == urgent /\ interval > 0
             g == IF quiet THEN 0 ELSE S.notifications[launch].generation
  <2>1. u \in BOOLEAN /\ g \in Generations
    BY <1>7, Values
  <2>2. msg = [state |-> "unread", to |-> launch, quiet |-> quiet,
               urgent |-> urgent, window |-> u, aged |-> FALSE, generation |-> g]
    OBVIOUS
  <2>3. msg.quiet = quiet /\ msg.window = u /\ msg.generation = g /\ msg.to = launch
    BY <2>2
  <2>4. ~quiet => g = S.notifications[launch].generation
    OBVIOUS
  <2>5. u => urgent /\ interval > 0
    OBVIOUS
  <2> HIDE DEF u, g
  <2>6. msg \in Message
    BY <1>1, <2>1, <2>2 DEF Message
  <2> HIDE DEF msg
  <2>7. ~msg.quiet => ~quiet
    BY <2>3
  <2>8. msg.window => u
    BY <2>3
  <2> QED BY <2>3, <2>4, <2>5, <2>6, <2>7, <2>8
<1> HIDE DEF msg
<1>9. /\ Leads(S, T, {}, {launch}) /\ T.notifications = S.notifications
  <2>1. ASSUME ~msg.quiet PROVE Covers(S.notifications[launch], msg) /\ msg.generation > 0
    BY <1>6, <1>7, <1>8, <2>1 DEF Covers
  <2> QED BY <1>1, <1>7, <1>8, <2>1, OneMessageLeads
<1> HIDE DEF T
<1>10. Leads(T, reg', {}, {launch})
  BY <1>1, <1>3, <1>6, <1>9, AdmittedLeads DEF Leads
<1>11. Leads(reg, S, {}, {launch})
  BY <1>1, <1>2, <1>4, <1>6, LeadsOn
<1>12. Leads(reg, reg', {}, {launch})
  BY <1>1, <1>9, <1>10, <1>11, LeadsOn
<1> QED BY <1>12, OutsideStep DEF Send, session, Inv, TypeOK

-----------------------------------------------------------------------------
(* A later launch                                                          *)

\* Mail that follows the session is covered by the receipt of the new launch.
LEMMA CarryLeads ==
    ASSUME NEW R, Good(R), NEW i \in Launches, NEW j \in Launches,
           R.notifications[j] = NoReceipt
    PROVE  Leads(R, Carry(R, i, j), {}, {j})
<1> DEFINE moved == {m \in Messages : /\ R.messages[m].to = i
                                      /\ R.messages[m].state = "unread"
                                      /\ ~R.messages[m].aged}
           S == IF \E m \in moved : ~R.messages[m].quiet THEN Schedule(R, j) ELSE R
           g == [m \in Messages |->
                    IF m \in moved
                    THEN [R.messages[m] EXCEPT
                            !.to = j, !.window = FALSE,
                            !.generation = IF @ = 0 THEN 0 ELSE S.notifications[j].generation]
                    ELSE R.messages[m]]
<1>1. Carry(R, i, j) = [S EXCEPT !.messages = g]
  BY DEF Carry
<1>2. \A m \in Messages :
        /\ R.messages[m] \in Message
        /\ m \in moved /\ ~R.messages[m].quiet => R.messages[m].generation > 0
  BY GoodParts DEF Announced, Live
<1>3. /\ Leads(R, S, {}, {j}) /\ S.messages = R.messages
      /\ (\E m \in moved : ~R.messages[m].quiet) =>
            /\ S.notifications[j].state # "none"
            /\ S.notifications[j].reason # Drained
            /\ S.notifications[j].generation > 0
  <2>1. CASE \E m \in moved : ~R.messages[m].quiet
    <3>1. PICK m \in moved : ~R.messages[m].quiet
      BY <2>1
    <3>2. R.messages[m].generation \in Generations /\ R.messages[m].generation > 0
      BY <1>2, <3>1, MessageFields
    <3>3. NoReceipt.generation + 1 <= MaxGeneration
      BY <3>2, Numbers DEF NoReceipt, Generations
    <3>4. S = Schedule(R, j)
      BY <2>1
    <3> QED BY <3>3, <3>4, ScheduleLeads DEF NoReceipt
  <2>2. CASE ~\E m \in moved : ~R.messages[m].quiet
    BY <2>2, LeadsItself
  <2> QED BY <2>1, <2>2
<1> HIDE DEF S
<1>4. Good(S) /\ S.notifications[j].generation \in Generations
  BY <1>3, GoodParts, ReceiptFields DEF Leads
<1>5. ASSUME NEW m \in Messages
      PROVE  /\ g[m] \in Message
             /\ g[m].state = "unread" /\ ~g[m].quiet /\ ~g[m].aged =>
                   \/ g[m] = S.messages[m]
                   \/ /\ g[m].to \in Launches /\ g[m].generation > 0
                      /\ Covers(S.notifications[g[m].to], g[m])
  <2>1. CASE m \notin moved
    BY <1>2, <1>3, <2>1
  <2>2. CASE m \in moved
    <3> DEFINE msg == R.messages[m]
               n == IF msg.generation = 0 THEN 0 ELSE S.notifications[j].generation
               new == [msg EXCEPT !.to = j, !.window = FALSE, !.generation = n]
    <3>1. g[m] = new
      BY <2>2
    <3>2. n \in Generations /\ j \in 0 .. MaxLaunch /\ msg \in Message
      BY <1>2, <1>4, Values, Numbers DEF Launches
    <3>3. ~msg.quiet => n = S.notifications[j].generation
      BY <1>2, <2>2
    <3> HIDE DEF n, g, msg
    <3>4. new \in Message /\ new.to = j /\ new.generation = n
      BY <3>2 DEF Message
    <3>5. new.window = FALSE /\ new.quiet = msg.quiet
      BY <3>2 DEF Message
    <3> HIDE DEF new
    <3>6. CASE msg.quiet
      BY <3>1, <3>4, <3>5, <3>6
    <3>7. CASE ~msg.quiet
      <4>1. \E k \in moved : ~R.messages[k].quiet
        BY <2>2, <3>7 DEF msg
      <4>2. /\ S.notifications[j].state # "none" /\ S.notifications[j].reason # Drained
            /\ S.notifications[j].generation > 0
        BY <1>3, <4>1
      <4>3. S.notifications[j].generation \in Nat
        BY <1>4, Numbers DEF Generations
      <4>4. ~new.window
        BY <3>5
      <4>5. Covers(S.notifications[j], new)
        BY <3>3, <3>4, <3>7, <4>2, <4>3, <4>4 DEF Covers
      <4> QED BY <3>1, <3>3, <3>4, <3>7, <4>2, <4>5
    <3> QED BY <3>6, <3>7
  <2> QED BY <2>1, <2>2
<1>6. g \in [Messages -> Message]
  BY <1>5
<1> HIDE DEF g
<1>7. Leads(S, [S EXCEPT !.messages = g], {}, {j})
  BY <1>4, <1>5, <1>6, MessagesLead
<1> QED BY <1>1, <1>3, <1>7, LeadsOn

\* A resume waits for the fence, so no attempt is left on the old launch.
LEMMA ResumeInv ==
    ASSUME Inv, Resume
    PROVE  Inv'
<1> DEFINE R == Locked(reg)
           j == launch + 1
<1>1. /\ launch \in Launches /\ j \in Launches /\ Good(reg) /\ launch \in Nat
      /\ launch' = j /\ alive' = TRUE /\ reg' = Carry(R, launch, j) /\ ~Fences(R, launch)
      /\ UNCHANGED <<route, keys, phase, todo, task, crashes, flight, landed, doubled>>
  BY Numbers DEF Inv, TypeOK, Resume, Launches, serve, provider
<1>2. Leads(reg, R, {}, {j}) /\ Good(R)
  BY <1>1, LockedLeads
<1>3. R.notifications[j] = NoReceipt
  <2>1. Leads(reg, R, {}, {launch})
    BY <1>1, LockedLeads
  <2>2. Ahead(R, launch)
    BY <1>1, <2>1, AheadStays DEF Inv
  <2> QED BY <1>1, <2>2 DEF Ahead
<1> HIDE DEF R
<1>4. Leads(R, reg', {}, {j})
  BY <1>1, <1>2, <1>3, CarryLeads
<1>5. Leads(reg, reg', {}, {j})
  BY <1>1, <1>2, <1>4, LeadsOn
<1>6. Good(reg') /\ Good(reg)'
  BY <1>5 DEF Leads
<1>7. TypeOK'
  <2>1. reg' \in Registry
    BY <1>6, GoodParts
  <2> QED BY <1>1, <2>1 DEF Inv, TypeOK, Registry
<1>8. Ahead(reg, launch)'
  <2> SUFFICES ASSUME NEW i \in Launches, i > j PROVE reg'.notifications[i] = NoReceipt
    BY <1>1 DEF Ahead
  <2>1. i \in Nat /\ i > launch /\ i # j
    BY <1>1, Numbers DEF Launches
  <2>2. reg.notifications[i] = NoReceipt
    BY <2>1 DEF Inv, Ahead
  <2> QED BY <1>5, <2>1, <2>2 DEF Leads, Silent
<1>9. ASSUME NEW i \in Launches PROVE Fenced(i)' /\ Fresh(i)'
  <2>1. Fresh(i)'
    BY <1>1 DEF Inv, Fresh, Wake, Prompts
  <2>2. ASSUME Submitting(i) PROVE Fenced(i)'
    <3>1. /\ task[i].epoch <= reg'.epoch[i] /\ task[i].generation > 0
      BY <1>5, <2>2, AttemptStays
    <3>2. /\ task[i].epoch <= R.epoch[i]
          /\ task[i].epoch = R.epoch[i] =>
                launch = i /\ Attempting(R.notifications[i], task[i].generation)
      BY <1>2, <2>2, AttemptStays
    <3>3. task[i].epoch # R.epoch[i]
      BY <1>1, <3>2 DEF Fences, Attempting
    <3>4. R.epoch[i] <= reg'.epoch[i] /\ R.epoch[i] \in Nat /\ reg'.epoch[i] \in Nat
      BY <1>2, <1>4, <1>6, GoodParts DEF Leads, Steady
    <3>5. task[i].epoch \in Nat
      BY TaskFields DEF Inv
    <3>6. task[i].epoch # reg'.epoch[i]
      BY <3>2, <3>3, <3>4, <3>5
    <3> QED BY <1>1, <3>1, <3>6 DEF Fenced
  <2>3. ~Submitting(i) => Fenced(i)'
    BY <1>1 DEF Fenced, Submitting
  <2> QED BY <2>1, <2>2, <2>3
<1>10. \A w \in Prompts' : Woken(reg', w)
  BY <1>1, <1>5, PromptsStay DEF Prompts
<1> QED BY <1>1, <1>6, <1>7, <1>8, <1>9, <1>10 DEF Inv

-----------------------------------------------------------------------------
(* Prompts                                                                 *)

\* The policy hook takes no generation that serve is submitting or submitted.
LEMMA ReminderInv ==
    ASSUME Inv, NEW read \in BOOLEAN, Reminder(read)
    PROVE  Inv'
<1> DEFINE L == Locked(reg)
           D == ResolveDrained(L, {launch})
           R == Normalize(D)
           wake == [launch |-> launch, epoch |-> R.epoch[launch],
                    generation |-> R.notifications[launch].generation]
<1>1. /\ launch \in Launches /\ Good(reg)
      /\ UNCHANGED <<launch, route, alive, keys, phase, todo, task, crashes, flight>>
  BY DEF Inv, TypeOK, Reminder, serve, session
<1>2. /\ Claimable(R, launch) =>
            /\ reg' = ClaimHookReminder(R, launch)
            /\ Land(IF read THEN {wake} ELSE {})
      /\ ~Claimable(R, launch) => reg' = R /\ UNCHANGED <<landed, doubled>>
  BY DEF Reminder
<1>3. Leads(reg, L, {}, {launch}) /\ Good(L)
  BY <1>1, LockedLeads
<1> HIDE DEF L
<1>4. Leads(L, D, {}, {launch}) /\ Good(D)
  BY <1>3, ResolveDrainedLeads DEF Leads
<1> HIDE DEF D
<1>5. Leads(D, R, {}, {launch}) /\ Good(R)
  BY <1>4, NormalizeLeads DEF Leads
<1> HIDE DEF R
<1>6. Leads(reg, R, {}, {launch})
  BY <1>1, <1>3, <1>4, <1>5, LeadsOn
<1>7. CASE ~Claimable(R, launch)
  BY <1>1, <1>2, <1>6, <1>7, OutsideStep DEF serve, provider, Inv, TypeOK
<1>8. CASE Claimable(R, launch)
  <2> DEFINE W == IF read THEN {wake} ELSE {}
  <2>1. /\ Leads(R, reg', {}, {launch}) /\ reg'.epoch = R.epoch
        /\ reg'.notifications[launch].attempted = R.notifications[launch].generation
        /\ R.notifications[launch].attempted < R.notifications[launch].generation
        /\ R.notifications[launch].state # "attempting"
    BY <1>1, <1>2, <1>5, <1>8, HookLeads
  <2>2. Leads(reg, reg', {}, {launch})
    BY <1>1, <1>6, <2>1, LeadsOn
  <2>3. /\ R.epoch[launch] \in Nat /\ R.notifications[launch].generation \in Generations
        /\ R.notifications[launch].generation \in Nat
        /\ R.notifications[launch].attempted \in Nat
    BY <1>1, <1>5, GoodParts, ReceiptFields
  <2>4. /\ wake \in Wakes /\ wake.launch = launch /\ wake.epoch = R.epoch[launch]
        /\ wake.generation = R.notifications[launch].generation
    BY <1>1, <2>3 DEF Wakes
  <2> HIDE DEF wake
  <2>5. wake \notin Prompts
    <3> SUFFICES ASSUME wake \in Prompts PROVE FALSE
      OBVIOUS
    <3>1. Woken(R, wake)
      BY <1>6, PromptsStay
    <3> QED BY <2>1, <2>3, <2>4, <3>1 DEF Woken
  <2>6. Woken(reg', wake)
    BY <2>1, <2>3, <2>4 DEF Woken
  <2>7. ASSUME NEW i \in Launches PROVE Fenced(i)' /\ Fresh(i)'
    <3>1. Fenced(i)'
      BY <1>1, <2>2, AttemptStays DEF Fenced, Submitting
    <3>2. Submitting(i) => Wake(i) # wake
      <4> SUFFICES ASSUME Submitting(i), Wake(i) = wake PROVE FALSE
        OBVIOUS
      <4>1. i = launch /\ task[i].epoch = R.epoch[launch]
        BY <2>4 DEF Wake
      <4>2. Attempting(R.notifications[i], task[i].generation)
        BY <1>6, <4>1, AttemptStays
      <4> QED BY <2>1, <4>1, <4>2 DEF Attempting
    <3>3. Fresh(i)'
      BY <1>1, <1>2, <1>8, <3>2 DEF Inv, Fresh, Wake, Prompts, Land, Submitting
    <3> QED BY <3>1, <3>3
  <2>8. /\ landed' \subseteq Wakes /\ flight' \subseteq Wakes /\ flight' \cap landed' = {}
        /\ doubled' = {} /\ \A w \in Prompts' : w \in Prompts \/ Woken(reg', w)
    BY <1>1, <1>2, <1>8, <2>4, <2>5, <2>6 DEF Inv, TypeOK, Land, Prompts
  <2> QED BY <1>1, <2>2, <2>7, <2>8, AnyStep DEF Inv, TypeOK
<1> QED BY <1>7, <1>8

LEMMA GotoTask ==
    ASSUME TypeOK, NEW i \in Launches, Goto(i, "failed") \/ Goto(i, "accepted") \/ Goto(i, "defer")
    PROVE  /\ task' \in [Launches -> Task]
           /\ task'[i].generation = task[i].generation /\ task'[i].epoch = task[i].epoch
           /\ Goto(i, "failed") => task'[i].pc = "failed"
           /\ Goto(i, "accepted") => task'[i].pc = "accepted"
           /\ Goto(i, "defer") => task'[i].pc = "defer"
           /\ \A j \in Launches \ {i} : task'[j] = task[j]
BY DEF TypeOK, Goto, Task

LEMMA NoTaskType == NoTask \in Task /\ NoTask.pc = "none"
BY Values DEF NoTask, Task

LEMMA DoneTask ==
    ASSUME TypeOK, NEW i \in Launches, Done(i)
    PROVE  /\ task' \in [Launches -> Task] /\ task'[i].pc = "none"
           /\ \A j \in Launches \ {i} : task'[j] = task[j]
BY NoTaskType DEF TypeOK, Done

\* A launch with a task is dispatched.
LEMMA Dispatching ==
    ASSUME Inv, NEW i \in Launches, task[i].pc # "none"
    PROVE  phase = "dispatch"
BY NoTaskType DEF Inv

\* begin_attempt: the prompt to come is a new one.
LEMMA DispatchBeginInv ==
    ASSUME Inv, NEW i \in Launches, DispatchBegin(i)
    PROVE  Inv'
<1> DEFINE R == Locked(reg)
           g == task[i].generation
           admitted == HasPendingContent(R, i) /\ CanAttempt(R, i, g)
<1>1. /\ TypeOK /\ Good(reg) /\ launch \in Launches /\ launch = i /\ phase = "dispatch"
      /\ UNCHANGED <<launch, route, alive, keys, phase, todo, crashes, flight, landed, doubled>>
  BY Dispatching DEF Inv, TypeOK, DispatchBegin, ServeKeeps, session, provider
<1>2. /\ admitted => reg' = TransitionAttempt(R, i)
      /\ ~admitted => reg' = ResolveDrained(R, {i})
      /\ task' = [task EXCEPT ![i].pc = IF admitted THEN "begun" ELSE "failed",
                              ![i].epoch = R.epoch[i]]
  BY DEF DispatchBegin
<1>3. Leads(reg, R, {}, {launch}) /\ Good(R)
  BY <1>1, LockedLeads
<1>4. CanAttempt(R, i, g) \/ ~admitted
  OBVIOUS
<1> HIDE DEF R, admitted
<1>5. /\ task' \in [Launches -> Task]
      /\ task'[i].pc = (IF admitted THEN "begun" ELSE "failed")
      /\ task'[i].generation = g /\ task'[i].epoch = R.epoch[i]
      /\ \A j \in Launches \ {i} : task'[j] = task[j]
  <2>1. R.epoch[i] \in Nat
    BY <1>3, GoodParts
  <2>2. task \in [Launches -> Task] /\ task[i] \in Task
    BY <1>1 DEF TypeOK
  <2> DEFINE pc == IF admitted THEN "begun" ELSE "failed"
             t == [task[i] EXCEPT !.pc = pc, !.epoch = R.epoch[i]]
  <2>3. pc \in {"begun", "failed"}
    OBVIOUS
  <2>4. task' = [task EXCEPT ![i] = t]
    BY <1>2, <2>2 DEF Task
  <2> HIDE DEF pc
  <2>5. t \in Task /\ t.pc = pc /\ t.generation = g /\ t.epoch = R.epoch[i]
    BY <2>1, <2>2, <2>3 DEF Task
  <2> HIDE DEF t
  <2> QED BY <2>2, <2>4, <2>5 DEF pc
<1>6. CASE ~admitted
  <2>1. Leads(R, reg', {}, {launch})
    BY <1>2, <1>3, <1>6, ResolveDrainedLeads
  <2>2. Leads(reg, reg', {}, {launch})
    BY <1>1, <1>3, <2>1, LeadsOn
  <2>3. \A j \in Launches : task'[j].pc \in {"begun", "accepted"} => task'[j] = task[j]
    BY <1>5, <1>6
  <2> QED BY <1>1, <1>5, <2>2, <2>3, QuietStep DEF Inv, TypeOK, Submitting
<1>7. CASE admitted
  <2>1. /\ Leads(R, reg', {}, {launch}) /\ reg'.epoch = R.epoch
        /\ Attempting(reg'.notifications[i], g)
        /\ R.notifications[i].attempted < g /\ g > 0
    BY <1>2, <1>3, <1>4, <1>7, AttemptLeads
  <2>2. Leads(reg, reg', {}, {launch})
    BY <1>1, <1>3, <2>1, LeadsOn
  <2>3. R.epoch[i] \in Nat /\ R.notifications[i].attempted \in Nat /\ g \in Nat
    BY <1>1, <1>3, GoodParts, ReceiptFields, TaskFields
  <2>4. Fenced(i)'
    BY <1>1, <1>5, <2>1, <2>3 DEF Fenced
  <2>5. Fresh(i)'
    <3> DEFINE w == [launch |-> i, epoch |-> R.epoch[i], generation |-> g]
    <3>1. Wake(i)' = w
      BY <1>5 DEF Wake
    <3>2. w.launch = i /\ w.epoch = R.epoch[i] /\ w.generation = g
      OBVIOUS
    <3> HIDE DEF w
    <3>3. w \notin Prompts
      <4> SUFFICES ASSUME w \in Prompts PROVE FALSE
        OBVIOUS
      <4>1. Woken(R, w)
        BY <1>3, PromptsStay
      <4> QED BY <2>1, <2>3, <3>2, <4>1 DEF Woken
    <3> QED BY <1>1, <3>1, <3>3 DEF Fresh, Prompts
  <2>6. ASSUME NEW j \in Launches, j # i PROVE Fenced(j)' /\ Fresh(j)'
    <3>1. task'[j] = task[j]
      BY <1>5, <2>6
    <3>2. Fenced(j)'
      BY <1>1, <2>2, <3>1, AttemptStays DEF Fenced, Submitting
    <3>3. Fresh(j)'
      BY <1>1, <3>1 DEF Inv, Fresh, Wake, Prompts
    <3> QED BY <3>2, <3>3
  <2>7. /\ landed' \subseteq Wakes /\ flight' \subseteq Wakes /\ flight' \cap landed' = {}
        /\ doubled' = {} /\ Prompts' = Prompts
    BY <1>1 DEF Inv, TypeOK, Prompts
  <2> QED BY <1>1, <1>5, <2>2, <2>4, <2>5, <2>6, <2>7, AnyStep DEF TypeOK
<1> QED BY <1>6, <1>7

\* A prompt that leaves serve is of the generation it has the fence for.
LEMMA SubmittedWake ==
    ASSUME Inv, NEW i \in Launches, task[i].pc = "begun"
    PROVE  /\ Wake(i) \in Wakes /\ Wake(i) \notin Prompts
           /\ Woken(reg, Wake(i))
           /\ \A j \in Launches \ {i} : Wake(j) # Wake(i)
           /\ SendKey(i) \in Launches \X Generations
<1>1. /\ task[i].generation \in Generations /\ task[i].epoch \in Nat
      /\ task[i].generation \in Nat
      /\ Fenced(i) /\ Fresh(i) /\ Submitting(i)
  BY TaskFields DEF Inv, Submitting
<1>2. /\ Wake(i).launch = i /\ Wake(i).epoch = task[i].epoch
      /\ Wake(i).generation = task[i].generation
      /\ \A j \in Launches : Wake(j).launch = j
  BY DEF Wake
<1>3. Wake(i) \in Wakes /\ SendKey(i) \in Launches \X Generations
  BY <1>1 DEF Wake, Wakes, SendKey
<1>4. Woken(reg, Wake(i))
  BY <1>1, <1>2 DEF Fenced, Woken, Attempting
<1> QED BY <1>1, <1>2, <1>3, <1>4 DEF Fresh

LEMMA SubmitTakenInv ==
    ASSUME Inv, NEW i \in Launches, NEW confirmed \in BOOLEAN, SubmitTaken(i, confirmed)
    PROVE  Inv'
<1>1. /\ TypeOK /\ task[i].pc = "begun" /\ phase = "dispatch"
      /\ UNCHANGED <<reg, launch, route, alive, phase, todo, crashes, flight>>
      /\ landed' = landed \cup {Wake(i)}
      /\ doubled' = doubled \cup ({Wake(i)} \cap landed)
      /\ Goto(i, "accepted") \/ Goto(i, "failed")
      /\ ClaimKey(i)
  BY Dispatching DEF Inv, SubmitTaken, ServeKeeps, session, Land
<1>2. /\ Wake(i) \in Wakes /\ Wake(i) \notin Prompts /\ Woken(reg, Wake(i))
      /\ \A j \in Launches \ {i} : Wake(j) # Wake(i)
      /\ SendKey(i) \in Launches \X Generations
  BY <1>1, SubmittedWake
<1>3. /\ task' \in [Launches -> Task]
      /\ task'[i].generation = task[i].generation /\ task'[i].epoch = task[i].epoch
      /\ task'[i].pc \in {"accepted", "failed"}
      /\ \A j \in Launches \ {i} : task'[j] = task[j]
  BY <1>1, GotoTask
<1>4. Leads(reg, reg', {}, {launch})
  BY <1>1, LeadsItself DEF Inv
<1>5. keys' \subseteq Launches \X Generations
  BY <1>1, <1>2 DEF ClaimKey, TypeOK
<1>6. ASSUME NEW j \in Launches PROVE Fenced(j)' /\ Fresh(j)'
  <2>1. CASE j = i
    <3>1. Fenced(j)'
      BY <1>1, <1>3, <2>1 DEF Inv, Fenced, Submitting
    <3> QED BY <1>3, <2>1, <3>1 DEF Fresh
  <2>2. CASE j # i
    <3>1. task'[j] = task[j]
      BY <1>3, <2>2
    <3>2. Fenced(j)'
      BY <1>1, <3>1 DEF Inv, Fenced, Submitting
    <3>3. Wake(j)' = Wake(j) /\ Wake(j) # Wake(i)
      BY <1>2, <2>2, <3>1 DEF Wake
    <3> QED BY <1>1, <3>1, <3>2, <3>3 DEF Inv, Fresh, Prompts
  <2> QED BY <2>1, <2>2
<1>7. /\ landed' \subseteq Wakes /\ flight' \subseteq Wakes /\ flight' \cap landed' = {}
      /\ doubled' = {} /\ \A w \in Prompts' : w \in Prompts \/ Woken(reg', w)
  BY <1>1, <1>2 DEF Inv, TypeOK, Prompts
<1> QED BY <1>1, <1>3, <1>4, <1>5, <1>6, <1>7, AnyStep DEF TypeOK

LEMMA SubmitLateInv ==
    ASSUME Inv, NEW i \in Launches, SubmitLate(i)
    PROVE  Inv'
<1>1. /\ TypeOK /\ task[i].pc = "begun" /\ phase = "dispatch"
      /\ UNCHANGED <<reg, launch, route, alive, phase, todo, crashes, landed, doubled>>
      /\ flight' = flight \cup {Wake(i)}
      /\ Goto(i, "failed") /\ ClaimKey(i)
  BY Dispatching DEF Inv, SubmitLate, ServeKeeps, session
<1>2. /\ Wake(i) \in Wakes /\ Wake(i) \notin Prompts /\ Woken(reg, Wake(i))
      /\ \A j \in Launches \ {i} : Wake(j) # Wake(i)
      /\ SendKey(i) \in Launches \X Generations
  BY <1>1, SubmittedWake
<1>3. /\ task' \in [Launches -> Task] /\ task'[i].pc = "failed"
      /\ \A j \in Launches \ {i} : task'[j] = task[j]
  BY <1>1, GotoTask
<1>4. Leads(reg, reg', {}, {launch})
  BY <1>1, LeadsItself DEF Inv
<1>5. keys' \subseteq Launches \X Generations
  BY <1>1, <1>2 DEF ClaimKey, TypeOK
<1>6. ASSUME NEW j \in Launches PROVE Fenced(j)' /\ Fresh(j)'
  <2>1. CASE j = i
    BY <1>3, <2>1 DEF Fenced, Submitting, Fresh
  <2>2. CASE j # i
    <3>1. task'[j] = task[j]
      BY <1>3, <2>2
    <3>2. Fenced(j)'
      BY <1>1, <3>1 DEF Inv, Fenced, Submitting
    <3>3. Wake(j)' = Wake(j) /\ Wake(j) # Wake(i)
      BY <1>2, <2>2, <3>1 DEF Wake
    <3> QED BY <1>1, <3>1, <3>2, <3>3 DEF Inv, Fresh, Prompts
  <2> QED BY <2>1, <2>2
<1>7. /\ landed' \subseteq Wakes /\ flight' \subseteq Wakes /\ flight' \cap landed' = {}
      /\ doubled' = {} /\ \A w \in Prompts' : w \in Prompts \/ Woken(reg', w)
  BY <1>1, <1>2 DEF Inv, TypeOK, Prompts
<1> QED BY <1>1, <1>3, <1>4, <1>5, <1>6, <1>7, AnyStep DEF TypeOK

\* A prompt under way was not taken before.
LEMMA LateInv ==
    ASSUME Inv, NEW w \in flight, LateArrival(w) \/ LateLoss(w)
    PROVE  Inv'
<1>1. /\ TypeOK /\ flight' = flight \ {w}
      /\ landed' = landed \/ landed' = landed \cup {w}
      /\ doubled' = doubled \/ doubled' = doubled \cup ({w} \cap landed)
      /\ UNCHANGED <<reg, launch, route, alive, keys, phase, todo, task, crashes>>
  BY DEF Inv, LateArrival, LateLoss, Land, serve, session
<1>2. Leads(reg, reg', {}, {launch})
  BY <1>1, LeadsItself DEF Inv
<1>3. /\ landed' \subseteq Wakes /\ flight' \subseteq Wakes /\ flight' \cap landed' = {}
      /\ doubled' = {} /\ Prompts' \subseteq Prompts
  BY <1>1 DEF Inv, TypeOK, Prompts
<1>4. ASSUME NEW i \in Launches PROVE Fenced(i)' /\ Fresh(i)'
  <2>1. Fenced(i) /\ Fresh(i)
    BY DEF Inv
  <2>2. Fenced(i)'
    BY <1>1, <2>1 DEF Fenced, Submitting
  <2>3. Wake(i)' = Wake(i) /\ task' = task
    BY <1>1 DEF Wake
  <2> QED BY <1>3, <2>1, <2>2, <2>3 DEF Fresh
<1> QED BY <1>1, <1>2, <1>3, <1>4, AnyStep DEF Inv, TypeOK

-----------------------------------------------------------------------------
(* The passes of serve                                                     *)

\* A step of serve that starts and submits nothing, and of the attempts ends
\* at most that of the launch i.
LEMMA TaskStep ==
    ASSUME Inv, NEW i \in Launches, task[i].pc # "none",
           Leads(reg, reg', {i}, {launch}),
           UNCHANGED <<launch, alive, route, keys, phase, todo, crashes, flight, landed,
                       doubled>>,
           task' \in [Launches -> Task], task'[i].pc \notin {"begun", "accepted"},
           \A j \in Launches \ {i} : task'[j] = task[j]
    PROVE  Inv'
<1>1. phase = "dispatch"
  BY Dispatching
<1>2. \A j \in Launches : task'[j].pc \in {"begun", "accepted"} =>
        /\ Submitting(j) /\ j \notin {i}
        /\ task'[j].generation = task[j].generation
        /\ task'[j].epoch = task[j].epoch
        /\ task'[j].pc = "begun" => task[j].pc = "begun"
  <2> SUFFICES ASSUME NEW j \in Launches, task'[j].pc \in {"begun", "accepted"}
               PROVE  task'[j] = task[j] /\ j # i
    BY DEF Submitting
  <2> QED OBVIOUS
<1>3. /\ alive' \in BOOLEAN /\ keys' \subseteq Launches \X Generations
      /\ phase' = "dispatch" /\ todo' \subseteq Candidate /\ crashes' \in 0 .. MaxCrashes
  BY <1>1 DEF Inv, TypeOK
<1> QED BY <1>2, <1>3, QuietStep

LEMMA DispatchUndeliverableInv ==
    ASSUME Inv, NEW i \in Launches, DispatchUndeliverable(i)
    PROVE  Inv'
<1> DEFINE reason == CASE launch # i -> "recipient-incarnation-replaced"
                       [] route = "hook" -> HookDelivered
                       [] OTHER -> "provider-unsupported"
           R == Locked(reg)
<1>1. /\ TypeOK /\ task[i].pc = "dispatch" /\ Done(i)
      /\ reg' = Undeliverable(R, i, task[i].generation, reason)
      /\ UNCHANGED <<launch, alive, route, keys, phase, todo, crashes, flight, landed,
                     doubled>>
  BY DEF Inv, DispatchUndeliverable, ServeKeeps, session, provider
<1>2. reason \in {"recipient-incarnation-replaced", HookDelivered, "provider-unsupported"}
  OBVIOUS
<1>3. Leads(reg, R, {i}, {launch}) /\ Good(R) /\ Good(reg)
  BY LockedLeads DEF Inv
<1> HIDE DEF R, reason
<1>4. Leads(R, reg', {i}, {launch})
  BY <1>1, <1>2, <1>3, UndeliverableLeads
<1>5. Leads(reg, reg', {i}, {launch})
  BY <1>3, <1>4, LeadsOn
<1>6. /\ task' \in [Launches -> Task] /\ task'[i].pc = "none"
      /\ \A j \in Launches \ {i} : task'[j] = task[j]
  BY <1>1, DoneTask
<1> QED BY <1>1, <1>5, <1>6, TaskStep

\* Steps that only say what comes next.
LEMMA GoOnInv ==
    ASSUME Inv, NEW i \in Launches,
           DispatchDeferred(i) \/ DispatchRefused(i) \/ SubmitRefused(i)
    PROVE  Inv'
<1>1. /\ TypeOK /\ task[i].pc # "none"
      /\ Goto(i, "failed") \/ Goto(i, "defer")
      /\ UNCHANGED <<reg, launch, alive, route, keys, phase, todo, crashes, flight, landed,
                     doubled>>
  BY DEF Inv, DispatchDeferred, DispatchRefused, SubmitRefused, ServeKeeps, session, provider
<1>2. Leads(reg, reg', {i}, {launch})
  BY <1>1, LeadsItself DEF Inv
<1>3. /\ task' \in [Launches -> Task] /\ task'[i].pc \in {"failed", "defer"}
      /\ \A j \in Launches \ {i} : task'[j] = task[j]
  BY <1>1, GotoTask
<1> QED BY <1>1, <1>2, <1>3, TaskStep

LEMMA MarkSubmittedInv ==
    ASSUME Inv, NEW i \in Launches, MarkSubmitted(i)
    PROVE  Inv'
<1> DEFINE R == Locked(reg)
<1>1. /\ TypeOK /\ task[i].pc = "accepted" /\ Done(i)
      /\ reg' = TransitionSubmitted(R, i, task[i].generation)
      /\ UNCHANGED <<launch, alive, route, keys, phase, todo, crashes, flight, landed,
                     doubled>>
  BY DEF Inv, MarkSubmitted, ServeKeeps, session, provider
<1>2. Leads(reg, R, {i}, {launch}) /\ Good(R) /\ Good(reg)
  BY LockedLeads DEF Inv
<1> HIDE DEF R
<1>3. Leads(R, reg', {i}, {launch})
  BY <1>1, <1>2, TaskFields, SubmittedLeads
<1>4. Leads(reg, reg', {i}, {launch})
  BY <1>2, <1>3, LeadsOn
<1>5. /\ task' \in [Launches -> Task] /\ task'[i].pc = "none"
      /\ \A j \in Launches \ {i} : task'[j] = task[j]
  BY <1>1, DoneTask
<1> QED BY <1>1, <1>4, <1>5, TaskStep

LEMMA MarkUnknownInv ==
    ASSUME Inv, NEW i \in Launches, MarkUnknown(i)
    PROVE  Inv'
<1> DEFINE R == Locked(reg)
<1>1. /\ TypeOK /\ task[i].pc = "failed"
      /\ MatchingAttempt(R, i, task[i].generation) =>
            reg' = TransitionUnknown(R, i) /\ Done(i)
      /\ ~MatchingAttempt(R, i, task[i].generation) => reg' = R /\ Goto(i, "defer")
      /\ UNCHANGED <<launch, alive, route, keys, phase, todo, crashes, flight, landed,
                     doubled>>
  BY DEF Inv, MarkUnknown, ServeKeeps, session, provider
<1>2. Leads(reg, R, {i}, {launch}) /\ Good(R) /\ Good(reg)
  BY LockedLeads DEF Inv
<1> HIDE DEF R
<1>3. CASE MatchingAttempt(R, i, task[i].generation)
  <2>1. Leads(R, reg', {i}, {launch})
    BY <1>1, <1>2, <1>3, UnknownLeads
  <2>2. Leads(reg, reg', {i}, {launch})
    BY <1>2, <2>1, LeadsOn
  <2> QED BY <1>1, <1>3, <2>2, DoneTask, TaskStep
<1>4. CASE ~MatchingAttempt(R, i, task[i].generation)
  <2>1. /\ task' \in [Launches -> Task] /\ task'[i].pc = "defer"
        /\ \A j \in Launches \ {i} : task'[j] = task[j]
    BY <1>1, <1>4, GotoTask
  <2> QED BY <1>1, <1>2, <1>4, <2>1, TaskStep
<1> QED BY <1>3, <1>4

LEMMA DeferTaskInv ==
    ASSUME Inv, NEW i \in Launches, DeferTask(i)
    PROVE  Inv'
<1> DEFINE R == Locked(reg)
<1>1. /\ TypeOK /\ task[i].pc = "defer" /\ Done(i)
      /\ reg' = Defer(R, i, task[i].generation)
      /\ UNCHANGED <<launch, alive, route, keys, phase, todo, crashes, flight, landed,
                     doubled>>
  BY DEF Inv, DeferTask, ServeKeeps, session, provider
<1>2. Leads(reg, R, {i}, {launch}) /\ Good(R) /\ Good(reg)
  BY LockedLeads DEF Inv
<1> HIDE DEF R
<1>3. Leads(R, reg', {i}, {launch})
  BY <1>1, <1>2, DeferLeads
<1>4. Leads(reg, reg', {i}, {launch})
  BY <1>2, <1>3, LeadsOn
<1>5. /\ task' \in [Launches -> Task] /\ task'[i].pc = "none"
      /\ \A j \in Launches \ {i} : task'[j] = task[j]
  BY <1>1, DoneTask
<1> QED BY <1>1, <1>4, <1>5, TaskStep

\* Between passes nothing is dispatched.
LEMMA NoneDispatched ==
    ASSUME Inv, phase # "dispatch", NEW i \in Launches
    PROVE  task[i] = NoTask /\ task[i].pc = "none"
BY NoTaskType DEF Inv

LEMMA UnresolvedScanInv ==
    ASSUME Inv, UnresolvedScan
    PROVE  Inv'
<1> DEFINE N == Normalize(reg)
           R == ResolveDrained(N, Launches)
<1>1. /\ phase = "idle" /\ phase' = "observe" /\ reg' = R /\ TypeOK
      /\ UNCHANGED <<task, crashes, launch, alive, route, keys, flight, landed, doubled>>
  BY DEF Inv, UnresolvedScan, session, provider
<1>2. PICK U \in SUBSET Launches :
        todo' = {[launch |-> i, generation |-> R.notifications[i].attempted,
                  epoch |-> R.epoch[i], seen |-> FALSE] : i \in U}
  BY DEF UnresolvedScan
<1>3. Leads(reg, N, {}, {launch}) /\ Good(N) /\ Good(reg)
  BY NormalizeLeads DEF Inv, Leads
<1> HIDE DEF N
<1>4. Leads(N, R, {}, {launch}) /\ Good(R)
  BY <1>3, ResolveDrainedLeads DEF Leads
<1> HIDE DEF R
<1>5. Leads(reg, reg', {}, {launch})
  BY <1>1, <1>3, <1>4, LeadsOn
<1>6. todo' \subseteq Candidate
  <2>1. \A i \in Launches : R.notifications[i].attempted \in Generations /\ R.epoch[i] \in Nat
    BY <1>4, GoodParts, ReceiptFields
  <2>2. ASSUME NEW i \in Launches
        PROVE  [launch |-> i, generation |-> R.notifications[i].attempted,
                epoch |-> R.epoch[i], seen |-> FALSE] \in Candidate
    BY <2>1 DEF Candidate
  <2> QED BY <1>2, <2>2
<1>7. \A i \in Launches : task'[i] = NoTask /\ task'[i].pc = "none"
  BY <1>1, NoneDispatched
<1> QED BY <1>1, <1>5, <1>6, <1>7, QuietStep DEF TypeOK

LEMMA PendingScanInv ==
    ASSUME Inv, PendingScan
    PROVE  Inv'
<1> DEFINE N == Normalize(reg)
           R == ResolveDrained(N, Launches)
<1>1. /\ phase' = "dispatch" /\ reg' = R /\ TypeOK
      /\ UNCHANGED <<todo, crashes, launch, alive, route, keys, flight, landed, doubled>>
  BY DEF Inv, PendingScan, session, provider
<1>2. PICK U \in SUBSET Launches :
        task' = [i \in Launches |->
                    IF i \in U
                    THEN [pc |-> "dispatch", epoch |-> R.epoch[i],
                          generation |-> R.notifications[i].generation]
                    ELSE NoTask]
  BY DEF PendingScan
<1>3. Leads(reg, N, {}, {launch}) /\ Good(N) /\ Good(reg)
  BY NormalizeLeads DEF Inv, Leads
<1> HIDE DEF N
<1>4. Leads(N, R, {}, {launch}) /\ Good(R)
  BY <1>3, ResolveDrainedLeads DEF Leads
<1> HIDE DEF R
<1>5. Leads(reg, reg', {}, {launch})
  BY <1>1, <1>3, <1>4, LeadsOn
<1>6. \A i \in Launches : task'[i] \in Task /\ task'[i].pc \in {"dispatch", "none"}
  <2>1. \A i \in Launches : R.notifications[i].generation \in Generations /\ R.epoch[i] \in Nat
    BY <1>4, GoodParts, ReceiptFields
  <2>2. ASSUME NEW i \in U
        PROVE  task'[i] \in Task /\ task'[i].pc = "dispatch"
    BY <1>2, <2>1 DEF Task
  <2>3. ASSUME NEW i \in Launches \ U
        PROVE  task'[i] \in Task /\ task'[i].pc = "none"
    BY <1>2, NoTaskType
  <2> QED BY <2>2, <2>3
<1>7. task' \in [Launches -> Task]
  BY <1>2, <1>6
<1> QED BY <1>1, <1>5, <1>6, <1>7, QuietStep DEF TypeOK

LEMMA PassEndsInv ==
    ASSUME Inv, PassEnds
    PROVE  Inv'
<1>1. /\ TypeOK /\ phase' = "idle" /\ \A i \in Launches : task[i] = NoTask
      /\ UNCHANGED <<reg, todo, task, crashes, launch, alive, route, keys, flight, landed,
                     doubled>>
  BY DEF Inv, PassEnds, session, provider
<1>2. Leads(reg, reg', {}, {launch})
  BY <1>1, LeadsItself DEF Inv
<1> QED BY <1>1, <1>2, NoTaskType, QuietStep DEF TypeOK

LEMMA ObserveInv ==
    ASSUME Inv, NEW c \in todo, Observe(c) \/ ObserveNothing(c)
    PROVE  Inv'
<1>1. /\ TypeOK /\ phase = "observe"
      /\ todo' \in {todo \ {c}, (todo \ {c}) \cup {[c EXCEPT !.seen = TRUE]}}
      /\ UNCHANGED <<reg, phase, task, crashes, launch, alive, route, keys, flight, landed,
                     doubled>>
  BY DEF Inv, Observe, ObserveNothing, session, provider
<1>2. Leads(reg, reg', {}, {launch})
  BY <1>1, LeadsItself DEF Inv
<1>3. todo' \subseteq Candidate
  <2>1. c \in Candidate /\ todo \subseteq Candidate
    BY <1>1 DEF TypeOK
  <2>2. [c EXCEPT !.seen = TRUE] \in Candidate
    BY <2>1 DEF Candidate
  <2> QED BY <1>1, <2>1, <2>2
<1>4. \A i \in Launches : task'[i] = NoTask /\ task'[i].pc = "none"
  BY <1>1, NoneDispatched
<1> QED BY <1>1, <1>2, <1>3, <1>4, QuietStep DEF TypeOK

\* The transcript settles attempts between passes, when nothing is dispatched.
LEMMA ReconcileInv ==
    ASSUME Inv, NEW c \in todo, ReconcileSubmitted(c)
    PROVE  Inv'
<1> DEFINE R == Locked(reg)
<1>1. /\ TypeOK /\ phase = "observe" /\ todo' = todo \ {c}
      /\ reg' = TransitionSubmitted(R, c.launch, c.generation)
      /\ UNCHANGED <<phase, task, crashes, launch, alive, route, keys, flight, landed,
                     doubled>>
  BY DEF Inv, ReconcileSubmitted, session, provider
<1>2. c.launch \in Launches /\ c.generation \in Generations
  BY <1>1 DEF TypeOK, Candidate
<1>3. Leads(reg, R, {c.launch}, {launch}) /\ Good(R) /\ Good(reg)
  BY LockedLeads DEF Inv
<1> HIDE DEF R
<1>4. Leads(R, reg', {c.launch}, {launch})
  BY <1>1, <1>2, <1>3, SubmittedLeads
<1>5. Leads(reg, reg', {c.launch}, {launch})
  BY <1>3, <1>4, LeadsOn
<1>6. \A i \in Launches : task'[i] = NoTask /\ task'[i].pc = "none"
  BY <1>1, NoneDispatched
<1>7. todo' \subseteq Candidate
  BY <1>1 DEF TypeOK
<1> QED BY <1>1, <1>5, <1>6, <1>7, QuietStep DEF TypeOK

LEMMA CrashInv ==
    ASSUME Inv, Crash \/ Restart
    PROVE  Inv'
<1>1. /\ TypeOK /\ phase' \in {"down", "idle"} /\ crashes' \in 0 .. MaxCrashes
      /\ todo' \subseteq Candidate
      /\ UNCHANGED <<reg, launch, alive, route, keys, flight, landed, doubled>>
      /\ \A i \in Launches : task'[i] = NoTask /\ task'[i].pc = "none"
      /\ task' \in [Launches -> Task]
  <2>1. CASE Crash
    BY <2>1, NoTaskType, Numbers DEF Inv, TypeOK, Crash, session, provider
  <2>2. CASE Restart
    BY <2>2, NoneDispatched DEF Inv, TypeOK, Restart, session, provider
  <2> QED BY <2>1, <2>2
<1>2. Leads(reg, reg', {}, {launch})
  BY <1>1, LeadsItself DEF Inv
<1> QED BY <1>1, <1>2, QuietStep DEF TypeOK

-----------------------------------------------------------------------------
(* The theorems                                                            *)

LEMMA InitInv == Init => Inv
<1> SUFFICES ASSUME Init PROVE Inv
  OBVIOUS
<1> USE DEF Init
<1>1. 1 \in Launches /\ 0 \in 0 .. MaxCrashes
  BY Numbers DEF Launches
<1>2. NoMessage \in Message /\ NoMessage.state = "none"
  BY Numbers, Values DEF NoMessage, Message
<1>3. Sound(NoReceipt) /\ NoReceipt \in Receipt
  BY NoReceiptSound DEF Sound
<1>4. reg \in Registry
  BY <1>2, <1>3 DEF Registry
<1>5. Good(reg)
  BY <1>2, <1>3, <1>4 DEF Good, Announced, Live
<1>6. TypeOK
  BY <1>1, <1>4, NoTaskType DEF TypeOK, Registry
<1>7. \A i \in Launches : task[i] = NoTask /\ task[i].pc = "none"
  BY NoTaskType
<1> QED BY <1>5, <1>6, <1>7 DEF Inv, Ahead, Fenced, Fresh, Submitting, Prompts

LEMMA NextInv == Inv /\ [Next]_vars => Inv'
<1> SUFFICES ASSUME Inv, [Next]_vars PROVE Inv'
  OBVIOUS
<1>1. CASE UNCHANGED vars
  <2>1. UNCHANGED <<reg, launch, alive, route, keys, phase, todo, task, flight, landed,
                    doubled, crashes>>
    BY <1>1 DEF vars
  <2>2. Leads(reg, reg', {}, {launch})
    BY <2>1, LeadsItself DEF Inv
  <2> QED BY <2>1, <2>2, OutsideStep DEF serve, provider, Inv, TypeOK
<1>2. ASSUME NEW m \in Messages, NEW k \in Kinds, Send(m, k.quiet, k.urgent, k.interval)
      PROVE  Inv'
  <2>1. k.quiet \in BOOLEAN /\ k.urgent \in BOOLEAN /\ k.interval \in {0, Interval}
    BY NotificationAssumption
  <2> QED BY <1>2, <2>1, SendInv
<1>3. ASSUME NEW m \in Messages, Show(m) \/ Ack(m) \/ MessageAges(m) PROVE Inv'
  BY <1>3, ShowInv, AckInv, MessageAgesInv
<1>4. ASSUME NEW read \in BOOLEAN, Reminder(read) PROVE Inv'
  BY <1>4, ReminderInv
<1>5. CASE SendRejected \/ Stop \/ Die \/ Resume
  BY <1>5, SendRejectedInv, StopInv, DieInv, ResumeInv
<1>6. CASE UnresolvedScan \/ PendingScan \/ PassEnds \/ Crash \/ Restart \/ Tick
  BY <1>6, UnresolvedScanInv, PendingScanInv, PassEndsInv, CrashInv, TickInv
<1>7. ASSUME NEW c \in todo, Observe(c) \/ ObserveNothing(c) \/ ReconcileSubmitted(c)
      PROVE  Inv'
  BY <1>7, ObserveInv, ReconcileInv
<1>8. ASSUME NEW i \in Launches,
             \/ DispatchUndeliverable(i) \/ DispatchDeferred(i) \/ DispatchRefused(i)
             \/ SubmitRefused(i) \/ MarkSubmitted(i) \/ MarkUnknown(i) \/ DeferTask(i)
      PROVE  Inv'
  BY <1>8, DispatchUndeliverableInv, GoOnInv, MarkSubmittedInv, MarkUnknownInv, DeferTaskInv
<1>9. ASSUME NEW i \in Launches,
             \/ DispatchBegin(i) \/ SubmitLate(i) \/ SignalExpires(i)
             \/ \E confirmed \in BOOLEAN : SubmitTaken(i, confirmed)
      PROVE  Inv'
  BY <1>9, DispatchBeginInv, SubmitLateInv, SignalExpiresInv, SubmitTakenInv
<1>10. ASSUME NEW w \in flight, LateArrival(w) \/ LateLoss(w) PROVE Inv'
  BY <1>10, LateInv
<1>11. CASE Pass
  BY <1>6, <1>7, <1>8, <1>11 DEF Pass
<1> QED BY <1>1, <1>2, <1>3, <1>4, <1>5, <1>6, <1>7, <1>8, <1>9, <1>10, <1>11 DEF Next

LEMMA NotificationInv == Spec => []Inv
BY InitInv, NextInv, PTL DEF Spec

\* Every variable keeps its type: above all no sequence of sends, quota signals
\* and resumes takes a receipt past the generations it may have, and no delay
\* outlasts a retry.
THEOREM NotificationTypeOK == Spec => []TypeOK
<1>1. Inv => TypeOK
  BY DEF Inv
<1> QED BY <1>1, NotificationInv, PTL

\* A generation of a receipt prompts the provider at most once, for any number
\* of launches, messages and deaths of serve: a generation that was attempted
\* is never queued again (transition_attempt_at, transition_submitted,
\* claim_hook_reminder, reconcile from the transcript).
THEOREM NoDoubleWakeTheorem == Spec => []NoDoubleWake
<1>1. Inv => NoDoubleWake
  BY DEF Inv, NoDoubleWake
<1> QED BY <1>1, NotificationInv, PTL

\* Mail that waits to be announced has a receipt that still covers it, through
\* scheduling, normalisation, draining, retention and every resume.
THEOREM NoSilentMailTheorem == Spec => []NoSilentMail
<1>1. ASSUME Inv PROVE NoSilentMail
  <2> SUFFICES ASSUME NEW m \in Messages, Live(reg, m)
               PROVE  LET msg == reg.messages[m]
                          r == reg.notifications[msg.to]
                      IN  /\ r.state # "none"
                          /\ r.generation >= msg.generation
                          /\ r.state = "prompt_submitted" => r.notified >= msg.generation
                          /\ r.reason = Drained => r.notified >= msg.generation
    BY DEF NoSilentMail
  <2>1. /\ reg.messages[m].to \in Launches
        /\ Covers(reg.notifications[reg.messages[m].to], reg.messages[m])
    BY <1>1, GoodParts DEF Inv, Announced
  <2>2. Sound(reg.notifications[reg.messages[m].to])
    BY <1>1, <2>1, GoodParts DEF Inv
  <2> QED BY <2>1, <2>2 DEF Covers, Sound
<1>2. Inv => NoSilentMail
  BY <1>1
<1> QED BY <1>2, NotificationInv, PTL

\* An urgent message that nobody announced yet, admitted to the recipient's
\* launch while its policy had a routine window, is never held back by that
\* window, whatever mail, quota signal or attempt comes after it (admit, due).
\* Urgent mail admitted without a window or carried to a later launch is outside.
THEOREM UrgentBypassesTheorem == Spec => []UrgentBypasses
<1>1. ASSUME Inv PROVE UrgentBypasses
  <2> SUFFICES ASSUME NEW m \in Messages, Live(reg, m), reg.messages[m].window,
                      reg.notifications[reg.messages[m].to].notified
                        < reg.messages[m].generation
               PROVE  Due(reg.notifications[reg.messages[m].to])
    BY DEF UrgentBypasses, Unannounced
  <2> DEFINE msg == reg.messages[m]
             r == reg.notifications[msg.to]
  <2>1. msg.to \in Launches /\ Covers(r, msg)
    BY <1>1, GoodParts DEF Inv, Announced
  <2>2. r.urgent \in Nat /\ r.notified \in Nat /\ msg.generation \in Nat
    BY <1>1, <2>1, GoodParts, ReceiptFields, MessageFields, Numbers DEF Inv, Generations
  <2>3. r.urgent > r.notified
    BY <2>1, <2>2 DEF Covers
  <2> QED BY <2>3 DEF Due
<1>2. Inv => UrgentBypasses
  BY <1>1
<1> QED BY <1>2, NotificationInv, PTL

\* While serve is between begin_attempt and the outcome, and retention has not
\* dropped the receipt, the recipient stays at the launch the prompt goes to:
\* the attempt keeps its receipt attempting, so the fence holds every resume
\* (ensure_notification_submission_not_in_progress, RestartFence).
THEOREM AttemptOnRunningTheorem == Spec => []AttemptOnRunning
<1>1. Inv => AttemptOnRunning
  BY DEF Inv, AttemptOnRunning, Fenced, Submitting
<1> QED BY <1>1, NotificationInv, PTL

=============================================================================
