------------------------------- MODULE Remote -------------------------------
(***************************************************************************)
(* Mail between machines (coordination/remote.rs, its submodules,          *)
(* receipt_retention.rs, serve_remote_outbox.rs).                          *)
(*                                                                         *)
(* A source daemon accepts a message into its journal, posts it to a relay *)
(* until it has an answer or the message expires, and tells the sender of  *)
(* a failure by a notice in the sender's own mailbox.  The destination     *)
(* daemon stores a message together with an idempotency receipt, so that a *)
(* repeated post is answered and not stored again.                         *)
(*                                                                         *)
(* One sending session on the source, one recipient session on the         *)
(* destination, session origins.  The relay is not in this repository: it  *)
(* may lose a request or its answer, refuse a request, or hand it over     *)
(* after the daemon has given up on it, any number of times.               *)
(*                                                                         *)
(* RETRY_SECS and the deferral of a destination's other messages only say  *)
(* which queued message is next: any may be.  Time is coarse and the same  *)
(* on both machines.  A key reused with other content is refused without   *)
(* an effect, and left out.                                                *)
(***************************************************************************)
EXTENDS Integers, Sequences, FiniteSets

CONSTANTS
    Keys,                 \* idempotency keys of the sender
    Replies,              \* those of a reply to the one message that is owed one
    MaxMsgs,              \* bound: messages accepted
    MaxTime,              \* bound: the clock
    MaxIncarnation,       \* bound: launches of the recipient
    SenderStates,         \* bound: what becomes of the sender's broker
    MaxCrashes,           \* bound: deaths of the source daemon
    Lifetime,             \* of a message, from its acceptance
    Retention,            \* the 86400 seconds an identity outlives its message
    MaxExpiry,            \* MAX_EXPIRY_SECS
    ParentExpiry,         \* when the message that is owed a reply expires
    AckRetention,         \* ACKNOWLEDGED_MESSAGE_RETENTION_SECS
    TerminalRetention,    \* TERMINAL_RETENTION_SECS
    MAX_PENDING,          \* queued messages of the journal
    MAX_RETAINED_IDS,     \* identities of the journal
    MAX_SESSION_MESSAGES, \* live messages of a mailbox
    MAX_TERMINAL_MESSAGES,
    MAX_RECEIPTS          \* MAX_RECEIPTS_PER_PRINCIPAL

ASSUME RemoteAssumption ==
    /\ {MaxMsgs, MaxTime, MaxIncarnation, MaxCrashes, Lifetime, Retention,
        MaxExpiry, ParentExpiry, AckRetention, TerminalRetention, MAX_PENDING,
        MAX_RETAINED_IDS, MAX_SESSION_MESSAGES, MAX_TERMINAL_MESSAGES,
        MAX_RECEIPTS} \subseteq Nat
    /\ 0 < MaxIncarnation /\ 0 < Lifetime /\ 0 < Retention /\ Lifetime <= MaxExpiry
    /\ Replies \subseteq Keys
    /\ SenderStates \subseteq {"ready", "down", "replaced"}

VARIABLES
    now,
    requests,  \* submissions between the replay check and the commit; any
               \* number of clients may be at each of them
    items,     \* what the journal says of each message; "gone": compacted away
    retained,  \* the journal's terminal identities, in the order they ended
    parent,    \* the message that is owed a reply: "owed" or "replied"
    drain,     \* the daemon's outbox worker
    late,      \* posted messages the relay still holds without a waiting worker
    notices,   \* the worker's cursor over retained, and notices it owes
    src,       \* the sender's broker: "ready", "down", "replaced"
    dst,       \* the recipient's launch
    inbox,     \* the mailboxes: messages on the destination, notices on the source
    receipts,  \* when the ingress receipt expires, 0 without one
    arrivals,  \* how often an identity entered a mailbox (history, to 2)
    evicted,   \* identities whose receipt made room for another (history)
    lost,      \* messages with a post the journal has no trace of: the daemon died
               \* or could not save after it (history)
    crashes

journal == <<items, retained>>
registries == <<inbox, receipts, arrivals, evicted>>
vars == <<now, requests, items, retained, parent, drain, late, notices, src, dst,
          inbox, receipts, arrivals, evicted, lost, crashes>>

Msgs == 1 .. MaxMsgs
Times == 0 .. MaxTime
Incarnations == 1 .. MaxIncarnation

\* The stable identity of the notice about message m.
NoticeId(m) == MaxMsgs + m
Ids == 1 .. 2 * MaxMsgs

Failed == {"rejected", "delivery-unknown"}
Terminal == Failed \cup {"delivered"}
Kept == Terminal \cup {"queued"}
MailLive == {"unread"}
MailTerminal == {"acknowledged", "expired"}

Least(a, b) == IF a < b THEN a ELSE b

\* The members of ids that are in S, in their order (SelectSeq, in a form that
\* can be reasoned about: the provers know nothing of SelectSeq).
Filter(ids, S) ==
    LET K == {i \in DOMAIN ids : ids[i] \in S}
    IN  [j \in 1 .. Cardinality(K) |->
            ids[CHOOSE i \in K : Cardinality({k \in K : k < i}) = j - 1]]

\* expires_at: until when a notice about m is worth sending.
NoticeExpiry(m) ==
    Least(items[m].expires + Retention, items[m].changed + MaxExpiry)

Expires(id) ==
    IF id \in Msgs THEN items[id].expires ELSE NoticeExpiry(id - MaxMsgs)

NoItem == [state |-> "none", key |-> "none", to |-> 1, expires |-> 0,
           attempts |-> 0, changed |-> 0]
NoMail == [state |-> "none", at |-> 0]
NoNotices == [scanned |-> 0, last |-> 0, pending |-> <<>>]
Idle == [at |-> "idle", msg |-> 0, answer |-> "none"]
Requests == [key : Keys, to : Incarnations]

Codes == {"delivered", "unavailable", "replaced", "refused", "expired"}

TypeOK ==
    /\ now \in Times
    /\ requests \subseteq Requests
    /\ items \in
        [Msgs -> [state : Kept \cup {"none", "gone"}, key : Keys \cup {"none"},
                  to : Incarnations, expires : Nat, attempts : 0 .. 2,
                  changed : Times]]
    /\ retained \in Seq(Msgs)
    /\ parent \in {"owed", "replied"}
    /\ drain \in [at : {"idle", "posted", "answered", "notices", "deliver"},
                  msg : 0 .. MaxMsgs, answer : Codes \cup {"none"}]
    /\ late \subseteq Msgs
    /\ notices \in [scanned : Nat, last : 0 .. MaxMsgs, pending : Seq(Msgs)]
    /\ src \in {"ready", "down", "replaced"}
    /\ dst \in Incarnations
    /\ inbox \in
        [Ids -> [state : MailLive \cup MailTerminal \cup {"none"}, at : Times]]
    /\ receipts \in [Ids -> Nat]
    /\ arrivals \in [Ids -> 0 .. 2]
    /\ evicted \subseteq Ids
    /\ lost \subseteq Msgs
    /\ crashes \in 0 .. MaxCrashes

Init ==
    /\ now = 0
    /\ requests = {}
    /\ items = [m \in Msgs |-> NoItem]
    /\ retained = <<>>
    /\ parent = "owed"
    /\ drain = Idle
    /\ late = {}
    /\ notices = NoNotices
    /\ src = "ready"
    /\ dst = 1
    /\ inbox = [id \in Ids |-> NoMail]
    /\ receipts = [id \in Ids |-> 0]
    /\ arrivals = [id \in Ids |-> 0]
    /\ evicted = {}
    /\ lost = {}
    /\ crashes = 0

-----------------------------------------------------------------------------
(* Mailboxes: what every locked section of a registry does first           *)

Host(id) == IF id \in Msgs THEN "dst" ELSE "src"
On(h) == {id \in Ids : Host(id) = h}

\* Live mail past its expiry is marked, terminal mail past its retention dropped.
Retired(h, id) ==
    LET mail == inbox[id]
        marked == IF mail.state \in MailLive /\ Expires(id) <= now
                  THEN [state |-> "expired", at |-> now]
                  ELSE mail
        over == \/ marked.state = "acknowledged" /\ marked.at + AckRetention <= now
                \/ marked.state = "expired" /\ marked.at + TerminalRetention <= now
    IN  IF id \notin On(h) THEN mail
        ELSE IF over THEN NoMail ELSE marked

\* compact_terminal_records: only the newest terminal mail is history.
CompactTerminal(h, box) ==
    LET terminal == {id \in On(h) : box[id].state \in MailTerminal}
        newer(id) == {o \in terminal : \/ box[o].at > box[id].at
                                       \/ box[o].at = box[id].at /\ o > id}
    IN  [id \in Ids |->
            IF id \in terminal /\ Cardinality(newer(id)) >= MAX_TERMINAL_MESSAGES
            THEN NoMail ELSE box[id]]

MaintainedBox(h) == CompactTerminal(h, [id \in Ids |-> Retired(h, id)])

\* Mutant: a receipt goes with its message.
MaintainedReceiptsOfStored(h) ==
    [id \in Ids |-> IF /\ id \in On(h)
                       /\ receipts[id] <= now \/ MaintainedBox(h)[id].state = "none"
                    THEN 0 ELSE receipts[id]]

MaintainedReceipts(h) ==
    [id \in Ids |-> IF id \in On(h) /\ receipts[id] <= now THEN 0 ELSE receipts[id]]

-----------------------------------------------------------------------------
(* Receiving (receive_admitted), by the destination and for notices        *)

\* Whether the broker is ready with a fresh heartbeat: left open for the
\* recipient's.
HostReady(h) == IF h = "dst" THEN BOOLEAN ELSE {src = "ready"}
HostIncarnation(h) == IF h = "dst" THEN dst ELSE IF src = "replaced" THEN 2 ELSE 1

\* Mutant: the state of the message is not looked at.
FinishedAlways(box, id) == TRUE

\* A receipt is finished when its message is terminal or no longer stored.
Finished(box, id) == box[id].state \notin MailLive

\* make_room: the receipts that may be evicted for one more, oldest first.
Victims(h, box, recs) ==
    LET held == {id \in On(h) : recs[id] > 0}
        done == {id \in held : Finished(box, id)}
    IN  IF Cardinality(held) < MAX_RECEIPTS
        THEN {{}}
        ELSE {{v} : v \in {d \in done : \A o \in done : recs[d] <= recs[o]}}

\* Mutant: the receipt keeps the lifetime store_receipt gives it.
ReceiptDefaultTtl(expires) == now + Retention

\* Kept beyond every valid replay of the envelope.
ReceiptExpiry(expires) == expires + Retention

\* The answers a host may give to identity id, and what each leaves behind.
\* A receipt is looked for before anything else is; the second look, under
\* the lock that stores the message, finds the same.
Received(h, id, to) ==
    LET box == MaintainedBox(h)
        recs == MaintainedReceipts(h)
        live == {o \in On(h) : box[o].state \in MailLive}
        victims == Victims(h, box, recs)
        answer(code) == [code |-> code, inbox |-> box, receipts |-> recs,
                         stored |-> FALSE, victims |-> {}]
    IN  CASE receipts[id] > now ->
                {[code |-> "delivered", inbox |-> inbox, receipts |-> receipts,
                  stored |-> FALSE, victims |-> {}]}
          [] receipts[id] <= now /\ Expires(id) <= now ->
                {[code |-> "refused", inbox |-> inbox, receipts |-> receipts,
                  stored |-> FALSE, victims |-> {}]}
          [] OTHER ->
                UNION {
                    IF HostIncarnation(h) # to THEN {answer("replaced")}
                    ELSE IF box[id].state # "none" THEN {answer("refused")}
                    ELSE IF ~ready THEN {answer("unavailable")}
                    ELSE IF \/ Cardinality(live) >= MAX_SESSION_MESSAGES
                            \/ victims = {}
                    THEN {answer("refused")}
                    ELSE {[code |-> "delivered",
                           inbox |-> [box EXCEPT ![id] = [state |-> "unread", at |-> 0]],
                           receipts |-> [o \in Ids |->
                               IF o = id THEN ReceiptExpiry(Expires(id))
                               ELSE IF o \in V THEN 0 ELSE recs[o]],
                           stored |-> TRUE, victims |-> V] : V \in victims} :
                    ready \in HostReady(h)}

\* The registry of one host after the answer r to identity id.
Stored(r, id) ==
    /\ inbox' = r.inbox
    /\ receipts' = r.receipts
    /\ arrivals' = [arrivals EXCEPT ![id] = IF r.stored THEN Least(2, @ + 1) ELSE @]
    /\ evicted' = evicted \cup r.victims

-----------------------------------------------------------------------------
(* The journal                                                             *)

Find(k) == {m \in Msgs : items[m].state \in Kept /\ items[m].key = k}

\* compact: an identity is dropped Retention after its message expired.
Fresh(I, m) == I[m].expires + Retention > now
CompactItems(I) ==
    [m \in Msgs |-> IF I[m].state \in Kept /\ ~Fresh(I, m)
                    THEN [I[m] EXCEPT !.state = "gone"] ELSE I[m]]
CompactRetained(I, ids) == Filter(ids, {m \in Msgs : Fresh(I, m)})

ParentGone == ParentExpiry <= now

\* Mutant: nothing is recovered.
RecoverNothing == parent

\* recover: accepted replies still in the outbox settle what they answer.
Recovered ==
    IF \E m \in Msgs : items[m].state = "queued" /\ items[m].key \in Replies
                         /\ ~ParentGone
    THEN "replied" ELSE parent

-----------------------------------------------------------------------------
(* Submitting (submit_origin)                                              *)

\* record_reply for the parent of key k.
Settle(k) == IF k \in Replies /\ ~ParentGone THEN "replied" ELSE parent

\* The key is known: the original identity is the answer.
Replay(k) ==
    /\ src = "ready"
    /\ Find(k) # {}
    /\ parent' = Settle(k)
    /\ UNCHANGED <<now, requests, journal, drain, late, notices, src, dst,
                   registries, lost, crashes>>

\* A reply goes to the launch that sent its parent, other mail to the launch
\* discovery shows now.  No lock is held from here to the commit.
Begin(k) ==
    /\ src = "ready"
    /\ Find(k) = {}
    /\ k \in Replies => ~ParentGone
    /\ requests' = requests \cup {[key |-> k, to |-> IF k \in Replies THEN 1 ELSE dst]}
    /\ UNCHANGED <<now, journal, parent, drain, late, notices, src, dst,
                   registries, lost, crashes>>

\* Mutant: the key is not looked up again at the commit.
AdmissibleOnce(r) ==
    /\ src = "ready"
    /\ r.key \in Replies => ~ParentGone

\* Authorisation, the parent and the key are looked at again under the locks.
Admissible(r) ==
    /\ src = "ready"
    /\ r.key \in Replies => ~ParentGone
    /\ Find(r.key) = {}

HasCapacity ==
    LET kept == {m \in Msgs : items[m].state \in Kept /\ Fresh(items, m)}
        pending == {m \in kept : items[m].state = "queued"}
    IN  Cardinality(pending) < MAX_PENDING /\ Cardinality(kept) < MAX_RETAINED_IDS

\* The journal is compacted and written with the new message in it.
Accept(r) ==
    /\ \E m \in Msgs :
        /\ items[m].state = "none"
        /\ \A o \in Msgs : o < m => items[o].state # "none"
        /\ items' = [CompactItems(items) EXCEPT ![m] =
                [state |-> "queued", key |-> r.key, to |-> r.to,
                 expires |-> now + Lifetime, attempts |-> 0, changed |-> now]]
    /\ retained' = CompactRetained(items, retained)

Commit(r) ==
    /\ r \in requests
    /\ requests' \in {requests, requests \ {r}}
    /\ \/ /\ Admissible(r) /\ HasCapacity /\ Accept(r)
          /\ parent' = IF r.key \in Replies THEN Settle(r.key) ELSE Recovered
       \/ Admissible(r) /\ ~HasCapacity /\ parent' = Recovered /\ UNCHANGED journal
       \/ ~Admissible(r) /\ UNCHANGED <<journal, parent>>
    /\ UNCHANGED <<now, drain, late, notices, src, dst, registries, lost, crashes>>

-----------------------------------------------------------------------------
(* The outbox worker (drain_with_notice_state)                             *)

\* Mutant: a message past its expiry is not picked any more.
DrainPickUnexpired(m) ==
    /\ drain.at = "idle"
    /\ items[m].state = "queued" /\ items[m].expires > now
    /\ parent' = Recovered
    /\ drain' = [at |-> "posted", msg |-> m, answer |-> "none"]
    /\ UNCHANGED <<now, requests, journal, late, notices, src, dst, registries,
                   lost, crashes>>

\* One queued message is read from the journal and posted without a lock; one
\* that has expired is answered on the spot.
DrainPick(m) ==
    /\ drain.at = "idle"
    /\ items[m].state = "queued"
    /\ parent' = Recovered
    /\ drain' = IF items[m].expires > now
                THEN [at |-> "posted", msg |-> m, answer |-> "none"]
                ELSE [at |-> "answered", msg |-> m, answer |-> "expired"]
    /\ UNCHANGED <<now, requests, journal, late, notices, src, dst, registries,
                   lost, crashes>>

\* Nothing is due.
DrainNone ==
    /\ drain.at = "idle"
    /\ drain' = [drain EXCEPT !.at = "notices"]
    /\ parent' = Recovered
    /\ UNCHANGED <<now, requests, journal, late, notices, src, dst, registries,
                   lost, crashes>>

\* The destination answers; the answer may get lost on its way back.
PostArrives ==
    /\ drain.at = "posted"
    /\ \E r \in Received("dst", drain.msg, items[drain.msg].to) :
        /\ Stored(r, drain.msg)
        /\ \E code \in {r.code, "unavailable"} :
            drain' = [drain EXCEPT !.at = "answered", !.answer = code]
    /\ UNCHANGED <<now, requests, journal, parent, late, notices, src, dst, lost,
                   crashes>>

\* The worker gives up on the post, or the relay itself refuses it.
PostFails ==
    /\ drain.at = "posted"
    /\ \/ /\ drain' = [drain EXCEPT !.at = "answered", !.answer = "unavailable"]
          /\ late' \in {late, late \cup {drain.msg}}
       \/ /\ drain' = [drain EXCEPT !.at = "answered", !.answer = "refused"]
          /\ UNCHANGED late
    /\ UNCHANGED <<now, requests, journal, parent, notices, src, dst, registries,
                   lost, crashes>>

\* A post whose worker no longer waits reaches the destination.
LateArrives(m) ==
    /\ m \in late
    /\ \E r \in Received("dst", m, items[m].to) : Stored(r, m)
    /\ UNCHANGED <<now, requests, journal, parent, drain, late, notices, src, dst,
                   lost, crashes>>

\* Mutant: an earlier attempt without an answer is forgotten.
AttemptedRejects(item, answer) ==
    LET state == CASE answer = "delivered" -> "delivered"
                   [] answer = "expired" -> "delivery-unknown"
                   [] answer = "unavailable" -> "queued"
                   [] OTHER -> "rejected"
    IN  [item EXCEPT !.attempts = Least(2, @ + 1), !.state = state,
                     !.changed = IF state = "queued" THEN @ ELSE now]

\* What the journal says after one more attempt with this answer.
Attempted(item, answer) ==
    LET attempts == Least(2, item.attempts + 1)
        state == CASE answer = "delivered" -> "delivered"
                   [] answer = "expired" -> "delivery-unknown"
                   [] answer = "unavailable" -> "queued"
                   [] OTHER -> IF attempts > 1 THEN "delivery-unknown" ELSE "rejected"
    IN  [item EXCEPT !.attempts = attempts, !.state = state,
                     !.changed = IF state = "queued" THEN @ ELSE now]

DrainSave ==
    LET m == drain.msg
        done == [items EXCEPT ![m] = Attempted(@, drain.answer)]
    IN  /\ drain.at = "answered"
        /\ drain' = [Idle EXCEPT !.at = "notices"]
        /\ parent' = Recovered
        /\ IF items[m].state = "queued"
           THEN /\ items' = CompactItems(done)
                /\ retained' = CompactRetained(done,
                        IF done[m].state = "queued" THEN retained
                        ELSE Append(retained, m))
           ELSE UNCHANGED journal
        /\ UNCHANGED <<now, requests, late, notices, src, dst, registries, lost,
                       crashes>>

-----------------------------------------------------------------------------
(* Failure notices (remote_delivery_notice.rs)                             *)

\* The notices still owed for the identities after position n.
Owing(n) ==
    Filter(SubSeq(retained, n + 1, Len(retained)),
           {m \in Msgs : /\ items[m].state \in Failed
                         /\ NoticeExpiry(m) > now
                         /\ receipts[NoticeId(m)] <= now})

SamePrefix ==
    /\ notices.scanned <= Len(retained)
    /\ notices.last = IF notices.scanned = 0 THEN 0 ELSE retained[notices.scanned]

LastOf(ids) == IF ids = <<>> THEN 0 ELSE ids[Len(ids)]

\* The cursor is kept while the identities before it are the ones it has seen.
Refresh ==
    /\ drain.at = "notices"
    /\ drain' = [drain EXCEPT !.at = "deliver"]
    /\ notices' =
        [scanned |-> Len(retained), last |-> LastOf(retained),
         pending |-> IF SamePrefix
                     THEN Filter(notices.pending, {m \in Msgs : NoticeExpiry(m) > now})
                            \o Owing(notices.scanned)
                     ELSE Owing(0)]
    /\ UNCHANGED <<now, requests, journal, parent, late, src, dst, registries, lost,
                   crashes>>

\* Of no use any more, or already told.
Settled(m) ==
    \/ NoticeExpiry(m) <= now
    \/ receipts[NoticeId(m)] > now
    \/ src = "replaced"

\* Mutant: a notice that cannot be delivered yet is dropped.
NoticeDropped == drain' = Idle /\ notices' = [notices EXCEPT !.pending = Tail(@)]

NoticeDone == notices' = [notices EXCEPT !.pending = Tail(@)] /\ UNCHANGED drain
NoticeLater == drain' = Idle /\ UNCHANGED notices

\* The batch of 8 is never used up at these bounds.
Deliver ==
    /\ drain.at = "deliver"
    /\ IF notices.pending = <<>> THEN drain' = Idle /\ UNCHANGED <<notices, registries>>
       ELSE \E m \in Msgs :
            /\ m = Head(notices.pending)
            /\ \/ Settled(m) /\ NoticeDone /\ UNCHANGED registries
               \/ ~Settled(m) /\ src # "ready" /\ NoticeLater /\ UNCHANGED registries
               \/ /\ ~Settled(m) /\ src = "ready"
                  /\ \E r \in Received("src", NoticeId(m), 1) :
                        /\ Stored(r, NoticeId(m))
                        /\ IF r.code \in {"delivered", "replaced"}
                           THEN NoticeDone ELSE NoticeLater
    /\ UNCHANGED <<now, requests, journal, parent, late, src, dst, lost, crashes>>

\* A lock is not free in time or a save fails: the pass ends in an error and the
\* worker comes again in 5 seconds, with its cursor.  What was posted is not counted;
\* replies may have been recovered before; a cursor found outdated is given up.
DrainFails ==
    /\ drain.at \in {"answered", "notices", "deliver"}
    /\ drain' = Idle
    /\ parent' \in IF drain.at = "answered" THEN {parent, Recovered} ELSE {parent}
    /\ notices' \in {notices} \cup
            IF drain.at # "notices" \/ SamePrefix THEN {}
            ELSE {[notices EXCEPT !.scanned = 0, !.pending = <<>>]}
    /\ lost' = IF drain.at = "answered" /\ drain.answer # "expired"
               THEN lost \cup {drain.msg} ELSE lost
    /\ UNCHANGED <<now, requests, journal, late, src, dst, registries, crashes>>

-----------------------------------------------------------------------------
(* The rest of the world                                                   *)

\* The source daemon dies: its requests and its worker's memory are lost, and
\* the relay may still hold the post.  A commit may have written the journal
\* and not yet the registry.
Died ==
    /\ crashes < MaxCrashes
    /\ crashes' = crashes + 1
    /\ requests' = {}
    /\ drain' = Idle
    /\ notices' = NoNotices
    /\ late' \in {late, IF drain.at = "posted" THEN late \cup {drain.msg} ELSE late}
    /\ lost' = IF \/ drain.at = "posted"
                  \/ drain.at = "answered" /\ drain.answer # "expired"
               THEN lost \cup {drain.msg} ELSE lost
    /\ UNCHANGED <<now, src, dst, registries>>

Crash == Died /\ UNCHANGED <<journal, parent>>

CrashInCommit(r) ==
    /\ r \in requests /\ Admissible(r) /\ HasCapacity
    /\ Accept(r) /\ parent' = Recovered
    /\ Died

\* The recipient of a message or of a notice acknowledges it.
Ack(id) ==
    LET h == Host(id)
        box == MaintainedBox(h)
        to == IF id \in Msgs THEN items[id].to ELSE 1
    IN  /\ TRUE \in HostReady(h) /\ HostIncarnation(h) = to
        /\ box[id].state \in MailLive
        /\ inbox' = [box EXCEPT ![id] = [state |-> "acknowledged", at |-> now]]
        /\ receipts' = MaintainedReceipts(h)
        /\ UNCHANGED <<now, requests, journal, parent, drain, late, notices, src,
                       dst, arrivals, evicted, lost, crashes>>

\* Brokers go down, come back and are replaced by a new launch.
SrcChanges ==
    /\ src # "replaced"
    /\ src' \in SenderStates \ {src}
    /\ UNCHANGED <<now, requests, journal, parent, drain, late, notices, dst,
                   registries, lost, crashes>>

DstReplaced ==
    /\ dst < MaxIncarnation
    /\ dst' = dst + 1
    /\ UNCHANGED <<now, requests, journal, parent, drain, late, notices, src,
                   registries, lost, crashes>>

Tick ==
    /\ now < MaxTime
    /\ now' = now + 1
    /\ UNCHANGED <<requests, journal, parent, drain, late, notices, src, dst,
                   registries, lost, crashes>>

Worker == DrainNone \/ PostArrives \/ PostFails \/ DrainSave \/ Refresh \/ Deliver

Next ==
    \/ \E k \in Keys : Begin(k) \/ Replay(k)
    \/ \E r \in requests : Commit(r) \/ CrashInCommit(r)
    \/ \E m \in Msgs : DrainPick(m) \/ LateArrives(m)
    \/ Worker \/ DrainFails
    \/ Crash
    \/ \E id \in Ids : Ack(id)
    \/ SrcChanges \/ DstReplaced
    \/ Tick

Spec == Init /\ [][Next]_vars

\* The worker runs for ever and its HTTP client gives up in the end.  A message
\* it has just tried is the last to be tried again (the retry deadline), so
\* none of them is passed over for ever.  The locks are held for a file's reading
\* and writing only: who tries again and again gets them, and saves.
Fairness ==
    /\ WF_vars(Worker)
    /\ \A m \in Msgs : SF_vars(DrainPick(m)) /\ SF_vars(drain.msg = m /\ DrainSave)
    /\ SF_vars(Refresh)
    /\ SF_vars(Deliver)

FairSpec == Spec /\ Fairness

-----------------------------------------------------------------------------
(* Properties                                                              *)

\* A key names one message as long as the journal remembers it: submissions
\* that raced each other, or came again after a crash, got one identity.
KeyNamesOneMessage ==
    \A m, n \in Msgs :
        /\ items[m].state \in Kept /\ items[n].state \in Kept
        /\ items[m].key = items[n].key
        => m = n

\* A message, and the notice about it, enters a mailbox at most once, whatever
\* the relay repeats and whenever the daemon dies, unless its receipt was
\* evicted to make room.
AtMostOnce == \A id \in Ids : arrivals[id] > 1 => id \in evicted

\* The receipt of live mail is never given up, at capacity either.
LiveReceiptKept ==
    \A id \in Ids :
        inbox[id].state \in MailLive /\ now < Expires(id) => receipts[id] > now

\* What the journal reports is true: "delivered" was stored, "rejected" was
\* not and cannot be any more, unless the daemon died after a post or could not
\* save the attempt, so that a later refusal counts as the answer to the first.
OutcomeIsTrue ==
    \A m \in Msgs :
        /\ items[m].state = "delivered" => arrivals[m] > 0
        /\ items[m].state = "rejected" /\ m \notin lost =>
            arrivals[m] = 0 /\ m \notin late

\* An accepted reply whose entry left the outbox has settled its obligation.
ReplySettles ==
    \A m \in Msgs :
        items[m].state \in Terminal /\ items[m].key \in Replies /\ ~ParentGone =>
            parent = "replied"

\* A message that expired without a receipt leaves the queue, and gets its outcome
\* if the worker comes to it within Retention: one found later than that is compacted
\* away by the very save that records the outcome (drain, compact).
OutcomeReached ==
    \A m \in Msgs :
        (items[m].state = "queued" /\ items[m].expires <= now)
            ~> /\ items[m].state # "queued"
               /\ items[m].state \in Terminal \/ items[m].expires + Retention <= now

\* A failure the sender has not been told of, with a mailbox that would take
\* the notice.
Untold(m) ==
    /\ items[m].state \in Failed /\ NoticeExpiry(m) > now
    /\ arrivals[NoticeId(m)] = 0
    /\ src = "ready"
    /\ \E r \in Received("src", NoticeId(m), 1) : r.code = "delivered"

\* A failure is told as long as there is someone to tell.
FailureIsTold == \A m \in Msgs : Untold(m) ~> ~Untold(m)

=============================================================================
