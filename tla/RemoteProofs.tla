---------------------------- MODULE RemoteProofs ----------------------------
(***************************************************************************)
(* Invariants of Remote, for every number of messages, keys, launches and  *)
(* crashes and for every lifetime, retention and capacity.                 *)
(*                                                                         *)
(* The argument uses three facts about the steps of the two daemons: what  *)
(* a locked registry section does to receipts and arrivals (StoredFacts),  *)
(* what a submission does to the journal (AcceptFacts) and what the worker *)
(* does to it (SaveFacts).  The mailboxes and the notices come in with the *)
(* last part: what an identity's receipt is worth depends on its expiry,   *)
(* and a notice's is settled only once its message has failed.             *)
(***************************************************************************)
EXTENDS Remote, FiniteSetTheorems, WellFoundedInduction, TLAPS

Item ==
    [state : Kept \cup {"none", "gone"}, key : Keys \cup {"none"},
     to : Incarnations, expires : Nat, attempts : 0 .. 2, changed : Times]

\* The types the proofs need.
Types ==
    /\ now \in Times
    /\ requests \subseteq Requests
    /\ items \in [Msgs -> Item]
    /\ drain \in [at : {"idle", "posted", "answered", "notices", "deliver"},
                  msg : 0 .. MaxMsgs, answer : Codes \cup {"none"}]
    /\ drain.at \in {"posted", "answered"} => drain.msg \in Msgs
    /\ late \subseteq Msgs
    /\ dst \in Incarnations
    /\ receipts \in [Ids -> Nat]
    /\ arrivals \in [Ids -> 0 .. 2]

-----------------------------------------------------------------------------
(* Facts about the steps                                                   *)

LEMMA ConstantTypes ==
    /\ MaxMsgs \in Nat /\ MaxTime \in Nat /\ MaxIncarnation \in Nat
    /\ Lifetime \in Nat /\ Retention \in Nat /\ MaxExpiry \in Nat
    /\ ParentExpiry \in Nat
    /\ 0 < MaxIncarnation
BY RemoteAssumption

LEMMA IdTypes ==
    /\ \A m \in Msgs : m \in Ids /\ NoticeId(m) \in Ids /\ NoticeId(m) \notin Msgs
    /\ \A id \in Ids : id \in Nat /\ (id \notin Msgs => id - MaxMsgs \in Msgs)
BY ConstantTypes DEF Msgs, Ids, NoticeId

LEMMA ExpiresType ==
    ASSUME Types, NEW id \in Ids
    PROVE  Expires(id) \in Nat
<1>1. CASE id \in Msgs
    BY <1>1 DEF Expires, Types, Item
<1>2. CASE id \notin Msgs
    <2> DEFINE m == id - MaxMsgs
    <2>1. m \in Msgs
        BY <1>2, IdTypes
    <2>2. items[m].expires \in Nat /\ items[m].changed \in Nat
        BY <2>1, ConstantTypes DEF Types, Item, Times
    <2> QED
        BY <1>2, <2>1, <2>2, ConstantTypes DEF Expires, NoticeExpiry, Least
<1> QED
    BY <1>1, <1>2

\* Maintenance of a registry only drops receipts that are over.
LEMMA MaintainedFacts ==
    ASSUME Types, NEW h
    PROVE  /\ MaintainedReceipts(h) \in [Ids -> Nat]
           /\ \A o \in Ids : \/ MaintainedReceipts(h)[o] = receipts[o]
                             \/ MaintainedReceipts(h)[o] = 0 /\ receipts[o] <= now
BY DEF MaintainedReceipts, Types

\* What an answer of receive_admitted leaves behind: it stores the message only
\* while no receipt counts and the message has not expired, it says "delivered"
\* only of a message that is or was stored, and it drops no receipt but those
\* that are over or evicted.
ReceivedRight(r, id) ==
    /\ r.code \in Codes
    /\ r.receipts \in [Ids -> Nat]
    /\ \A o \in Ids : o # id =>
        \/ r.receipts[o] = receipts[o]
        \/ r.receipts[o] = 0 /\ (receipts[o] <= now \/ o \in r.victims)
    /\ \/ /\ r.stored = TRUE /\ r.code = "delivered"
          /\ receipts[id] <= now /\ Expires(id) > now
          /\ r.receipts[id] = Expires(id) + Retention
       \/ /\ r.stored = FALSE
          /\ r.code = "delivered" => receipts[id] > now
          /\ \/ r.receipts[id] = receipts[id]
             \/ r.receipts[id] = 0 /\ receipts[id] <= now

LEMMA ReceivedFacts ==
    ASSUME Types, NEW h, NEW id \in Ids, NEW to, NEW r \in Received(h, id, to)
    PROVE  ReceivedRight(r, id)
<1>t. /\ now \in Nat /\ receipts \in [Ids -> Nat] /\ receipts[id] \in Nat
      /\ Expires(id) \in Nat /\ Retention \in Nat
    BY ExpiresType, ConstantTypes DEF Types, Times
<1> DEFINE box == MaintainedBox(h)
           recs == MaintainedReceipts(h)
           victims == Victims(h, box, recs)
<1>m. /\ recs \in [Ids -> Nat]
      /\ \A o \in Ids : recs[o] = receipts[o] \/ (recs[o] = 0 /\ receipts[o] <= now)
    BY MaintainedFacts
<1>1. CASE receipts[id] > now
    <2>1. r = [code |-> "delivered", inbox |-> inbox, receipts |-> receipts,
               stored |-> FALSE, victims |-> {}]
        BY <1>1, <1>t DEF Received
    <2> QED
        BY <1>1, <1>t, <2>1 DEF ReceivedRight, Codes
<1>2. CASE ~(receipts[id] > now) /\ Expires(id) <= now
    <2>1. r = [code |-> "refused", inbox |-> inbox, receipts |-> receipts,
               stored |-> FALSE, victims |-> {}]
        BY <1>2, <1>t DEF Received
    <2> QED
        BY <1>2, <1>t, <2>1 DEF ReceivedRight, Codes
<1>3. CASE ~(receipts[id] > now) /\ ~(Expires(id) <= now)
    <2> DEFINE answer(code) == [code |-> code, inbox |-> box, receipts |-> recs,
                                stored |-> FALSE, victims |-> {}]
               store(V) == [code |-> "delivered",
                            inbox |-> [box EXCEPT ![id] = [state |-> "unread", at |-> 0]],
                            receipts |-> [o \in Ids |->
                               IF o = id THEN ReceiptExpiry(Expires(id))
                               ELSE IF o \in V THEN 0 ELSE recs[o]],
                            stored |-> TRUE, victims |-> V]
    <2>1. \/ \E code \in {"replaced", "refused", "unavailable"} : r = answer(code)
          \/ \E V \in victims : r = store(V)
        BY <1>3, <1>t DEF Received
    <2>2. ASSUME NEW code \in {"replaced", "refused", "unavailable"}, r = answer(code)
          PROVE  ReceivedRight(r, id)
        BY <2>2, <1>m, <1>t DEF ReceivedRight, Codes
    <2>3. ASSUME NEW V \in victims, r = store(V)
          PROVE  ReceivedRight(r, id)
        BY <2>3, <1>3, <1>m, <1>t DEF ReceivedRight, Codes, ReceiptExpiry
    <2> QED
        BY <2>1, <2>2, <2>3
<1> QED
    BY <1>1, <1>2, <1>3

\* The same about the registry, after the step.
RegistryStep(r, id) ==
    /\ receipts' \in [Ids -> Nat] /\ arrivals' \in [Ids -> 0 .. 2]
    /\ evicted \subseteq evicted'
    /\ \A o \in Ids : o # id =>
        /\ arrivals'[o] = arrivals[o]
        /\ \/ receipts'[o] = receipts[o]
           \/ receipts'[o] = 0 /\ (receipts[o] <= now \/ o \in evicted')
    /\ \/ /\ arrivals'[id] > 0 /\ (arrivals[id] = 0 => arrivals'[id] = 1)
          /\ r.code = "delivered"
          /\ receipts[id] <= now /\ Expires(id) > now
          /\ receipts'[id] = Expires(id) + Retention
       \/ /\ arrivals'[id] = arrivals[id]
          /\ r.code = "delivered" => receipts[id] > now
          /\ \/ receipts'[id] = receipts[id]
             \/ receipts'[id] = 0 /\ receipts[id] <= now

LEMMA StoredFacts ==
    ASSUME Types, NEW h, NEW id \in Ids, NEW to, NEW r \in Received(h, id, to),
           Stored(r, id)
    PROVE  RegistryStep(r, id) /\ r.code \in Codes
<1>1. ReceivedRight(r, id)
    BY ReceivedFacts
<1>2. arrivals \in [Ids -> 0 .. 2] /\ arrivals[id] \in 0 .. 2
    BY DEF Types
<1>3. CASE r.stored = TRUE
    <2>1. arrivals' = [arrivals EXCEPT ![id] = Least(2, @ + 1)]
        BY <1>3 DEF Stored
    <2>2. Least(2, arrivals[id] + 1) \in 1 .. 2 /\ (arrivals[id] = 0 => Least(2, arrivals[id] + 1) = 1)
        BY <1>2 DEF Least
    <2>3. arrivals' \in [Ids -> 0 .. 2] /\ arrivals'[id] = Least(2, arrivals[id] + 1)
          /\ \A o \in Ids : o # id => arrivals'[o] = arrivals[o]
        BY <1>2, <2>1, <2>2
    <2> QED
        BY <1>1, <1>3, <2>2, <2>3 DEF Stored, ReceivedRight, RegistryStep
<1>4. CASE r.stored = FALSE
    <2>1. arrivals' = arrivals
        BY <1>2, <1>4 DEF Stored
    <2> QED
        BY <1>1, <1>2, <1>4, <2>1 DEF Stored, ReceivedRight, RegistryStep
<1> QED
    BY <1>1, <1>3, <1>4 DEF ReceivedRight

-----------------------------------------------------------------------------
(* Facts about the journal                                                 *)

\* An entry is as it was, or was dropped by compact.
Aged(m) ==
    \/ items'[m] = items[m]
    \/ items[m].state \in Kept /\ items'[m] = [items[m] EXCEPT !.state = "gone"]

LEMMA CompactItemsFacts ==
    ASSUME NEW I \in [Msgs -> Item]
    PROVE  /\ CompactItems(I) \in [Msgs -> Item]
           /\ \A m \in Msgs :
                \/ CompactItems(I)[m] = I[m]
                \/ /\ I[m].state \in Kept
                   /\ CompactItems(I)[m] = [I[m] EXCEPT !.state = "gone"]
BY DEF CompactItems, Item, Kept

\* A submission takes an unused identity and leaves the others to age.
JournalAccepts(r) ==
    /\ items' \in [Msgs -> Item]
    /\ \E m \in Msgs :
        /\ items[m].state = "none"
        /\ items'[m].state = "queued" /\ items'[m].key = r.key
        /\ items'[m].attempts = 0
        /\ \A o \in Msgs : o # m => Aged(o)

LEMMA AcceptFacts ==
    ASSUME Types, NEW r \in requests, Accept(r)
    PROVE  JournalAccepts(r)
<1> DEFINE I == CompactItems(items)
           x == [state |-> "queued", key |-> r.key, to |-> r.to,
                 expires |-> now + Lifetime, attempts |-> 0, changed |-> now]
<1>1. PICK m \in Msgs : items[m].state = "none" /\ items' = [I EXCEPT ![m] = x]
    BY DEF Accept
<1>2. /\ x \in Item
      /\ x.state = "queued" /\ x.key = r.key /\ x.attempts = 0
    <2>1. r.key \in Keys /\ r.to \in Incarnations /\ now \in Times /\ now + Lifetime \in Nat
        BY ConstantTypes DEF Types, Requests, Times
    <2> QED
        BY <2>1 DEF Item, Kept
<1>3. /\ I \in [Msgs -> Item]
      /\ \A o \in Msgs : \/ I[o] = items[o]
                         \/ /\ items[o].state \in Kept
                            /\ I[o] = [items[o] EXCEPT !.state = "gone"]
    BY CompactItemsFacts DEF Types
<1> HIDE DEF I, x
<1>4. items' \in [Msgs -> Item] /\ items'[m] = x /\ \A o \in Msgs : o # m => items'[o] = I[o]
    BY <1>1, <1>2, <1>3
<1> QED
    BY <1>1, <1>2, <1>3, <1>4 DEF JournalAccepts, Aged

\* The worker's save is the outcome of one attempt, and lets the others age.
JournalSaves ==
    /\ items' \in [Msgs -> Item]
    /\ \A m \in Msgs :
        \/ ~(m = drain.msg /\ items[m].state = "queued") /\ Aged(m)
        \/ /\ m = drain.msg /\ items[m].state = "queued"
           /\ \/ items'[m] = Attempted(items[m], drain.answer)
              \/ items'[m] = [Attempted(items[m], drain.answer) EXCEPT !.state = "gone"]

LEMMA AttemptedFacts ==
    ASSUME Types, NEW x \in Item, NEW answer
    PROVE  /\ Attempted(x, answer) \in Item
           /\ Attempted(x, answer).key = x.key
           /\ Attempted(x, answer).expires = x.expires
           /\ Attempted(x, answer).attempts > 0
           /\ Attempted(x, answer).state \in Kept
           /\ Attempted(x, answer).state = "delivered" => answer = "delivered"
           /\ Attempted(x, answer).state = "rejected" =>
                x.attempts = 0 /\ answer \notin {"delivered", "unavailable"}
<1> DEFINE n == Least(2, x.attempts + 1)
<1>1. x.attempts \in 0 .. 2 /\ n \in 1 .. 2 /\ (n > 1 \/ x.attempts = 0)
    BY DEF Item, Least
<1> DEFINE state == CASE answer = "delivered" -> "delivered"
                      [] answer = "expired" -> "delivery-unknown"
                      [] answer = "unavailable" -> "queued"
                      [] OTHER -> IF n > 1 THEN "delivery-unknown" ELSE "rejected"
<1>2. /\ state \in Kept
      /\ state = "delivered" => answer = "delivered"
      /\ state = "rejected" => ~(n > 1) /\ answer \notin {"delivered", "unavailable"}
    BY DEF Kept, Terminal, Failed
<1>3. Attempted(x, answer) =
        [x EXCEPT !.attempts = n, !.state = state,
                  !.changed = IF state = "queued" THEN @ ELSE now]
    BY DEF Attempted
<1> HIDE DEF n, state
<1> DEFINE c == IF state = "queued" THEN x.changed ELSE now
<1>4. c \in Times
    BY DEF Types, Item
<1>5. Attempted(x, answer) =
        [state |-> state, key |-> x.key, to |-> x.to, expires |-> x.expires,
         attempts |-> n, changed |-> c]
    BY <1>3 DEF Item
<1>6. /\ x.key \in Keys \cup {"none"} /\ x.to \in Incarnations /\ x.expires \in Nat
      /\ n \in 0 .. 2 /\ n > 0
    BY <1>1 DEF Item
<1> HIDE DEF c
<1>7. Attempted(x, answer) \in Item
    BY <1>2, <1>4, <1>5, <1>6 DEF Item
<1> QED
    BY <1>1, <1>2, <1>5, <1>6, <1>7

LEMMA SaveFacts ==
    ASSUME Types, DrainSave
    PROVE  JournalSaves
<1> DEFINE d == drain.msg
           done == [items EXCEPT ![d] = Attempted(@, drain.answer)]
<1>t. items \in [Msgs -> Item]
    BY DEF Types
<1>1. CASE items[d].state # "queued"
    BY <1>1, <1>t DEF DrainSave, JournalSaves, Aged, journal
<1>2. CASE items[d].state = "queued" /\ d \in Msgs
    <2>1. items' = CompactItems(done)
        BY <1>2 DEF DrainSave
    <2>2. Attempted(items[d], drain.answer) \in Item
        BY <1>2, <1>t, AttemptedFacts
    <2>2a. Attempted(items[d], drain.answer).state \in Kept
        BY <1>2, <1>t, AttemptedFacts
    <2>3. /\ done \in [Msgs -> Item]
          /\ done[d] = Attempted(items[d], drain.answer)
          /\ \A m \in Msgs : m # d => done[m] = items[m]
        BY <1>2, <1>t, <2>2
    <2> HIDE DEF done
    <2>4. /\ items' \in [Msgs -> Item]
          /\ \A m \in Msgs : \/ items'[m] = done[m]
                             \/ /\ done[m].state \in Kept
                                /\ items'[m] = [done[m] EXCEPT !.state = "gone"]
        BY <2>1, <2>3, CompactItemsFacts
    <2> QED
        BY <1>2, <2>3, <2>4 DEF JournalSaves, Aged
<1>3. CASE items[d].state = "queued" /\ d \notin Msgs
    <2>1. done = items
        BY <1>3, <1>t
    <2>2. items' = CompactItems(items)
        BY <1>3, <2>1 DEF DrainSave
    <2> QED
        BY <1>3, <2>2, <1>t, CompactItemsFacts DEF JournalSaves, Aged
<1> QED
    BY <1>1, <1>2, <1>3

-----------------------------------------------------------------------------
(* Types                                                                   *)

LEMMA TypesInit == Init => Types
BY ConstantTypes, IdTypes
   DEF Init, Types, Times, Item, NoItem, Idle, Incarnations, Codes, Kept, Requests

LEMMA DiedTypes ==
    ASSUME Types, Died
    PROVE  /\ now' = now /\ requests' = {} /\ drain' = Idle /\ late' \subseteq Msgs
           /\ dst' = dst /\ receipts' = receipts /\ arrivals' = arrivals
BY DEF Types, Died, registries

LEMMA TypesStep == Types /\ [Next]_vars => Types'
<1> SUFFICES ASSUME Types, [Next]_vars
             PROVE  Types'
    OBVIOUS
<1> USE ConstantTypes
<1>1. ASSUME NEW k \in Keys, Begin(k)
      PROVE  Types'
    BY <1>1 DEF Types, Begin, journal, registries, Requests, Incarnations
<1>2. ASSUME NEW k \in Keys, Replay(k)
      PROVE  Types'
    BY <1>2 DEF Types, Replay, journal, registries
<1>3. ASSUME NEW r \in requests, Commit(r)
      PROVE  Types'
    <2>1. CASE Accept(r)
        <3>1. items' \in [Msgs -> Item]
            BY <2>1, AcceptFacts DEF JournalAccepts
        <3> QED
            BY <1>3, <3>1 DEF Types, Commit, registries
    <2>2. CASE UNCHANGED journal
        BY <1>3, <2>2 DEF Types, Commit, journal, registries
    <2> QED
        BY <1>3, <2>1, <2>2 DEF Commit, journal
<1>4. ASSUME NEW r \in requests, CrashInCommit(r)
      PROVE  Types'
    <2>1. items' \in [Msgs -> Item]
        BY <1>4, AcceptFacts DEF JournalAccepts, CrashInCommit
    <2> QED
        BY <1>4, <2>1, DiedTypes DEF Types, CrashInCommit, Idle, Codes
<1>5. ASSUME NEW m \in Msgs, DrainPick(m)
      PROVE  Types'
    BY <1>5 DEF Types, DrainPick, journal, registries, Msgs, Codes
<1>6. ASSUME NEW m \in Msgs, LateArrives(m)
      PROVE  Types'
    <2>1. PICK r \in Received("dst", m, items[m].to) : Stored(r, m)
        BY <1>6 DEF LateArrives
    <2>2. RegistryStep(r, m)
        BY <2>1, StoredFacts, IdTypes
    <2> QED
        BY <1>6, <2>2 DEF Types, LateArrives, journal, RegistryStep
<1>7. CASE DrainNone
    BY <1>7 DEF Types, DrainNone, journal, registries
<1>8. CASE PostArrives
    <2>1. drain.msg \in Msgs /\ drain.msg \in Ids
        BY <1>8, IdTypes DEF Types, PostArrives
    <2>2. PICK r \in Received("dst", drain.msg, items[drain.msg].to) :
            /\ Stored(r, drain.msg)
            /\ \E code \in {r.code, "unavailable"} :
                drain' = [drain EXCEPT !.at = "answered", !.answer = code]
        BY <1>8 DEF PostArrives
    <2>3. RegistryStep(r, drain.msg) /\ r.code \in Codes
        BY <2>1, <2>2, StoredFacts
    <2>4. \E code \in Codes : drain' = [drain EXCEPT !.at = "answered", !.answer = code]
        BY <2>2, <2>3 DEF Codes
    <2> QED
        BY <1>8, <2>1, <2>3, <2>4 DEF Types, PostArrives, journal, RegistryStep
<1>9. CASE PostFails
    BY <1>9 DEF Types, PostFails, journal, registries, Codes
<1>10. CASE DrainSave
    <2>1. items' \in [Msgs -> Item]
        BY <1>10, SaveFacts DEF JournalSaves
    <2> QED
        BY <1>10, <2>1 DEF Types, DrainSave, registries, Idle, Codes
<1>11. CASE Refresh
    BY <1>11 DEF Types, Refresh, journal, registries
<1>12. CASE Deliver
    <2>1. /\ UNCHANGED <<now, requests, items, late, dst>>
          /\ drain' \in {Idle, drain}
        BY <1>12 DEF Deliver, journal, NoticeDone, NoticeLater
    <2>2. receipts' \in [Ids -> Nat] /\ arrivals' \in [Ids -> 0 .. 2]
        <3>1. CASE UNCHANGED registries
            BY <3>1 DEF registries, Types
        <3>2. ASSUME NEW m \in Msgs, NEW r \in Received("src", NoticeId(m), 1),
                     Stored(r, NoticeId(m))
              PROVE  receipts' \in [Ids -> Nat] /\ arrivals' \in [Ids -> 0 .. 2]
            BY <3>2, StoredFacts, IdTypes DEF RegistryStep
        <3> QED
            BY <1>12, <3>1, <3>2 DEF Deliver, registries
    <2> QED
        BY <2>1, <2>2 DEF Types, Idle, Codes
<1>13. CASE Crash
    BY <1>13, DiedTypes DEF Types, Crash, journal, Idle, Codes
<1>14. ASSUME NEW id \in Ids, Ack(id)
       PROVE  Types'
    <2>1. receipts' = MaintainedReceipts(Host(id))
        BY <1>14 DEF Ack
    <2>2. receipts' \in [Ids -> Nat]
        BY <2>1, MaintainedFacts
    <2> QED
        BY <1>14, <2>2 DEF Types, Ack, journal
<1>15. CASE SrcChanges
    BY <1>15 DEF Types, SrcChanges, journal, registries
<1>16. CASE DstReplaced
    BY <1>16 DEF Types, DstReplaced, journal, registries, Incarnations
<1>17. CASE Tick
    BY <1>17 DEF Types, Tick, journal, registries, Times
<1>18. CASE UNCHANGED vars
    BY <1>18 DEF Types, vars
<1>19. CASE DrainFails
    BY <1>19 DEF Types, DrainFails, journal, registries, Idle, Codes
<1> QED
    BY <1>1, <1>2, <1>3, <1>4, <1>5, <1>6, <1>7, <1>8, <1>9, <1>10, <1>11, <1>12,
       <1>13, <1>14, <1>15, <1>16, <1>17, <1>18, <1>19 DEF Next, Worker

\* The types every theorem here starts from.
LEMMA RemoteTypes == Spec => []Types
BY TypesInit, TypesStep, PTL DEF Spec

-----------------------------------------------------------------------------
(* What a step does to the journal                                         *)

\* The journal changes by a submission whose key it does not hold, or by the
\* worker's save.
JournalEffect ==
    \/ items' = items
    \/ \E r \in requests : Find(r.key) = {} /\ JournalAccepts(r)
    \/ DrainSave /\ JournalSaves

LEMMA JournalEffects ==
    ASSUME Types, [Next]_vars
    PROVE  /\ JournalEffect
           /\ parent' = parent \/ parent' = "replied"
           /\ now' >= now
<1>t. now \in Int
    BY ConstantTypes DEF Types, Times
<1>1. ASSUME NEW r \in requests, Commit(r) \/ CrashInCommit(r)
      PROVE  JournalEffect /\ now' = now
    <2>0. now' = now
        BY <1>1 DEF Commit, CrashInCommit, Died
    <2>1. CASE Accept(r) /\ Admissible(r)
        BY <2>0, <2>1, AcceptFacts DEF JournalEffect, Admissible
    <2>2. CASE UNCHANGED journal
        BY <2>0, <2>2 DEF JournalEffect, journal
    <2> QED
        BY <1>1, <2>1, <2>2 DEF Commit, CrashInCommit, journal
<1>2. ASSUME DrainSave
      PROVE  JournalEffect /\ now' = now
    <2>1. now' = now
        BY <1>2 DEF DrainSave
    <2> QED
        BY <1>2, <2>1, SaveFacts DEF JournalEffect
<1>3. ASSUME NEW m \in Msgs, DrainPick(m) \/ LateArrives(m)
      PROVE  items' = items /\ now' = now
    BY <1>3 DEF DrainPick, LateArrives, journal
<1>4. ASSUME NEW k \in Keys, Begin(k) \/ Replay(k)
      PROVE  items' = items /\ now' = now
    BY <1>4 DEF Begin, Replay, journal
<1>5. ASSUME DrainNone \/ PostArrives \/ PostFails \/ Refresh \/ Deliver \/ DrainFails
      PROVE  items' = items /\ now' = now
    BY <1>5 DEF DrainNone, PostArrives, PostFails, Refresh, Deliver, DrainFails, journal
<1>6. ASSUME \/ Crash \/ SrcChanges \/ DstReplaced \/ UNCHANGED vars
             \/ \E id \in Ids : Ack(id)
      PROVE  items' = items /\ now' = now
    BY <1>6 DEF Crash, Died, SrcChanges, DstReplaced, Ack, vars, journal
<1>7. ASSUME Tick
      PROVE  items' = items /\ now' = now + 1
    BY <1>7 DEF Tick, journal
<1>8. JournalEffect /\ (now' = now \/ now' = now + 1)
    BY <1>1, <1>2, <1>3, <1>4, <1>5, <1>6, <1>7 DEF Next, Worker, JournalEffect, DrainSave
<1>9. parent' = parent \/ parent' = "replied"
    BY DEF Next, Begin, Replay, Commit, CrashInCommit, DrainPick, LateArrives, Worker,
       DrainNone, PostArrives, PostFails, DrainSave, DrainFails, Refresh, Deliver, Crash, Ack,
       SrcChanges, DstReplaced, Tick, vars, Settle, Recovered
<1> QED
    BY <1>t, <1>8, <1>9

LEMMA AgedItem ==
    ASSUME Types, NEW m \in Msgs, Aged(m)
    PROVE  /\ items'[m].key = items[m].key
           /\ items'[m].expires = items[m].expires
           /\ items'[m].attempts = items[m].attempts
           /\ items'[m].state \in Kept \cup {"none"} => items'[m] = items[m]
           /\ items'[m].state = items[m].state \/
                (items'[m].state = "gone" /\ items[m].state \in Kept)
<1>1. items[m] \in Item
    BY DEF Types
<1>2. CASE items'[m] = items[m]
    BY <1>2
<1>3. CASE items[m].state \in Kept /\ items'[m] = [items[m] EXCEPT !.state = "gone"]
    BY <1>1, <1>3 DEF Item, Kept, Terminal, Failed
<1> QED
    BY <1>2, <1>3 DEF Aged

\* The save of the worker changes neither key nor expiry of an entry, and what
\* it keeps was kept before.
LEMMA SavedItem ==
    ASSUME Types, JournalSaves, NEW m \in Msgs
    PROVE  /\ items'[m].key = items[m].key
           /\ items'[m].expires = items[m].expires
           /\ items'[m].state \in Kept => items[m].state \in Kept
           /\ items'[m].state # "none" <=> items[m].state # "none"
<1>t. items[m] \in Item
    BY DEF Types
<1>1. CASE Aged(m)
    BY <1>1, <1>t, AgedItem DEF Item, Kept, Terminal, Failed
<1>2. CASE /\ m = drain.msg /\ items[m].state = "queued"
           /\ \/ items'[m] = Attempted(items[m], drain.answer)
              \/ items'[m] = [Attempted(items[m], drain.answer) EXCEPT !.state = "gone"]
    <2> DEFINE y == Attempted(items[m], drain.answer)
    <2>1. /\ y \in Item /\ y.key = items[m].key /\ y.expires = items[m].expires
          /\ y.state \in Kept
        BY <1>t, AttemptedFacts
    <2> HIDE DEF y
    <2>2. items'[m] = y \/ items'[m] = [y EXCEPT !.state = "gone"]
        BY <1>2 DEF y
    <2> QED
        BY <1>2, <2>1, <2>2 DEF Item, Kept, Terminal, Failed
<1> QED
    BY <1>1, <1>2 DEF JournalSaves

-----------------------------------------------------------------------------
(* Keys                                                                    *)

LEMMA KeyStep ==
    Types /\ KeyNamesOneMessage /\ [Next]_vars => KeyNamesOneMessage'
<1> SUFFICES ASSUME Types, KeyNamesOneMessage, [Next]_vars
             PROVE  KeyNamesOneMessage'
    OBVIOUS
<1>1. JournalEffect
    BY JournalEffects
<1>2. CASE items' = items
    BY <1>2 DEF KeyNamesOneMessage
<1>3. ASSUME NEW r \in requests, Find(r.key) = {}, JournalAccepts(r)
      PROVE  KeyNamesOneMessage'
    <2>1. PICK n \in Msgs :
            /\ items'[n].state = "queued" /\ items'[n].key = r.key
            /\ \A o \in Msgs : o # n => Aged(o)
        BY <1>3 DEF JournalAccepts
    <2>2. \A o \in Msgs : o # n /\ items'[o].state \in Kept =>
            items'[o] = items[o] /\ items[o].state \in Kept
        BY <2>1, AgedItem
    <2>3. \A o \in Msgs : items[o].state \in Kept => items[o].key # r.key
        BY <1>3 DEF Find
    <2> QED
        BY <2>1, <2>2, <2>3 DEF KeyNamesOneMessage
<1>4. CASE DrainSave /\ JournalSaves
    <2>1. \A m \in Msgs : /\ items'[m].key = items[m].key
                          /\ items'[m].state \in Kept => items[m].state \in Kept
        BY <1>4, SavedItem
    <2> QED
        BY <2>1 DEF KeyNamesOneMessage
<1> QED
    BY <1>1, <1>2, <1>3, <1>4 DEF JournalEffect

\* A key names one message as long as the journal remembers it, however many
\* clients race between the replay check and the commit (remote.rs:1158).
THEOREM RemoteKeys == Spec => []KeyNamesOneMessage
<1>1. Init => KeyNamesOneMessage
    BY DEF Init, KeyNamesOneMessage, NoItem, Kept, Terminal, Failed
<1> QED
    BY <1>1, KeyStep, RemoteTypes, PTL DEF Spec

-----------------------------------------------------------------------------
(* Replies                                                                 *)

LEMMA ReplyStep ==
    Types /\ ReplySettles /\ [Next]_vars => ReplySettles'
<1> SUFFICES ASSUME Types, ReplySettles, [Next]_vars, NEW m \in Msgs,
                    items'[m].state \in Terminal, items'[m].key \in Replies,
                    ~(ParentExpiry <= now')
             PROVE  parent' = "replied"
    BY DEF ReplySettles, ParentGone
<1>1. JournalEffect /\ (parent' = parent \/ parent' = "replied") /\ now' >= now
    BY JournalEffects
<1>2. ~ParentGone
    BY <1>1, ConstantTypes, TypesStep DEF ParentGone, Types, Times
<1>3. CASE items[m].state \in Terminal /\ items[m].key \in Replies
    BY <1>1, <1>2, <1>3 DEF ReplySettles
<1>4. CASE items' = items
    BY <1>3, <1>4
<1>5. ASSUME NEW r \in requests, JournalAccepts(r)
      PROVE  items[m].state \in Terminal /\ items[m].key \in Replies
    <2>1. Terminal \subseteq Kept /\ "queued" \notin Terminal
        BY DEF Terminal, Failed, Kept
    <2> QED
        BY <1>5, <2>1, AgedItem DEF JournalAccepts
<1>6. CASE DrainSave /\ JournalSaves
    <2>1. CASE Aged(m)
        BY <1>3, <2>1, AgedItem DEF Kept
    <2>2. CASE items[m].state = "queued"
        <3>1. items[m].key \in Replies
            BY <1>6, SavedItem
        <3> QED
            BY <1>2, <1>6, <2>2, <3>1 DEF DrainSave, Recovered
    <2> QED
        BY <1>6, <2>1, <2>2 DEF JournalSaves
<1> QED
    BY <1>1, <1>3, <1>4, <1>5, <1>6 DEF JournalEffect

\* A reply that left the outbox has settled the message it answers, also when
\* the daemon died between the two files of the submission (remote.rs:1247).
THEOREM RemoteReplies == Spec => []ReplySettles
<1>1. Init => ReplySettles
    BY DEF Init, ReplySettles, NoItem, Terminal, Failed
<1> QED
    BY <1>1, ReplyStep, RemoteTypes, PTL DEF Spec

-----------------------------------------------------------------------------
(* Outcomes                                                                *)

\* A message in the worker's hands is not terminal, and the relay holds only
\* accepted messages.
InFlight ==
    /\ drain.at \in {"posted", "answered"} => items[drain.msg].state \in {"queued", "gone"}
    /\ \A m \in late : items[m].state # "none"

\* The answer in the worker's hands leaves open, or says, that m was stored.
MayBeStored(m) ==
    /\ drain.at = "answered" /\ drain.msg = m
    /\ drain.answer \in {"delivered", "unavailable"}

\* As far as the source daemon knows, no copy of m was ever stored.
Clean(m) ==
    \/ items[m].state \in {"none", "rejected"}
    \/ items[m].state = "queued" /\ items[m].attempts = 0 /\ ~MayBeStored(m)

\* "delivered" is true wherever it is written, and what the daemon believes
\* clean is clean.
Truth(m) ==
    /\ items[m].state = "delivered" => arrivals[m] > 0
    /\ receipts[m] > 0 => arrivals[m] > 0
    /\ drain.at = "answered" /\ drain.msg = m /\ drain.answer = "delivered" =>
        arrivals[m] > 0
    /\ Clean(m) /\ m \notin lost => arrivals[m] = 0 /\ m \notin late

OutcomeInv == InFlight /\ \A m \in Msgs : Truth(m)

LEMMA OutcomeInit == Init => OutcomeInv
<1> SUFFICES ASSUME Init
             PROVE  OutcomeInv
    OBVIOUS
<1>1. InFlight
    BY DEF Init, InFlight, Idle
<1>2. ASSUME NEW m \in Msgs
      PROVE  Truth(m)
    BY IdTypes DEF Init, Truth, Clean, MayBeStored, NoItem, Idle
<1> QED
    BY <1>1, <1>2 DEF OutcomeInv

\* A step that changes none of the variables the invariant speaks of but lets
\* time pass.
LEMMA OutcomeQuiet ==
    ASSUME Types, OutcomeInv, now' \in Int, now' >= now,
           UNCHANGED <<items, drain, late, receipts, arrivals, evicted, lost>>
    PROVE  OutcomeInv'
<1>1. now \in Int
    BY ConstantTypes DEF Types, Times
<1>2. \A m \in Msgs : items[m].expires + Retention \in Int
    BY ConstantTypes DEF Types, Item
<1> QED
    BY <1>1, <1>2 DEF OutcomeInv, InFlight, Truth, Clean, MayBeStored

\* A registry section of either daemon, with what it changes of message m.
LEMMA RegistryTruth ==
    ASSUME Types, OutcomeInv, NEW id \in Ids, NEW r, RegistryStep(r, id), NEW m \in Msgs
    PROVE  /\ receipts'[m] > 0 => arrivals'[m] > 0
           /\ arrivals[m] > 0 => arrivals'[m] > 0
           /\ m # id => arrivals'[m] = arrivals[m]
           /\ m = id /\ r.code = "delivered" => arrivals'[m] > 0
           /\ m = id /\ r.code # "delivered" => arrivals'[m] = arrivals[m]
<1>1. /\ m \in Ids /\ now \in Nat /\ receipts[m] \in Nat /\ arrivals[m] \in 0 .. 2
    BY ConstantTypes, IdTypes DEF Types, Times
<1>2. receipts[m] > 0 => arrivals[m] > 0
    BY DEF OutcomeInv, Truth
<1> QED
    BY <1>1, <1>2 DEF RegistryStep

\* Acceptance, with the worker as it is or stopped by a crash.
LEMMA OutcomeAccept ==
    ASSUME Types, OutcomeInv, NEW r \in requests, JournalAccepts(r),
           UNCHANGED <<now, receipts, arrivals, evicted>>,
           \/ UNCHANGED <<drain, late, lost>>
           \/ Died
    PROVE  OutcomeInv'
<1>1. PICK n \in Msgs :
        /\ items[n].state = "none"
        /\ items'[n].state = "queued" /\ items'[n].attempts = 0
        /\ \A o \in Msgs : o # n => Aged(o)
    BY DEF JournalAccepts
<1>2. \A o \in Msgs : o # n =>
        /\ items'[o].expires = items[o].expires
        /\ items'[o].attempts = items[o].attempts
        /\ \/ items'[o].state = items[o].state
           \/ items'[o].state = "gone" /\ items[o].state # "none"
    BY <1>1, AgedItem DEF Kept, Terminal, Failed
<1>3. InFlight /\ \A m \in Msgs : Truth(m)
    BY DEF OutcomeInv
<1>4. CASE UNCHANGED <<drain, late, lost>>
    <2>1. InFlight'
        <3>1. drain.at \in {"posted", "answered"} =>
                drain.msg \in Msgs /\ drain.msg # n
            BY <1>1, <1>3 DEF InFlight, Types
        <3>2. \A m \in late : m \in Msgs
            BY DEF Types
        <3> QED
            BY <1>1, <1>2, <1>3, <1>4, <3>1, <3>2 DEF InFlight
    <2>2. ASSUME NEW m \in Msgs
          PROVE  Truth(m)'
        <3>1. CASE m = n
            BY <1>1, <1>3, <1>4, <3>1 DEF Truth, Clean, MayBeStored
        <3>2. CASE m # n
            BY <1>2, <1>3, <1>4, <3>2 DEF Truth, Clean, MayBeStored
        <3> QED
            BY <3>1, <3>2
    <2> QED
        BY <2>1, <2>2 DEF OutcomeInv
<1>5. CASE Died
    <2>1. /\ drain' = Idle /\ late \subseteq late' /\ lost \subseteq lost'
          /\ \A m \in late' : m \in late \/ (m = drain.msg /\ drain.at = "posted")
          /\ \A m \in late' : m \in late \/ m \in lost'
          /\ \A m \in Msgs : MayBeStored(m) => m \in lost'
        BY <1>5 DEF Died, MayBeStored
    <2>2. InFlight'
        <3>1. \A m \in late' : m \in Msgs /\ items[m].state # "none"
            BY <1>3, <2>1 DEF InFlight, Types
        <3> QED
            BY <1>1, <1>2, <2>1, <3>1 DEF InFlight, Idle
    <2>3. ASSUME NEW m \in Msgs
          PROVE  Truth(m)'
        <3>1. CASE m = n
            BY <1>1, <1>3, <2>1, <3>1 DEF Truth, Clean, MayBeStored, Idle
        <3>2. CASE m # n
            BY <1>2, <1>3, <2>1, <3>2 DEF Truth, Clean, MayBeStored, Idle
        <3> QED
            BY <3>1, <3>2
    <2> QED
        BY <2>2, <2>3 DEF OutcomeInv
<1> QED
    BY <1>4, <1>5

LEMMA OutcomeCrash ==
    ASSUME Types, OutcomeInv, Crash
    PROVE  OutcomeInv'
<1>1. /\ drain' = Idle /\ late \subseteq late' /\ lost \subseteq lost'
      /\ \A m \in late' : m \in late \/ (m = drain.msg /\ drain.at = "posted")
      /\ \A m \in late' : m \in late \/ m \in lost'
      /\ \A m \in Msgs : MayBeStored(m) => m \in lost'
    BY DEF Crash, Died, MayBeStored
<1>2. UNCHANGED <<items, now, receipts, arrivals, evicted>>
    BY DEF Crash, Died, journal, registries
<1>3. InFlight /\ \A m \in Msgs : Truth(m)
    BY DEF OutcomeInv
<1>4. InFlight'
    BY <1>1, <1>2, <1>3 DEF InFlight, Idle, Types
<1>5. ASSUME NEW m \in Msgs
      PROVE  Truth(m)'
    BY <1>1, <1>2, <1>3 DEF Truth, Clean, MayBeStored, Idle
<1> QED
    BY <1>4, <1>5 DEF OutcomeInv

LEMMA OutcomeSave ==
    ASSUME Types, OutcomeInv, DrainSave
    PROVE  OutcomeInv'
<1> DEFINE d == drain.msg
<1>1. /\ JournalSaves /\ drain.at = "answered" /\ d \in Msgs
      /\ drain' = [Idle EXCEPT !.at = "notices"]
      /\ UNCHANGED <<now, late, receipts, arrivals, evicted, lost>>
    BY SaveFacts DEF DrainSave, registries, Types
<1>2. InFlight /\ \A m \in Msgs : Truth(m)
    BY DEF OutcomeInv
<1>3. InFlight'
    <2>1. \A m \in late : m \in Msgs
        BY DEF Types
    <2> QED
        BY <1>1, <1>2, <2>1, SavedItem DEF InFlight, Idle
<1>5. ASSUME NEW m \in Msgs
      PROVE  Truth(m)'
    <2>1. CASE Aged(m) /\ m # d
        BY <1>1, <1>2, <2>1, AgedItem DEF Truth, Clean, MayBeStored, Idle
    <2>2. CASE Aged(m) /\ m = d /\ items[m].state # "queued"
        <3>1. items[m].state \in {"queued", "gone"}
            BY <1>1, <1>2, <2>2 DEF InFlight
        <3> QED
            BY <1>1, <1>2, <2>2, <3>1, AgedItem DEF Truth, Clean, MayBeStored, Idle
    <2>3. CASE /\ m = d /\ items[m].state = "queued"
               /\ \/ items'[m] = Attempted(items[m], drain.answer)
                  \/ items'[m] = [Attempted(items[m], drain.answer) EXCEPT !.state = "gone"]
        <3> DEFINE y == Attempted(items[m], drain.answer)
        <3>1. /\ y \in Item /\ y.attempts > 0 /\ y.state \in Kept
              /\ y.state = "delivered" => drain.answer = "delivered"
              /\ y.state = "rejected" =>
                    items[m].attempts = 0 /\ drain.answer \notin {"delivered", "unavailable"}
            BY AttemptedFacts DEF Types
        <3> HIDE DEF y
        <3>2. items'[m] = y \/ items'[m] = [y EXCEPT !.state = "gone"]
            BY <2>3 DEF y
        <3>3. \/ items'[m].state = "gone"
              \/ items'[m].state = y.state /\ items'[m].attempts = y.attempts
            BY <3>1, <3>2 DEF Item
        <3> QED
            BY <1>1, <1>2, <2>3, <3>1, <3>3
               DEF Truth, Clean, MayBeStored, Idle, Kept, Terminal, Failed
    <2> QED
        BY <1>1, <2>1, <2>2, <2>3 DEF JournalSaves
<1> QED
    BY <1>3, <1>5 DEF OutcomeInv

\* The three steps that reach a registry, and the acknowledgement.
LEMMA OutcomeRegistry ==
    ASSUME Types, OutcomeInv, UNCHANGED <<items, now, lost>>, NEW id \in Ids, NEW r,
           RegistryStep(r, id), id \in Msgs => items[id].state # "none",
           \/ /\ drain.at = "deliver" /\ id \notin Msgs /\ UNCHANGED late
              /\ drain' \in {Idle, drain}
           \/ id \in late /\ UNCHANGED <<late, drain>>
           \/ /\ drain.at = "posted" /\ drain.msg = id /\ UNCHANGED late
              /\ \E code \in {r.code, "unavailable"} :
                    drain' = [drain EXCEPT !.at = "answered", !.answer = code]
    PROVE  OutcomeInv'
<1>1. InFlight /\ \A m \in Msgs : Truth(m)
    BY DEF OutcomeInv
<1>t. drain = [at |-> drain.at, msg |-> drain.msg, answer |-> drain.answer]
    BY DEF Types
<1>3. ASSUME NEW m \in Msgs
      PROVE  Truth(m)'
    <2>1. /\ receipts'[m] > 0 => arrivals'[m] > 0
          /\ arrivals[m] > 0 => arrivals'[m] > 0
          /\ m # id => arrivals'[m] = arrivals[m]
          /\ m = id /\ r.code = "delivered" => arrivals'[m] > 0
          /\ m = id /\ r.code # "delivered" => arrivals'[m] = arrivals[m]
        BY RegistryTruth
    <2>2. CASE /\ drain.at = "deliver" /\ id \notin Msgs /\ UNCHANGED late
               /\ drain' \in {Idle, drain}
        <3>1. CASE drain' = drain
            BY <1>1, <2>1, <2>2, <3>1 DEF Truth, Clean, MayBeStored
        <3>2. CASE drain' = Idle
            BY <1>1, <2>1, <2>2, <3>2 DEF Truth, Clean, MayBeStored, Idle
        <3> QED
            BY <2>2, <3>1, <3>2
    <2>3. CASE id \in late /\ UNCHANGED <<late, drain>>
        <3>1. m = id => ~Clean(m) \/ m \in lost
            BY <1>1, <2>3 DEF Truth
        <3> QED
            BY <1>1, <2>1, <2>3, <3>1 DEF Truth, Clean, MayBeStored
    <2>4. ASSUME drain.at = "posted", drain.msg = id, UNCHANGED late,
                 NEW code \in {r.code, "unavailable"},
                 drain' = [drain EXCEPT !.at = "answered", !.answer = code]
          PROVE  Truth(m)'
        <3>1. drain'.at = "answered" /\ drain'.msg = id /\ drain'.answer = code
            BY <1>t, <2>4
        <3>2. m = id => items[m].state \in {"queued", "gone"}
            BY <1>1, <2>4 DEF InFlight
        <3>3. CASE m = id
            BY <1>1, <2>1, <2>4, <3>1, <3>2, <3>3 DEF Truth, Clean, MayBeStored
        <3>4. CASE m # id
            BY <1>1, <2>1, <2>4, <3>1, <3>4 DEF Truth, Clean, MayBeStored
        <3> QED
            BY <3>3, <3>4
    <2> QED
        BY <2>2, <2>3, <2>4
<1>4. InFlight'
    <2>1. CASE drain' = Idle
        BY <1>1, <2>1 DEF InFlight, Idle
    <2>2. CASE UNCHANGED <<late, drain>>
        BY <1>1, <2>2 DEF InFlight
    <2>3. ASSUME drain.at = "posted", drain.msg = id, UNCHANGED late,
                 NEW code \in {r.code, "unavailable"},
                 drain' = [drain EXCEPT !.at = "answered", !.answer = code]
          PROVE  InFlight'
        BY <1>1, <1>t, <2>3 DEF InFlight
    <2> QED
        BY <2>1, <2>2, <2>3
<1> QED
    BY <1>3, <1>4 DEF OutcomeInv

LEMMA OutcomeStep ==
    Types /\ OutcomeInv /\ [Next]_vars => OutcomeInv'
<1> SUFFICES ASSUME Types, OutcomeInv, [Next]_vars
             PROVE  OutcomeInv'
    OBVIOUS
<1>t. /\ now' \in Int /\ now' >= now
      /\ drain = [at |-> drain.at, msg |-> drain.msg, answer |-> drain.answer]
    BY JournalEffects, TypesStep, ConstantTypes DEF Types, Times
<1>1. InFlight /\ \A m \in Msgs : Truth(m)
    BY DEF OutcomeInv
<1>2. ASSUME NEW k \in Keys, Begin(k) \/ Replay(k)
      PROVE  OutcomeInv'
    BY <1>t, <1>2, OutcomeQuiet DEF Begin, Replay, journal, registries
<1>3. ASSUME NEW r \in requests, Commit(r)
      PROVE  OutcomeInv'
    <2>1. UNCHANGED <<now, drain, late, receipts, arrivals, evicted, lost>>
        BY <1>3 DEF Commit, registries
    <2>2. CASE Accept(r)
        BY <2>1, <2>2, AcceptFacts, OutcomeAccept
    <2>3. CASE UNCHANGED journal
        BY <1>t, <2>1, <2>3, OutcomeQuiet DEF journal
    <2> QED
        BY <1>3, <2>2, <2>3 DEF Commit, journal
<1>4. ASSUME NEW r \in requests, CrashInCommit(r)
      PROVE  OutcomeInv'
    <2>1. UNCHANGED <<now, receipts, arrivals, evicted>> /\ Died /\ Accept(r)
        BY <1>4 DEF CrashInCommit, Died, registries
    <2> QED
        BY <2>1, AcceptFacts, OutcomeAccept
<1>5. ASSUME NEW m \in Msgs, DrainPick(m)
      PROVE  OutcomeInv'
    <2>1. /\ UNCHANGED <<items, now, late, receipts, arrivals, evicted, lost>>
          /\ items[m].state = "queued"
          /\ drain'.msg = m
          /\ \/ drain'.at = "posted" /\ drain'.answer = "none"
             \/ drain'.at = "answered" /\ drain'.answer = "expired"
          /\ drain.at = "idle"
        BY <1>5 DEF DrainPick, journal, registries
    <2> QED
        BY <1>1, <2>1 DEF OutcomeInv, InFlight, Truth, Clean, MayBeStored
<1>6. ASSUME NEW m \in Msgs, LateArrives(m)
      PROVE  OutcomeInv'
    <2>1. PICK r \in Received("dst", m, items[m].to) : Stored(r, m)
        BY <1>6 DEF LateArrives
    <2>2. RegistryStep(r, m) /\ m \in Ids
        BY <2>1, StoredFacts, IdTypes
    <2>3. m \in late /\ items[m].state # "none"
        BY <1>1, <1>6 DEF LateArrives, InFlight
    <2>4. UNCHANGED <<items, now, lost, late, drain>>
        BY <1>6 DEF LateArrives, journal
    <2> QED
        BY <2>2, <2>3, <2>4, OutcomeRegistry
<1>7. CASE PostArrives
    <2>1. /\ drain.at = "posted" /\ drain.msg \in Msgs /\ drain.msg \in Ids
          /\ items[drain.msg].state # "none"
        BY <1>1, <1>7, IdTypes DEF Types, PostArrives, InFlight
    <2>2. PICK r \in Received("dst", drain.msg, items[drain.msg].to) :
            /\ Stored(r, drain.msg)
            /\ \E code \in {r.code, "unavailable"} :
                drain' = [drain EXCEPT !.at = "answered", !.answer = code]
        BY <1>7 DEF PostArrives
    <2>3. RegistryStep(r, drain.msg)
        BY <2>1, <2>2, StoredFacts
    <2>4. UNCHANGED <<items, now, lost, late>>
        BY <1>7 DEF PostArrives, journal
    <2> QED
        BY <2>1, <2>2, <2>3, <2>4, OutcomeRegistry
<1>8. CASE PostFails
    <2>1. /\ UNCHANGED <<items, now, receipts, arrivals, evicted, lost>>
          /\ drain.at = "posted" /\ drain.msg \in Msgs
          /\ drain'.at = "answered" /\ drain'.msg = drain.msg
          /\ \/ drain'.answer = "unavailable" /\ late' \in {late, late \cup {drain.msg}}
             \/ drain'.answer = "refused" /\ late' = late
        BY <1>t, <1>8 DEF PostFails, journal, registries, Types
    <2>2. InFlight'
        BY <1>1, <2>1 DEF InFlight
    <2>3. ASSUME NEW m \in Msgs
          PROVE  Truth(m)'
        BY <1>1, <2>1 DEF InFlight, Truth, Clean, MayBeStored
    <2> QED
        BY <2>2, <2>3 DEF OutcomeInv
<1>9. CASE DrainSave
    BY <1>9, OutcomeSave
<1>10. CASE DrainNone \/ Refresh
    <2>1. /\ UNCHANGED <<items, now, late, receipts, arrivals, evicted, lost>>
          /\ drain.at \in {"idle", "notices"} /\ drain'.at \in {"notices", "deliver"}
        BY <1>t, <1>10 DEF DrainNone, Refresh, journal, registries
    <2> QED
        BY <1>1, <2>1 DEF OutcomeInv, InFlight, Truth, Clean, MayBeStored
<1>11. CASE Deliver
    <2>1. /\ drain.at = "deliver" /\ drain' \in {Idle, drain}
          /\ UNCHANGED <<items, now, late, lost>>
        BY <1>11 DEF Deliver, journal, NoticeDone, NoticeLater
    <2>2. CASE UNCHANGED registries
        BY <1>1, <2>1, <2>2
           DEF OutcomeInv, InFlight, Truth, Clean, MayBeStored, Idle, registries
    <2>3. ASSUME NEW m \in Msgs, NEW r \in Received("src", NoticeId(m), 1),
                 Stored(r, NoticeId(m))
          PROVE  OutcomeInv'
        <3>1. NoticeId(m) \in Ids /\ NoticeId(m) \notin Msgs
            BY IdTypes
        <3>2. RegistryStep(r, NoticeId(m))
            BY <2>3, <3>1, StoredFacts
        <3> QED
            BY <2>1, <3>1, <3>2, OutcomeRegistry
    <2> QED
        BY <1>11, <2>2, <2>3 DEF Deliver, registries
<1>12. CASE Crash
    BY <1>12, OutcomeCrash
<1>13. ASSUME NEW id \in Ids, Ack(id)
       PROVE  OutcomeInv'
    <2>1. /\ UNCHANGED <<items, now, drain, late, arrivals, evicted, lost>>
          /\ receipts' = MaintainedReceipts(Host(id))
        BY <1>13 DEF Ack, journal
    <2>2. \A m \in Msgs : receipts'[m] = receipts[m] \/ (receipts'[m] = 0 /\ receipts[m] <= now)
        BY <2>1, MaintainedFacts, IdTypes
    <2>3. ASSUME NEW m \in Msgs
          PROVE  Truth(m)'
        <3>1. items[m].expires + Retention \in Nat /\ now \in Nat
            BY ConstantTypes DEF Types, Item, Times
        <3> QED
            BY <1>1, <2>1, <2>2, <3>1 DEF Truth, Clean, MayBeStored
    <2> QED
        BY <1>1, <2>1, <2>3 DEF OutcomeInv, InFlight
<1>14. CASE SrcChanges \/ DstReplaced \/ Tick \/ UNCHANGED vars
    BY <1>t, <1>14, OutcomeQuiet DEF SrcChanges, DstReplaced, Tick, vars, journal, registries
<1>15. CASE DrainFails
    <2>1. /\ drain' = Idle /\ lost \subseteq lost'
          /\ \A m \in Msgs : MayBeStored(m) => m \in lost'
          /\ UNCHANGED <<items, now, late, receipts, arrivals, evicted>>
        BY <1>15 DEF DrainFails, MayBeStored, journal, registries
    <2>2. InFlight'
        BY <1>1, <2>1 DEF InFlight, Idle
    <2>3. ASSUME NEW m \in Msgs
          PROVE  Truth(m)'
        BY <1>1, <2>1 DEF Truth, Clean, MayBeStored, Idle
    <2> QED
        BY <2>2, <2>3 DEF OutcomeInv
<1> QED
    BY <1>2, <1>3, <1>4, <1>5, <1>6, <1>7, <1>8, <1>9, <1>10, <1>11, <1>12, <1>13,
       <1>14, <1>15 DEF Next, Worker

LEMMA RemoteOutcomeInv == Spec => []OutcomeInv
BY OutcomeInit, OutcomeStep, RemoteTypes, PTL DEF Spec

\* What the journal reports is true: "delivered" was stored on the destination,
\* "rejected" was not and will not be, unless the daemon died after a post or could
\* not save the attempt (drain_with_notice_state, remote.rs:1343).
THEOREM RemoteOutcomes == Spec => []OutcomeIsTrue
<1>1. OutcomeInv => OutcomeIsTrue
    BY DEF OutcomeInv, OutcomeIsTrue, Truth, Clean
<1> QED
    BY <1>1, RemoteOutcomeInv, PTL

-----------------------------------------------------------------------------
(* Filtered sequences                                                      *)

\* A set of numbers that is not empty has a least one.
LEMMA LeastNumber ==
    ASSUME NEW S \in SUBSET Nat, S # {}
    PROVE  \E k \in S : \A j \in S : k <= j
<1>1. PICK k \in S : \A j \in S : <<j, k>> \notin OpToRel(<, Nat)
    BY WFMin, NatLessThanWellFounded, Zenon
<1>2. \A j \in S : ~(j < k)
    BY <1>1, Zenon DEF OpToRel
<1> QED
    BY <1>2

\* Every rank up to the size of a set of positions is the rank of a member.
LEMMA RankOf ==
    ASSUME NEW n \in Nat, NEW K \in SUBSET (1 .. n), NEW j \in 1 .. Cardinality(K)
    PROVE  \E i \in K : Cardinality({k \in K : k < i}) = j - 1
<1>k. \A k \in K : k \in Nat /\ 1 <= k /\ k <= n
    OBVIOUS
<1>1. IsFiniteSet(K) /\ Cardinality(K) \in Nat
    <2>1. IsFiniteSet(1 .. n)
        BY FS_Interval
    <2>2. IsFiniteSet(K)
        BY <2>1, FS_Subset
    <2> QED
        BY <2>2, FS_CardinalityType
<1> DEFINE Below(i) == {k \in K : k < i}
<1>2. \A i \in Nat : IsFiniteSet(Below(i)) /\ Cardinality(Below(i)) \in Nat
    <2> TAKE i \in Nat
    <2>1. IsFiniteSet(Below(i))
        BY <1>1, FS_Subset
    <2> QED
        BY <2>1, FS_CardinalityType
<1>3. \A i, k : k \in Below(i) <=> k \in K /\ k < i
    OBVIOUS
<1>4. Below(n + 1) = K /\ Below(0) = {}
    <2>1. \A k \in K : k < n + 1 /\ ~(k < 0)
        BY <1>k
    <2> HIDE DEF Below
    <2>2. \A k : /\ k \in Below(n + 1) <=> k \in K
                 /\ k \notin Below(0)
        BY <1>3, <2>1
    <2> QED
        BY <2>2, Zenon
<1>5. ASSUME NEW i \in Nat
      PROVE  /\ i \in K => Below(i + 1) = Below(i) \cup {i} /\ i \notin Below(i)
             /\ i \notin K => Below(i + 1) = Below(i)
    <2>1. \A k \in K : k < i + 1 <=> k < i \/ k = i
        BY <1>k
    <2>2. ~(i < i)
        OBVIOUS
    <2> HIDE DEF Below
    <2>3. \A k : /\ i \in K => (k \in Below(i + 1) <=> k \in Below(i) \cup {i})
                 /\ i \notin K => (k \in Below(i + 1) <=> k \in Below(i))
        BY <1>3, <2>1, Zenon
    <2> QED
        BY <1>3, <2>2, <2>3, Zenon
<1> DEFINE R(i) == Cardinality(Below(i))
<1>6. ASSUME NEW i \in Nat
      PROVE  /\ i \in K => R(i + 1) = R(i) + 1
             /\ i \notin K => R(i + 1) = R(i)
    <2>1. IsFiniteSet(Below(i))
        BY <1>2
    <2> HIDE DEF Below
    <2>2. i \notin Below(i) => Cardinality(Below(i) \cup {i}) = Cardinality(Below(i)) + 1
        BY <2>1, FS_AddElement
    <2> QED
        BY <1>5, <2>2
<1>7. R(0) = 0 /\ R(n + 1) = Cardinality(K) /\ \A i \in Nat : R(i) \in Nat
    BY <1>2, <1>4, FS_EmptySet
<1> HIDE DEF Below
<1> HIDE DEF R
<1> DEFINE S == {i \in Nat : j <= R(i)}
<1>8. n + 1 \in S
    BY <1>1, <1>7
<1>9. PICK o \in S : \A p \in S : o <= p
    BY <1>8, LeastNumber
<1>10. o \in Nat /\ j <= R(o) /\ o # 0
    BY <1>1, <1>7, <1>9
<1> DEFINE i == o - 1
<1>11. i \in Nat /\ i \notin S /\ o = i + 1
    BY <1>9, <1>10
<1>12. R(i) < j
    BY <1>1, <1>7, <1>11
<1>13. i \in K /\ R(i) = j - 1
    BY <1>1, <1>6, <1>7, <1>10, <1>11, <1>12
<1> QED
    BY <1>13 DEF R, Below

\* What is filtered is a sequence of the members that pass.
LEMMA FilterType ==
    ASSUME NEW A, NEW ids \in Seq(A), NEW S
    PROVE  Filter(ids, S) \in Seq(A \cap S)
<1> DEFINE K == {i \in DOMAIN ids : ids[i] \in S}
           At(j) == CHOOSE i \in K : Cardinality({k \in K : k < i}) = j - 1
<1>1. Len(ids) \in Nat /\ K \in SUBSET (1 .. Len(ids))
    OBVIOUS
<1>2. Cardinality(K) \in Nat
    <2>1. IsFiniteSet(1 .. Len(ids))
        BY <1>1, FS_Interval
    <2>2. IsFiniteSet(K)
        BY <1>1, <2>1, FS_Subset
    <2> QED
        BY <2>2, FS_CardinalityType
<1>3. ASSUME NEW j \in 1 .. Cardinality(K)
      PROVE  ids[At(j)] \in A \cap S
    <2>1. \E i \in K : Cardinality({k \in K : k < i}) = j - 1
        BY <1>1, RankOf
    <2>2. At(j) \in K
        BY <2>1
    <2> QED
        BY <2>2
<1>4. Filter(ids, S) = [j \in 1 .. Cardinality(K) |-> ids[At(j)]]
    BY DEF Filter
<1> HIDE DEF K, At
<1> QED
    BY <1>2, <1>3, <1>4

-----------------------------------------------------------------------------
(* The mailboxes                                                           *)

Boxes == [Ids -> [state : MailLive \cup MailTerminal \cup {"none"}, at : Times]]

\* The types the theorems on the mailboxes need besides Types.
Shapes ==
    /\ retained \in Seq(Msgs)
    /\ parent \in {"owed", "replied"}
    /\ notices \in [scanned : Nat, last : 0 .. MaxMsgs, pending : Seq(Msgs)]
    /\ src \in {"ready", "down", "replaced"}
    /\ inbox \in Boxes
    /\ evicted \subseteq Ids
    /\ lost \subseteq Msgs
    /\ crashes \in 0 .. MaxCrashes

\* What a section makes of mail it does not store: mail comes from nowhere, and
\* live mail keeps its receipt unless the receipt was over before the mail was.
Carried(box, recs, o) ==
    /\ box[o].state # "none" => inbox[o].state # "none"
    /\ box[o].state \in MailLive =>
        /\ inbox[o].state \in MailLive
        /\ recs[o] = receipts[o] \/ (receipts[o] <= now /\ Expires(o) > now)

LEMMA RetiredFacts ==
    ASSUME Types, inbox \in Boxes, NEW h, NEW o \in Ids
    PROVE  /\ Retired(h, o) \in [state : MailLive \cup MailTerminal \cup {"none"}, at : Times]
           /\ Retired(h, o).state # "none" => inbox[o].state # "none"
           /\ Retired(h, o).state \in MailLive =>
                inbox[o].state \in MailLive /\ (o \in On(h) => Expires(o) > now)
<1>1. inbox[o] \in [state : MailLive \cup MailTerminal \cup {"none"}, at : Times]
    BY DEF Boxes
<1>2. /\ now \in Times /\ now \in Int /\ 0 \in Times /\ Expires(o) \in Nat
      /\ Expires(o) <= now \/ Expires(o) > now
    BY ExpiresType, ConstantTypes DEF Types, Times
<1> HIDE DEF Expires, On
<1>3. CASE o \notin On(h)
    BY <1>1, <1>3 DEF Retired
<1>4. CASE o \in On(h) /\ inbox[o].state \in MailLive /\ Expires(o) <= now
    BY <1>1, <1>2, <1>4 DEF Retired, NoMail, MailLive, MailTerminal
<1>5. CASE o \in On(h) /\ ~(inbox[o].state \in MailLive /\ Expires(o) <= now)
    BY <1>1, <1>2, <1>5 DEF Retired, NoMail, MailLive, MailTerminal
<1> QED
    BY <1>3, <1>4, <1>5

LEMMA MaintainedBoxFacts ==
    ASSUME Types, inbox \in Boxes, NEW h
    PROVE  /\ MaintainedBox(h) \in Boxes
           /\ \A o \in Ids : Carried(MaintainedBox(h), MaintainedReceipts(h), o)
<1> DEFINE box == [id \in Ids |-> Retired(h, id)]
           M == [state : MailLive \cup MailTerminal \cup {"none"}, at : Times]
<1>1. /\ \A o \in Ids : \/ MaintainedBox(h)[o] = box[o]
                        \/ MaintainedBox(h)[o] = NoMail
      /\ MaintainedBox(h) = [o \in Ids |-> MaintainedBox(h)[o]]
    BY DEF MaintainedBox, CompactTerminal
<1>2. NoMail \in M
    BY ConstantTypes DEF NoMail, Times
<1>3. ASSUME NEW o \in Ids
      PROVE  /\ MaintainedBox(h)[o] \in M
             /\ Carried(MaintainedBox(h), MaintainedReceipts(h), o)
    <2>1. CASE MaintainedBox(h)[o] = NoMail
        BY <1>2, <2>1 DEF Carried, NoMail, MailLive
    <2>2. CASE MaintainedBox(h)[o] = Retired(h, o)
        <3>1. /\ MaintainedReceipts(h)[o] = receipts[o]
                 \/ (o \in On(h) /\ receipts[o] <= now)
            BY DEF MaintainedReceipts
        <3> QED
            BY <2>2, <3>1, RetiredFacts DEF Carried
    <2> QED
        BY <1>1, <2>1, <2>2
<1> HIDE DEF box
<1>4. \A o \in Ids : MaintainedBox(h)[o] \in M
    BY <1>3
<1> HIDE DEF M
<1>5. MaintainedBox(h) \in [Ids -> M]
    BY <1>1, <1>4, Zenon
<1> QED
    BY <1>3, <1>5 DEF M, Boxes

\* What an answer of receive_admitted leaves in the mailbox.
ReceivedMail(r, id) ==
    /\ r.inbox \in Boxes
    /\ r.victims \subseteq Ids
    /\ \A o \in Ids : o # id \/ r.stored = FALSE => Carried(r.inbox, r.receipts, o)

LEMMA ReceivedMailFacts ==
    ASSUME Types, inbox \in Boxes, NEW h, NEW id \in Ids, NEW to,
           NEW r \in Received(h, id, to)
    PROVE  ReceivedMail(r, id)
<1>t. /\ now \in Nat /\ 0 \in Times /\ receipts[id] \in Nat /\ Expires(id) \in Nat
    BY ExpiresType, ConstantTypes DEF Types, Times
<1> DEFINE box == MaintainedBox(h)
           recs == MaintainedReceipts(h)
           victims == Victims(h, box, recs)
<1>m. /\ box \in Boxes /\ recs \in [Ids -> Nat]
      /\ \A o \in Ids : Carried(box, recs, o)
    BY MaintainedBoxFacts, MaintainedFacts
<1>1. CASE receipts[id] > now
    <2>1. r = [code |-> "delivered", inbox |-> inbox, receipts |-> receipts,
               stored |-> FALSE, victims |-> {}]
        BY <1>1, <1>t DEF Received
    <2> QED
        BY <2>1 DEF ReceivedMail, Carried
<1>2. CASE ~(receipts[id] > now) /\ Expires(id) <= now
    <2>1. r = [code |-> "refused", inbox |-> inbox, receipts |-> receipts,
               stored |-> FALSE, victims |-> {}]
        BY <1>2, <1>t DEF Received
    <2> QED
        BY <2>1 DEF ReceivedMail, Carried
<1>3. CASE ~(receipts[id] > now) /\ ~(Expires(id) <= now)
    <2> DEFINE answer(code) == [code |-> code, inbox |-> box, receipts |-> recs,
                                stored |-> FALSE, victims |-> {}]
               store(V) == [code |-> "delivered",
                            inbox |-> [box EXCEPT ![id] = [state |-> "unread", at |-> 0]],
                            receipts |-> [o \in Ids |->
                               IF o = id THEN ReceiptExpiry(Expires(id))
                               ELSE IF o \in V THEN 0 ELSE recs[o]],
                            stored |-> TRUE, victims |-> V]
    <2>1. \/ \E code \in {"replaced", "refused", "unavailable"} : r = answer(code)
          \/ \E V \in victims : r = store(V)
        BY <1>3, <1>t DEF Received
    <2>2. ASSUME NEW code \in {"replaced", "refused", "unavailable"}, r = answer(code)
          PROVE  ReceivedMail(r, id)
        <3> HIDE DEF box, recs
        <3> QED
            BY <2>2, <1>m DEF ReceivedMail, Carried
    <2>3. ASSUME NEW V \in victims, r = store(V)
          PROVE  ReceivedMail(r, id)
        <3>1. \A v \in V : v \in Ids /\ box[v].state \notin MailLive
            BY <2>3 DEF Victims, Finished, On
        <3> HIDE DEF box, recs
        <3>2. /\ r.inbox = [box EXCEPT ![id] = [state |-> "unread", at |-> 0]]
              /\ r.victims = V /\ r.stored = TRUE
              /\ \A o \in Ids : o # id => r.receipts[o] = IF o \in V THEN 0 ELSE recs[o]
            BY <2>3
        <3>3. r.inbox \in Boxes
            BY <1>m, <1>t, <3>2 DEF Boxes, MailLive
        <3>4. \A o \in Ids : o # id => r.inbox[o] = box[o]
            BY <1>m, <3>2 DEF Boxes
        <3> QED
            BY <1>m, <3>1, <3>2, <3>3, <3>4 DEF ReceivedMail, Carried
    <2> QED
        BY <2>1, <2>2, <2>3
<1> QED
    BY <1>1, <1>2, <1>3

LEMMA SeqGrows ==
    ASSUME NEW A, NEW B, NEW s \in Seq(A), A \subseteq B
    PROVE  s \in Seq(B)
OBVIOUS

LEMMA CompactRetainedType ==
    ASSUME NEW I, NEW ids \in Seq(Msgs)
    PROVE  CompactRetained(I, ids) \in Seq(Msgs)
<1> DEFINE S == {m \in Msgs : Fresh(I, m)}
<1>1. Filter(ids, S) \in Seq(Msgs \cap S)
    BY FilterType
<1> HIDE DEF S
<1>2. Filter(ids, S) \in Seq(Msgs)
    BY <1>1, SeqGrows
<1> QED
    BY <1>2 DEF CompactRetained, S

LEMMA RefreshShape ==
    ASSUME Types, Shapes, Refresh
    PROVE  /\ notices' \in [scanned : Nat, last : 0 .. MaxMsgs, pending : Seq(Msgs)]
           /\ \A S : /\ notices.pending \in Seq(S)
                     /\ \A m \in Msgs : items[m].state \in Failed => m \in S
                     => notices'.pending \in Seq(S)
<1> DEFINE F(n) == {m \in Msgs : /\ items[m].state \in Failed
                                 /\ NoticeExpiry(m) > now
                                 /\ receipts[NoticeId(m)] <= now}
           T == {m \in Msgs : NoticeExpiry(m) > now}
           old == Filter(notices.pending, T)
<1>1. retained \in Seq(Msgs) /\ Len(retained) \in Nat /\ notices.pending \in Seq(Msgs)
      /\ notices.scanned \in Nat
    BY DEF Shapes
<1>2. ASSUME NEW n \in Nat
      PROVE  Owing(n) \in Seq({m \in Msgs : items[m].state \in Failed})
    <2>1. SubSeq(retained, n + 1, Len(retained)) \in Seq(Msgs)
        BY <1>1
    <2>2. Owing(n) \in Seq(Msgs \cap F(n))
        BY <2>1, FilterType DEF Owing
    <2> QED
        BY <2>2, SeqGrows
<1>3. notices' = [scanned |-> Len(retained), last |-> LastOf(retained),
                  pending |-> IF SamePrefix THEN old \o Owing(notices.scanned) ELSE Owing(0)]
    BY DEF Refresh
<1>4. LastOf(retained) \in 0 .. MaxMsgs
    BY <1>1, ConstantTypes DEF LastOf, Msgs
<1>5. ASSUME NEW S, notices.pending \in Seq(S),
             \A m \in Msgs : items[m].state \in Failed => m \in S
      PROVE  notices'.pending \in Seq(S)
    <2>1. Owing(notices.scanned) \in Seq(S) /\ Owing(0) \in Seq(S)
        <3> DEFINE failed == {m \in Msgs : items[m].state \in Failed}
        <3>1. Owing(notices.scanned) \in Seq(failed) /\ Owing(0) \in Seq(failed)
            BY <1>1, <1>2
        <3>2. failed \subseteq S
            BY <1>5
        <3> HIDE DEF failed
        <3> QED
            BY <3>1, <3>2, SeqGrows
    <2>2. old \in Seq(S)
        <3>1. old \in Seq(S \cap T)
            BY <1>5, FilterType
        <3> HIDE DEF T, old
        <3> QED
            BY <3>1, SeqGrows
    <2> HIDE DEF old
    <2> QED
        BY <1>3, <2>1, <2>2
<1> HIDE DEF F, T, old
<1>6. notices'.pending \in Seq(Msgs)
    BY <1>1, <1>5
<1> QED
    BY <1>1, <1>3, <1>4, <1>5, <1>6

\* What the delivery of notices does to them, and the mailbox they go to.
LEMMA DeliverShape ==
    ASSUME Types, Shapes, Deliver
    PROVE  /\ UNCHANGED <<now, items, retained, parent, late, src, dst, lost, crashes>>
           /\ \/ UNCHANGED notices
              \/ /\ notices' = [notices EXCEPT !.pending = Tail(@)]
                 /\ notices.pending # <<>>
           /\ \/ UNCHANGED registries
              \/ \E m \in Msgs :
                    /\ notices.pending # <<>> /\ m = Head(notices.pending)
                    /\ \E r \in Received("src", NoticeId(m), 1) : Stored(r, NoticeId(m))
BY DEF Deliver, NoticeDone, NoticeLater, journal

LEMMA ShapesStep == Types /\ Shapes /\ [Next]_vars => Shapes'
<1> SUFFICES ASSUME Types, Shapes, [Next]_vars
             PROVE  Shapes'
    OBVIOUS
<1>r. ASSUME NEW id \in Ids, NEW h, NEW to, NEW r \in Received(h, id, to), Stored(r, id)
      PROVE  inbox' \in Boxes /\ evicted' \subseteq Ids
    <2>1. ReceivedMail(r, id)
        BY <1>r, ReceivedMailFacts DEF Shapes
    <2> QED
        BY <1>r, <2>1 DEF Stored, ReceivedMail, Shapes
<1>p. Recovered \in {"owed", "replied"} /\ \A k : Settle(k) \in {"owed", "replied"}
    BY DEF Shapes, Recovered, Settle
<1>a. ASSUME NEW r, Accept(r)
      PROVE  retained' \in Seq(Msgs)
    BY <1>a, CompactRetainedType DEF Accept, Shapes
<1>d. ASSUME Died
      PROVE  /\ notices' \in [scanned : Nat, last : 0 .. MaxMsgs, pending : Seq(Msgs)]
             /\ UNCHANGED <<src, inbox, evicted>>
             /\ lost' \subseteq Msgs /\ crashes' \in 0 .. MaxCrashes
    <2>1. MaxCrashes \in Nat
        BY RemoteAssumption
    <2>2. notices' = NoNotices /\ NoNotices.pending \in Seq(Msgs)
        BY <1>d DEF Died, NoNotices
    <2>3. crashes' \in 0 .. MaxCrashes
        BY <1>d, <2>1 DEF Died, Shapes
    <2> QED
        BY <1>d, <2>2, <2>3, ConstantTypes DEF Died, Shapes, Types, registries, NoNotices
<1>1. ASSUME NEW k \in Keys, Begin(k) \/ Replay(k)
      PROVE  Shapes'
    BY <1>1, <1>p DEF Shapes, Begin, Replay, journal, registries
<1>2. ASSUME NEW r \in requests, Commit(r)
      PROVE  Shapes'
    <2>1. retained' \in Seq(Msgs)
        BY <1>2, <1>a DEF Commit, journal, Shapes
    <2>2. parent' \in {"owed", "replied"}
        BY <1>2, <1>p DEF Commit, Shapes
    <2> QED
        BY <1>2, <2>1, <2>2 DEF Shapes, Commit, registries
<1>3. ASSUME NEW r \in requests, CrashInCommit(r)
      PROVE  Shapes'
    BY <1>3, <1>a, <1>d, <1>p DEF Shapes, CrashInCommit
<1>4. ASSUME NEW m \in Msgs, DrainPick(m)
      PROVE  Shapes'
    BY <1>4, <1>p DEF Shapes, DrainPick, journal, registries
<1>5. ASSUME NEW m \in Msgs, LateArrives(m)
      PROVE  Shapes'
    <2>1. inbox' \in Boxes /\ evicted' \subseteq Ids
        BY <1>5, <1>r, IdTypes DEF LateArrives
    <2> QED
        BY <1>5, <2>1 DEF Shapes, LateArrives, journal
<1>6. CASE DrainNone \/ PostFails
    BY <1>6, <1>p DEF Shapes, DrainNone, PostFails, journal, registries
<1>7. CASE PostArrives
    <2>1. drain.msg \in Ids
        BY <1>7, IdTypes DEF Types, PostArrives
    <2>2. inbox' \in Boxes /\ evicted' \subseteq Ids
        BY <1>7, <1>r, <2>1 DEF PostArrives
    <2> QED
        BY <1>7, <2>2 DEF Shapes, PostArrives, journal
<1>8. CASE DrainSave
    <2>1. drain.msg \in Msgs
        BY <1>8 DEF DrainSave, Types
    <2>2. Append(retained, drain.msg) \in Seq(Msgs) /\ retained \in Seq(Msgs)
        BY <2>1 DEF Shapes
    <2>3. retained' \in Seq(Msgs)
        BY <1>8, <2>2, CompactRetainedType DEF DrainSave, journal
    <2> QED
        BY <1>8, <2>3, <1>p DEF Shapes, DrainSave, registries
<1>f. CASE DrainFails
    <2>1. <<>> \in Seq(Msgs) /\ 0 \in Nat
        OBVIOUS
    <2>2. notices' \in [scanned : Nat, last : 0 .. MaxMsgs, pending : Seq(Msgs)]
        BY <1>f, <2>1 DEF DrainFails, Shapes
    <2>3. lost' \subseteq Msgs
        BY <1>f DEF DrainFails, Shapes, Types
    <2> QED
        BY <1>f, <1>p, <2>2, <2>3 DEF Shapes, DrainFails, journal, registries
<1>9. CASE Refresh
    BY <1>9, RefreshShape DEF Shapes, Refresh, journal, registries
<1>10. CASE Deliver
    <2>1. notices' \in [scanned : Nat, last : 0 .. MaxMsgs, pending : Seq(Msgs)]
        <3>1. notices.pending # <<>> => Tail(notices.pending) \in Seq(Msgs)
            BY DEF Shapes
        <3>2. UNCHANGED notices
              \/ (notices.pending # <<>> /\ notices' = [notices EXCEPT !.pending = Tail(@)])
            BY <1>10, DeliverShape
        <3> QED
            BY <3>1, <3>2 DEF Shapes
    <2>2. inbox' \in Boxes /\ evicted' \subseteq Ids
        BY <1>10, <1>r, DeliverShape, IdTypes DEF Shapes, registries
    <2> QED
        BY <1>10, <2>1, <2>2, DeliverShape DEF Shapes
<1>11. CASE Crash
    BY <1>11, <1>d DEF Shapes, Crash, journal
<1>12. ASSUME NEW id \in Ids, Ack(id)
       PROVE  Shapes'
    <2> DEFINE box == MaintainedBox(Host(id))
    <2>1. box \in Boxes /\ now \in Times
        BY MaintainedBoxFacts DEF Shapes, Types
    <2>2. inbox' = [box EXCEPT ![id] = [state |-> "acknowledged", at |-> now]]
        BY <1>12 DEF Ack
    <2> HIDE DEF box
    <2>3. inbox' \in Boxes
        BY <2>1, <2>2 DEF Boxes, MailTerminal
    <2> QED
        BY <1>12, <2>3 DEF Shapes, Ack, journal
<1>13. CASE SrcChanges \/ DstReplaced \/ Tick
    BY <1>13, RemoteAssumption
       DEF Shapes, SrcChanges, DstReplaced, Tick, journal, registries
<1>14. CASE UNCHANGED vars
    BY <1>14 DEF Shapes, vars
<1> QED
    BY <1>1, <1>2, <1>3, <1>4, <1>5, <1>6, <1>7, <1>8, <1>9, <1>10, <1>11, <1>12,
       <1>13, <1>14, <1>f DEF Next, Worker

LEMMA ShapesInit == Init => Shapes
<1>1. 0 \in Times /\ MaxCrashes \in Nat /\ MaxMsgs \in Nat
    BY ConstantTypes, RemoteAssumption DEF Times
<1>2. <<>> \in Seq(Msgs)
    OBVIOUS
<1> QED
    BY <1>1, <1>2 DEF Init, Shapes, Boxes, NoMail, NoNotices

\* Every variable stays in its set, the notices' cursor over the journal and the
\* mailboxes of both hosts included.
THEOREM RemoteTypeOK == Spec => []TypeOK
<1>1. Types /\ Shapes => TypeOK
    BY DEF Types, Shapes, TypeOK, Boxes, Item
<1> QED
    BY <1>1, ShapesInit, ShapesStep, RemoteTypes, PTL DEF Spec

\* What the journal will not change any more.
Spent == Failed \cup {"gone"}

\* The expiry of an identity is settled: a message has it from its acceptance, a
\* notice from the failure it tells of.
Fixed(id) ==
    IF id \in Msgs THEN items[id].state # "none"
    ELSE items[id - MaxMsgs].state \in Spent

\* An identity that was stored, and whose receipt was not evicted, still has its
\* receipt or is too old to be stored again; live mail has its receipt, evictions
\* or not, until it expires.
Mail(id) ==
    /\ arrivals[id] > 0 \/ inbox[id].state # "none" => Fixed(id)
    /\ arrivals[id] > 1 => id \in evicted
    /\ arrivals[id] > 0 /\ id \notin evicted =>
        \/ receipts[id] = Expires(id) + Retention
        \/ Expires(id) + Retention <= now
    /\ inbox[id].state \in MailLive =>
        \/ receipts[id] = Expires(id) + Retention
        \/ Expires(id) <= now

MailInv ==
    /\ \A id \in Ids : Mail(id)
    /\ notices.pending \in Seq({m \in Msgs : items[m].state \in Spent})

LEMMA MailInit == Init => MailInv
BY DEF Init, MailInv, Mail, NoMail, NoNotices, MailLive

\* An entry that is spent stays as it is but for its compaction, and an accepted
\* one keeps its expiry.
LEMMA EntryFixed ==
    ASSUME Types, JournalEffect, NEW m \in Msgs
    PROVE  /\ items[m].state # "none" =>
                items'[m].state # "none" /\ items'[m].expires = items[m].expires
           /\ items[m].state \in Spent =>
                items'[m].state \in Spent /\ items'[m].changed = items[m].changed
<1>t. items[m] \in Item
    BY DEF Types
<1>1. CASE items' = items
    BY <1>1
<1>2. CASE Aged(m)
    BY <1>2, <1>t DEF Aged, Item, Spent, Failed
<1>3. ASSUME NEW r \in requests, JournalAccepts(r), ~Aged(m)
      PROVE  items[m].state = "none"
    BY <1>3 DEF JournalAccepts
<1>4. CASE JournalSaves /\ ~Aged(m)
    <2>1. items[m].state = "queued"
        BY <1>4 DEF JournalSaves
    <2> QED
        BY <1>4, <2>1, SavedItem DEF Spent, Failed
<1> QED
    BY <1>1, <1>2, <1>3, <1>4 DEF JournalEffect, Spent, Failed

LEMMA FixedStays ==
    ASSUME Types, JournalEffect, NEW id \in Ids, Fixed(id)
    PROVE  Fixed(id)' /\ Expires(id)' = Expires(id)
<1>1. CASE id \in Msgs
    BY <1>1, EntryFixed DEF Fixed, Expires
<1>2. CASE id \notin Msgs
    <2> DEFINE m == id - MaxMsgs
    <2>1. m \in Msgs /\ items[m].state \in Spent
        BY <1>2, IdTypes DEF Fixed
    <2>2. /\ items'[m].state \in Spent /\ items'[m].changed = items[m].changed
          /\ items'[m].expires = items[m].expires
        BY <2>1, EntryFixed DEF Spent, Failed
    <2> QED
        BY <1>2, <2>2 DEF Fixed, Expires, NoticeExpiry
<1> QED
    BY <1>1, <1>2

LEMMA PendingStays ==
    ASSUME Types, JournalEffect, MailInv,
           \/ UNCHANGED notices
           \/ notices' = NoNotices
           \/ /\ notices' = [notices EXCEPT !.pending = Tail(@)]
              /\ notices.pending # <<>> /\ Shapes
    PROVE  notices'.pending \in Seq({m \in Msgs : items[m].state \in Spent})'
<1> DEFINE A == {m \in Msgs : items[m].state \in Spent}
           B == {m \in Msgs : items'[m].state \in Spent}
<1>1. A \subseteq B
    BY EntryFixed
<1>2. notices.pending \in Seq(A)
    BY DEF MailInv
<1> HIDE DEF A
<1>3. notices'.pending \in Seq(A)
    <2>1. CASE UNCHANGED notices
        BY <1>2, <2>1
    <2>2. CASE notices' = NoNotices
        BY <2>2 DEF NoNotices
    <2>3. CASE /\ notices' = [notices EXCEPT !.pending = Tail(@)]
               /\ notices.pending # <<>> /\ Shapes
        <3>1. notices'.pending = Tail(notices.pending)
            BY <2>3 DEF Shapes
        <3> QED
            BY <1>2, <2>3, <3>1
    <2> QED
        BY <2>1, <2>2, <2>3
<1> HIDE DEF B
<1>4. notices'.pending \in Seq(B)
    BY <1>1, <1>3, SeqGrows
<1> QED
    BY <1>4 DEF B

\* The journal may change, the registries do not.
LEMMA MailQuiet ==
    ASSUME Types, JournalEffect, MailInv, now' \in Int, now' >= now,
           UNCHANGED registries, NEW id \in Ids
    PROVE  Mail(id)'
<1>1. now \in Int /\ Expires(id) \in Int /\ Retention \in Int
    BY ExpiresType, ConstantTypes DEF Types, Times
<1>2. Fixed(id) => Fixed(id)' /\ Expires(id)' = Expires(id)
    BY FixedStays
<1>3. Mail(id)
    BY DEF MailInv
<1>4. CASE Fixed(id)
    <2> HIDE DEF Fixed, Expires
    <2> QED
        BY <1>1, <1>2, <1>3, <1>4 DEF Mail, registries
<1>5. CASE ~Fixed(id)
    BY <1>3, <1>5 DEF Mail, registries, MailLive
<1> QED
    BY <1>4, <1>5

\* A registry section of either daemon.
LEMMA MailRegistry ==
    ASSUME Types, Shapes, MailInv, NEW h, NEW id \in Ids, NEW to,
           NEW r \in Received(h, id, to), Stored(r, id), Fixed(id),
           UNCHANGED <<items, now>>, NEW o \in Ids
    PROVE  Mail(o)'
<1>1. RegistryStep(r, id) /\ ReceivedRight(r, id) /\ ReceivedMail(r, id)
    BY StoredFacts, ReceivedFacts, ReceivedMailFacts DEF Shapes
<1>2. /\ now \in Nat /\ Expires(o) \in Nat /\ Retention \in Nat /\ receipts[o] \in Nat
      /\ arrivals[o] \in 0 .. 2 /\ arrivals'[o] \in 0 .. 2
    BY <1>1, ExpiresType, ConstantTypes DEF Types, Times, RegistryStep
<1>3. Mail(o)
    BY DEF MailInv
<1>4. Fixed(o)' = Fixed(o) /\ Expires(o)' = Expires(o) /\ now' = now
    BY DEF Fixed, Expires, NoticeExpiry
<1>5. inbox' = r.inbox /\ receipts' = r.receipts
    BY DEF Stored
<1> HIDE DEF Fixed, Expires
<1>6. CASE o # id
    <2>1. Carried(inbox', receipts', o)
        BY <1>1, <1>5, <1>6 DEF ReceivedMail
    <2>2. /\ arrivals'[o] = arrivals[o] /\ evicted \subseteq evicted'
          /\ \/ receipts'[o] = receipts[o]
             \/ receipts'[o] = 0 /\ (receipts[o] <= now \/ o \in evicted')
        BY <1>1, <1>6 DEF RegistryStep
    <2> QED
        BY <1>2, <1>3, <1>4, <2>1, <2>2 DEF Mail, Carried
<1>7. CASE o = id /\ r.stored = TRUE
    <2>1. /\ receipts[o] <= now /\ Expires(o) > now
          /\ receipts'[o] = Expires(o) + Retention
          /\ evicted \subseteq evicted'
        BY <1>1, <1>5, <1>7 DEF ReceivedRight, RegistryStep
    <2>2. arrivals'[o] = Least(2, arrivals[o] + 1)
        BY <1>7 DEF Stored, Types
    <2>3. arrivals[o] = 0 \/ o \in evicted
        BY <1>2, <1>3, <2>1 DEF Mail
    <2> QED
        BY <1>2, <1>3, <1>4, <1>7, <2>1, <2>2, <2>3 DEF Mail, Least
<1>8. CASE o = id /\ r.stored = FALSE
    <2>1. Carried(inbox', receipts', o)
        BY <1>1, <1>5, <1>8 DEF ReceivedMail
    <2>2. /\ evicted \subseteq evicted'
          /\ \/ receipts'[o] = receipts[o]
             \/ receipts'[o] = 0 /\ receipts[o] <= now
        BY <1>1, <1>5, <1>8 DEF ReceivedRight, RegistryStep
    <2>3. arrivals'[o] = arrivals[o]
        BY <1>8 DEF Stored, Types
    <2> QED
        BY <1>2, <1>3, <1>4, <2>1, <2>2, <2>3 DEF Mail, Carried
<1> QED
    BY <1>1, <1>6, <1>7, <1>8 DEF ReceivedRight

\* The recipient acknowledges: its mail was there, and the rest is maintained.
LEMMA MailAck ==
    ASSUME Types, Shapes, MailInv, NEW id \in Ids, Ack(id), NEW o \in Ids
    PROVE  Mail(o)'
<1> DEFINE h == Host(id)
           box == MaintainedBox(h)
<1>1. /\ box \in Boxes /\ Carried(box, receipts', o) /\ Carried(box, receipts', id)
      /\ \/ receipts'[o] = receipts[o]
         \/ receipts'[o] = 0 /\ receipts[o] <= now
    BY MaintainedBoxFacts, MaintainedFacts DEF Ack, Shapes
<1>2. /\ inbox' = [box EXCEPT ![id] = [state |-> "acknowledged", at |-> now]]
      /\ box[id].state \in MailLive
      /\ UNCHANGED <<items, now, arrivals, evicted>>
    BY DEF Ack, journal
<1>3. Fixed(o)' = Fixed(o) /\ Expires(o)' = Expires(o) /\ now' = now
    BY <1>2 DEF Fixed, Expires, NoticeExpiry
<1>4. /\ now \in Nat /\ Expires(o) \in Nat /\ Retention \in Nat /\ receipts[o] \in Nat
    BY ExpiresType, ConstantTypes DEF Types, Times
<1> HIDE DEF box, Fixed, Expires
<1>5. /\ inbox'[o].state # "none" => inbox[o].state # "none"
      /\ inbox'[o].state \in MailLive =>
            /\ inbox[o].state \in MailLive
            /\ receipts'[o] = receipts[o] \/ (receipts[o] <= now /\ Expires(o) > now)
    <2>1. CASE o = id
        BY <1>1, <1>2, <2>1 DEF Carried, Boxes, MailLive
    <2>2. CASE o # id
        <3>1. inbox'[o] = box[o]
            BY <1>1, <1>2, <2>2 DEF Boxes
        <3> QED
            BY <1>1, <3>1 DEF Carried
    <2> QED
        BY <2>1, <2>2
<1>6. Mail(o)
    BY DEF MailInv
<1> QED
    BY <1>1, <1>2, <1>3, <1>4, <1>5, <1>6 DEF Mail

\* What a step does to the notices that are owed.
LEMMA MailPending ==
    ASSUME Types, Shapes, MailInv, [Next]_vars
    PROVE  notices'.pending \in Seq({m \in Msgs : items[m].state \in Spent})'
<1>1. JournalEffect
    BY JournalEffects
<1>2. CASE Refresh
    <2> DEFINE A == {m \in Msgs : items[m].state \in Spent}
    <2>1. notices.pending \in Seq(A) /\ \A m \in Msgs : items[m].state \in Failed => m \in A
        BY DEF MailInv, Spent
    <2> HIDE DEF A
    <2>2. notices'.pending \in Seq(A)
        BY <1>2, <2>1, RefreshShape
    <2>3. items' = items
        BY <1>2 DEF Refresh, journal
    <2> QED
        BY <2>2, <2>3 DEF A
<1>3. CASE Deliver
    BY <1>1, <1>3, DeliverShape, PendingStays
<1>4. CASE Died
    BY <1>1, <1>4, PendingStays DEF Died
<1>5. CASE UNCHANGED notices
    BY <1>1, <1>5, PendingStays
<1>6. CASE notices' = [notices EXCEPT !.scanned = 0, !.pending = <<>>]
    BY <1>6 DEF Shapes
<1> QED
    BY <1>2, <1>3, <1>4, <1>5, <1>6
       DEF Next, Begin, Replay, Commit, CrashInCommit, DrainPick, LateArrives, Worker,
       DrainNone, PostArrives, PostFails, DrainSave, DrainFails, Crash, Ack, SrcChanges,
       DstReplaced, Tick, vars

LEMMA MailStep ==
    Types /\ Shapes /\ OutcomeInv /\ MailInv /\ [Next]_vars => MailInv'
<1> SUFFICES ASSUME Types, Shapes, OutcomeInv, MailInv, [Next]_vars, NEW o \in Ids
             PROVE  Mail(o)'
    BY MailPending DEF MailInv
<1>1. /\ JournalEffect /\ now' \in Int /\ now' >= now
    BY JournalEffects, TypesStep, ConstantTypes DEF Types, Times
<1>2. CASE UNCHANGED registries
    BY <1>1, <1>2, MailQuiet
<1>3. ASSUME NEW m \in Msgs, LateArrives(m)
      PROVE  Mail(o)'
    <2>1. m \in Ids /\ Fixed(m)
        BY <1>3, IdTypes DEF LateArrives, OutcomeInv, InFlight, Fixed
    <2>2. UNCHANGED <<items, now>>
        BY <1>3 DEF LateArrives, journal
    <2> QED
        BY <1>3, <2>1, <2>2, MailRegistry DEF LateArrives
<1>4. CASE PostArrives
    <2>1. drain.msg \in Msgs /\ drain.msg \in Ids
        BY <1>4, IdTypes DEF PostArrives, Types
    <2>2. Fixed(drain.msg)
        BY <1>4, <2>1 DEF PostArrives, OutcomeInv, InFlight, Fixed
    <2>3. UNCHANGED <<items, now>>
        BY <1>4 DEF PostArrives, journal
    <2> QED
        BY <1>4, <2>1, <2>2, <2>3, MailRegistry DEF PostArrives
<1>5. CASE Deliver /\ ~UNCHANGED registries
    <2>1. PICK m \in Msgs :
            /\ notices.pending # <<>> /\ m = Head(notices.pending)
            /\ \E r \in Received("src", NoticeId(m), 1) : Stored(r, NoticeId(m))
        BY <1>5, DeliverShape
    <2>2. items[m].state \in Spent
        BY <2>1 DEF MailInv
    <2>3. NoticeId(m) \in Ids /\ NoticeId(m) \notin Msgs /\ NoticeId(m) - MaxMsgs = m
        <3>1. NoticeId(m) - MaxMsgs = m
            BY ConstantTypes DEF NoticeId, Msgs
        <3> QED
            BY <3>1, IdTypes
    <2>4. Fixed(NoticeId(m))
        BY <2>2, <2>3 DEF Fixed
    <2>5. UNCHANGED <<items, now>>
        BY <1>5, DeliverShape
    <2> QED
        BY <2>1, <2>3, <2>4, <2>5, MailRegistry
<1>6. ASSUME NEW id \in Ids, Ack(id)
      PROVE  Mail(o)'
    BY <1>6, MailAck
<1> QED
    BY <1>2, <1>3, <1>4, <1>5, <1>6
       DEF Next, Begin, Replay, Commit, CrashInCommit, Died, DrainPick, Worker,
       DrainNone, PostFails, DrainSave, DrainFails, Refresh, Crash, SrcChanges,
       DstReplaced, Tick, vars, registries

LEMMA RemoteMail == Spec => [](Types /\ Shapes /\ MailInv)
<1>1. Types /\ Shapes /\ OutcomeInv /\ MailInv /\ [Next]_vars => Shapes' /\ MailInv'
    BY ShapesStep, MailStep
<1> QED
    BY <1>1, ShapesInit, MailInit, RemoteTypes, RemoteOutcomeInv, PTL DEF Spec

\* No message, and no notice about one, enters a mailbox twice unless its receipt
\* was evicted to make room: whatever the relay repeats, and whenever the daemon
\* dies between the delivery and its journal (receive_admitted, remote.rs:1771,
\* receipt_retention.rs, remote_delivery_notice.rs).
THEOREM RemoteAtMostOnce == Spec => []AtMostOnce
<1>1. MailInv => AtMostOnce
    BY DEF MailInv, Mail, AtMostOnce
<1> QED
    BY <1>1, RemoteMail, PTL

\* Mail that can still be read keeps its receipt, at the capacity of the receipts
\* too: only those of finished mail make room (make_room, receipt_retention.rs).
THEOREM RemoteLiveReceipts == Spec => []LiveReceiptKept
<1>1. Types /\ MailInv => LiveReceiptKept
    <2> SUFFICES ASSUME Types, NEW id \in Ids, Mail(id), inbox[id].state \in MailLive,
                        now < Expires(id)
                 PROVE  receipts[id] > now
        BY DEF MailInv, LiveReceiptKept
    <2>1. now \in Nat /\ Expires(id) \in Nat /\ Retention \in Nat /\ 0 < Retention
        BY ExpiresType, ConstantTypes, RemoteAssumption DEF Types, Times
    <2> HIDE DEF Expires
    <2> QED
        BY <2>1 DEF Mail
<1> QED
    BY <1>1, RemoteMail, PTL

=============================================================================
