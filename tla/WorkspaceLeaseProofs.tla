------------------------ MODULE WorkspaceLeaseProofs ------------------------
(***************************************************************************)
(* Invariants of WorkspaceLease, for any sessions, calls, number of        *)
(* bindings and operations, lifetime and capacity.                         *)
(*                                                                         *)
(* The inductive invariant says what a grant stands for: an operation that *)
(* is not started, or runs, has its active record in the current binding   *)
(* (Fenced); the records of the binding are operations of their own, each  *)
(* told to its owner (Recorded); an acknowledged outcome is the recorded   *)
(* one (Acknowledged); and a granted call is recorded or forgotten         *)
(* (Remembered).                                                           *)
(***************************************************************************)
EXTENDS WorkspaceLease, WellFoundedInduction, TLAPS

ops == lease.operations

Owner == [session |-> lease.session, generation |-> lease.generation]

Current(g) ==
    /\ Exact(g)
    /\ \E k \in DOMAIN ops : ops[k].op = g.op /\ ops[k].status = "active"

Fenced ==
    /\ running \subseteq started
    /\ \A g \in granted : g.op \in running \/ g.op \notin started => Current(g)

Recorded ==
    /\ \A k \in DOMAIN ops : Told(Owner, ops[k]) \in granted
    /\ \A j, k \in DOMAIN ops : ops[j].op = ops[k].op => j = k

Acknowledged ==
    \A a \in acks :
        /\ \E g \in granted : g.op = a.op
        /\ \A k \in DOMAIN ops : ops[k].op = a.op => ops[k].status = a.outcome

Remembered ==
    \A g \in granted :
        /\ g.generation <= lease.generation
        /\ g.generation = lease.generation =>
            \/ g.call \in CallsOf(ops)
            \/ [generation |-> g.generation, call |-> g.call] \in forgotten

LeaseInv ==
    /\ Fenced /\ Recorded /\ Acknowledged /\ Remembered
    /\ OneOutcome /\ OneGrantPerCall

-----------------------------------------------------------------------------
(* Facts about the operators                                               *)

LEMMA ConstantTypes ==
    /\ MaxAsk \in Nat /\ MaxBind \in Nat /\ MaxOp \in Nat /\ MaxHead \in Nat
    /\ Ttl \in Nat /\ MAX_OPERATIONS \in Nat
    /\ 0 < Ttl /\ 0 < MAX_OPERATIONS
BY WorkspaceLeaseAssumption

\* A set of numbers that is not empty has a least one.
LEMMA LeastOf ==
    ASSUME NEW S \in SUBSET Nat, S # {}
    PROVE  \E k \in S : \A j \in S : k <= j
<1>1. PICK k \in S : \A j \in S : <<j, k>> \notin OpToRel(<, Nat)
    BY WFMin, NatLessThanWellFounded, Zenon
<1>2. \A j \in S : ~(j < k)
    BY <1>1, Zenon DEF OpToRel
<1> QED
    BY <1>2

\* Compaction keeps every active record, and the order of the rest.
LEMMA CompactedFacts ==
    ASSUME NEW s \in Seq(Operation)
    PROVE  /\ Compacted(s) \in Seq(Operation)
           /\ Len(Compacted(s)) <= Len(s)
           /\ \A j \in DOMAIN Compacted(s) : \E k \in DOMAIN s : Compacted(s)[j] = s[k]
           /\ \A k \in DOMAIN s : s[k].status = "active" =>
                \E j \in DOMAIN Compacted(s) : Compacted(s)[j] = s[k]
           /\ (\A j, k \in DOMAIN s : s[j].op = s[k].op => j = k) =>
                \A j, k \in DOMAIN Compacted(s) :
                    Compacted(s)[j].op = Compacted(s)[k].op => j = k
<1> DEFINE ended == {k \in DOMAIN s : s[k].status # "active"}
           oldest == CHOOSE k \in ended : \A j \in ended : k <= j
           t == [k \in 1 .. Len(s) - 1 |-> IF k < oldest THEN s[k] ELSE s[k + 1]]
<1>1. CASE Len(s) < MAX_OPERATIONS \/ ended = {}
    <2>1. Compacted(s) = s
        BY <1>1 DEF Compacted
    <2> QED
        BY <2>1
<1>2. CASE ~(Len(s) < MAX_OPERATIONS \/ ended = {})
    <2>1. Compacted(s) = t
        BY <1>2 DEF Compacted
    <2>2. Len(s) \in Nat /\ DOMAIN s = 1 .. Len(s) /\ \A k \in 1 .. Len(s) : s[k] \in Operation
        OBVIOUS
    <2>3. Len(s) > 0
        BY <1>2, <2>2
    <2> HIDE DEF oldest
    <2>4. \A k \in 1 .. Len(s) - 1 : /\ k \in DOMAIN s /\ k + 1 \in DOMAIN s
                                     /\ t[k] = IF k < oldest THEN s[k] ELSE s[k + 1]
        BY <2>2
    <2>5. t \in Seq(Operation) /\ Len(t) = Len(s) - 1 /\ DOMAIN t = 1 .. Len(s) - 1
        <3>1. \A k \in 1 .. Len(s) - 1 : t[k] \in Operation
            BY <2>2, <2>4
        <3>2. Len(s) - 1 \in Nat
            BY <2>2, <2>3
        <3> QED
            BY <3>1, <3>2
    <2>6. oldest \in DOMAIN s /\ s[oldest].status # "active"
        <3>1. \E k \in ended : \A j \in ended : k <= j
            <4>1. ended \in SUBSET Nat /\ ended # {}
                BY <1>2, <2>2
            <4> QED
                BY <4>1, LeastOf
        <3>2. oldest \in ended
            BY <3>1 DEF oldest
        <3> QED
            BY <3>2
    <2>7. \A k \in DOMAIN s : k # oldest =>
            \E j \in DOMAIN t : t[j] = s[k]
        <3> SUFFICES ASSUME NEW k \in DOMAIN s, k # oldest
                     PROVE  \E j \in DOMAIN t : t[j] = s[k]
            OBVIOUS
        <3>1. CASE k < oldest
            <4>1. k \in 1 .. Len(s) - 1 /\ t[k] = s[k]
                BY <2>2, <2>4, <2>6, <3>1
            <4> QED
                BY <2>5, <4>1
        <3>2. CASE k > oldest
            <4>1. k - 1 \in 1 .. Len(s) - 1 /\ ~(k - 1 < oldest) /\ (k - 1) + 1 = k
                BY <2>2, <2>6, <3>2
            <4>2. t[k - 1] = s[k]
                BY <2>4, <4>1
            <4> QED
                BY <2>5, <4>1, <4>2
        <3> QED
            BY <2>2, <2>6, <3>1, <3>2
    <2>8. \A j \in DOMAIN t : \E k \in DOMAIN s :
            t[j] = s[k] /\ k = IF j < oldest THEN j ELSE j + 1
        BY <2>4, <2>5
    <2> HIDE DEF t
    <2>9. (\A j, k \in DOMAIN s : s[j].op = s[k].op => j = k) =>
                \A j, k \in DOMAIN t : t[j].op = t[k].op => j = k
        <3> SUFFICES ASSUME \A j, k \in DOMAIN s : s[j].op = s[k].op => j = k,
                            NEW j \in DOMAIN t, NEW k \in DOMAIN t, t[j].op = t[k].op
                     PROVE  j = k
            OBVIOUS
        <3>1. PICK x \in DOMAIN s : t[j] = s[x] /\ x = IF j < oldest THEN j ELSE j + 1
            BY <2>8
        <3>2. PICK y \in DOMAIN s : t[k] = s[y] /\ y = IF k < oldest THEN k ELSE k + 1
            BY <2>8
        <3>3. x = y
            BY <3>1, <3>2
        <3>4. j \in Int /\ k \in Int /\ oldest \in Int
            BY <2>2, <2>5, <2>6
        <3> QED
            BY <3>1, <3>2, <3>3, <3>4
    <2> QED
        BY <2>1, <2>2, <2>5, <2>6, <2>7, <2>8, <2>9
<1> QED
    BY <1>1, <1>2

-----------------------------------------------------------------------------
(* Types                                                                   *)

LeaseType ==
    [generation : Generations, session : Sessions \cup {"none"},
     status : {"none", "active", "released"}, ask : 0 .. MaxAsk,
     left : 0 .. Ttl, operations : Seq(Operation)]

\* What a completion does to the lease.
LEMMA CompleteLease ==
    ASSUME lease \in LeaseType, NEW k \in DOMAIN ops, NEW outcome \in Outcomes,
           lease' = [lease EXCEPT !.operations[k].status = outcome]
    PROVE  /\ lease' \in LeaseType
           /\ lease'.generation = lease.generation /\ lease'.session = lease.session
           /\ lease'.status = lease.status
           /\ Len(ops') = Len(ops) /\ DOMAIN ops' = DOMAIN ops
           /\ ops'[k] = [ops[k] EXCEPT !.status = outcome]
           /\ \A j \in DOMAIN ops : j # k => ops'[j] = ops[j]
<1>1. ops \in Seq(Operation) /\ ops[k] \in Operation
    BY DEF LeaseType, ops
<1>2. [ops[k] EXCEPT !.status = outcome] \in Operation
    BY <1>1 DEF Operation
<1> DEFINE x == [ops[k] EXCEPT !.status = outcome]
           t == [ops EXCEPT ![k] = x]
<1>3. lease' = [lease EXCEPT !.operations = t]
    BY DEF ops
<1> HIDE DEF x
<1>4. /\ t \in Seq(Operation) /\ Len(t) = Len(ops) /\ DOMAIN t = DOMAIN ops
      /\ t[k] = x /\ \A j \in DOMAIN ops : j # k => t[j] = ops[j]
    BY <1>1, <1>2 DEF x
<1> HIDE DEF t
<1>5. /\ lease' \in LeaseType /\ lease'.operations = t
      /\ lease'.generation = lease.generation /\ lease'.session = lease.session
      /\ lease'.status = lease.status
    BY <1>3, <1>4 DEF LeaseType
<1> QED
    BY <1>4, <1>5 DEF ops, x

\* What a new operation does to the lease.
LEMMA BeginLease ==
    ASSUME lease \in LeaseType, NEW o \in Operation,
           lease' = [lease EXCEPT !.operations = Append(Compacted(ops), o)]
    PROVE  /\ lease' \in LeaseType
           /\ lease'.generation = lease.generation /\ lease'.session = lease.session
           /\ lease'.status = lease.status
           /\ Compacted(ops) \in Seq(Operation)
           /\ Len(ops') = Len(Compacted(ops)) + 1
           /\ ops'[Len(ops')] = o
           /\ \A j \in 1 .. Len(Compacted(ops)) : ops'[j] = Compacted(ops)[j]
<1>1. Compacted(ops) \in Seq(Operation)
    BY CompactedFacts DEF LeaseType, ops
<1> DEFINE t == Append(Compacted(ops), o)
<1>2. /\ t \in Seq(Operation) /\ Len(t) = Len(Compacted(ops)) + 1
      /\ t[Len(t)] = o
      /\ \A j \in 1 .. Len(Compacted(ops)) : t[j] = Compacted(ops)[j]
    BY <1>1
<1>3. lease' = [lease EXCEPT !.operations = t]
    OBVIOUS
<1> HIDE DEF t
<1>4. /\ lease' \in LeaseType /\ lease'.operations = t
      /\ lease'.generation = lease.generation /\ lease'.session = lease.session
      /\ lease'.status = lease.status
    BY <1>2, <1>3 DEF LeaseType
<1> QED
    BY <1>1, <1>2, <1>4 DEF ops

LEMMA TypeInit == Init => TypeOK
<1>1. <<>> \in Seq(Operation) /\ Len(<<>>) = 0
    OBVIOUS
<1>2. ASSUME Init
      PROVE  lease \in LeaseType /\ Len(lease.operations) <= MAX_OPERATIONS
    BY <1>1, <1>2, ConstantTypes DEF Init, LeaseType, Generations
<1> QED
    BY <1>2, ConstantTypes DEF Init, TypeOK, LeaseType, Heads, Asks

LEMMA TypeStep == TypeOK /\ [Next]_vars => TypeOK'
<1> SUFFICES ASSUME TypeOK, [Next]_vars
             PROVE  TypeOK'
    OBVIOUS
<1> USE ConstantTypes
<1>t. lease \in LeaseType /\ ops \in Seq(Operation) /\ Len(ops) <= MAX_OPERATIONS
    BY DEF TypeOK, LeaseType, ops
<1>e. \A k \in DOMAIN ops : ops[k] \in Operation
    BY <1>t
<1>1. ASSUME NEW i \in Asks, NEW r \in Request(offered \cup {NoConflict}), Bind(i, r)
      PROVE  TypeOK'
    <2>1. r.session \in Sessions
        BY DEF Request
    <2>2. r \in Request(Conflict)
        BY DEF Request, TypeOK, NoConflict, Conflict, Generations, Heads
    <2>3. lease' = [generation |-> lease.generation + 1, session |-> r.session,
                    status |-> "active", ask |-> i, left |-> Ttl, operations |-> <<>>]
        BY <1>1 DEF Bind
    <2>4. lease.generation + 1 \in Generations /\ <<>> \in Seq(Operation) /\ Len(<<>>) = 0
        BY <1>1, <1>t DEF Bind, LeaseType, Generations
    <2>5. lease' \in LeaseType /\ Len(lease'.operations) <= MAX_OPERATIONS
        BY <2>1, <2>3, <2>4 DEF LeaseType, Asks
    <2>6. asked' \in [Asks -> Request(Conflict) \cup {NoRequest}]
        BY <1>1, <2>2 DEF Bind, TypeOK
    <2>7. issued' \subseteq Binding
        BY <1>1, <2>1, <2>3, <2>4 DEF Bind, TypeOK, Binding
    <2> QED
        BY <1>1, <2>5, <2>6, <2>7 DEF Bind, TypeOK, LeaseType, world, tools
<1>2. CASE BindDenied
    <2>1. CurrentConflict \in Conflict
        BY <1>t DEF CurrentConflict, Conflict, LeaseType, TypeOK
    <2> QED
        BY <1>2, <2>1 DEF BindDenied, TypeOK, world, tools
<1>3. ASSUME NEW b \in issued, Renew(b) \/ Release(b)
      PROVE  TypeOK'
    <2>1. lease' \in LeaseType /\ lease'.operations = ops
        <3>1. CASE Renew(b)
            <4>1. lease' = [lease EXCEPT !.left = Ttl]
                BY <3>1 DEF Renew
            <4> QED
                BY <1>t, <4>1 DEF LeaseType, ops
        <3>2. CASE Release(b)
            <4> DEFINE x == [lease EXCEPT !.status = "released"]
            <4>1. lease' = [x EXCEPT !.left = 0]
                BY <3>2 DEF Release
            <4>2. x \in LeaseType /\ x.operations = ops
                BY <1>t DEF LeaseType, ops
            <4> HIDE DEF x
            <4> QED
                BY <4>1, <4>2 DEF LeaseType
        <3> QED
            BY <1>3, <3>1, <3>2
    <2>2. UNCHANGED <<world, asked, told, tools, acks, forgotten>>
        BY <1>3 DEF Renew, Release
    <2> QED
        BY <1>t, <2>1, <2>2 DEF TypeOK, LeaseType, world, told, tools
<1>4. ASSUME NEW b \in issued, NEW c \in Calls, Begin(b, c)
      PROVE  TypeOK'
    <2>1. PICK n \in Ops :
            /\ lease' = [lease EXCEPT !.operations = Append(Compacted(ops),
                            [op |-> n, call |-> c, status |-> "active"])]
            /\ granted' = granted \cup
                    {Told(b, [op |-> n, call |-> c, status |-> "active"])}
        BY <1>4 DEF Begin, ops
    <2>2. [op |-> n, call |-> c, status |-> "active"] \in Operation
        BY DEF Operation
    <2>3. lease' \in LeaseType /\ Len(ops') = Len(Compacted(ops)) + 1
        BY <1>t, <2>1, <2>2, BeginLease
    <2>4. Len(Compacted(ops)) < MAX_OPERATIONS /\ Len(Compacted(ops)) \in Nat
        BY <1>4, <1>t, CompactedFacts DEF Begin, ops
    <2>5. granted' \subseteq Grant
        BY <2>1 DEF TypeOK, Told, Grant, Binding
    <2>6. forgotten' \subseteq [generation : Generations, call : Calls]
        <3>1. \A x \in CallsOf(ops) : x \in Calls
            BY <1>e DEF CallsOf, Operation
        <3>2. b.generation \in Generations
            BY DEF TypeOK, Binding
        <3> QED
            BY <1>4, <3>1, <3>2 DEF Begin, TypeOK, ops
    <2> QED
        BY <1>4, <2>3, <2>4, <2>5, <2>6 DEF Begin, TypeOK, LeaseType, ops, world, tools
<1>5. ASSUME NEW b \in issued, NEW c \in Calls, BeginAgain(b, c)
      PROVE  TypeOK'
    <2>1. granted' \subseteq Grant
        <3>1. PICK k \in DOMAIN ops : granted' = granted \cup {Told(b, ops[k])}
            BY <1>5 DEF BeginAgain, ops
        <3>2. ops[k].op \in Ops /\ ops[k].call \in Calls
            BY <1>e DEF Operation
        <3> QED
            BY <3>1, <3>2 DEF TypeOK, Told, Grant, Binding
    <2> QED
        BY <1>5, <2>1 DEF BeginAgain, TypeOK, world, tools
<1>6. ASSUME NEW g \in granted, StartTool(g)
      PROVE  TypeOK'
    BY <1>6 DEF StartTool, TypeOK, Grant, world, told
<1>7. ASSUME NEW g \in granted, NEW outcome \in Outcomes, Complete(g, outcome)
      PROVE  TypeOK'
    <2>1. lease' \in LeaseType /\ Len(ops') = Len(ops)
        <3>1. CASE UNCHANGED lease
            BY <1>t, <3>1 DEF ops
        <3>2. ASSUME NEW k \in DOMAIN ops,
                     lease' = [lease EXCEPT !.operations[k].status = outcome]
              PROVE  lease' \in LeaseType /\ Len(ops') = Len(ops)
            BY <1>t, <3>2, CompleteLease
        <3> QED
            BY <1>7, <3>1, <3>2 DEF Complete, ops
    <2>2. g.op \in Ops
        BY DEF TypeOK, Grant
    <2>3. started' \subseteq Ops /\ acks' \subseteq [op : Ops, outcome : Outcomes]
        BY <1>7, <2>2 DEF Complete, TypeOK
    <2> QED
        BY <1>7, <1>t, <2>1, <2>3 DEF Complete, TypeOK, LeaseType, ops, world, told
<1>8. ASSUME NEW o \in running, EndTool(o)
      PROVE  TypeOK'
    BY <1>8 DEF EndTool, TypeOK, world, told
<1>9. CASE Edit
    <2>1. head' \in Heads
        BY <1>9 DEF Edit, TypeOK, Heads
    <2>2. dirty' \in BOOLEAN
        BY <1>9 DEF Edit
    <2> QED
        BY <1>9, <2>1, <2>2 DEF Edit, TypeOK, told, tools
<1>10. CASE Tick
    <2>1. lease' \in LeaseType /\ lease'.operations = ops
        BY <1>10, <1>t DEF Tick, LeaseType, ops
    <2> QED
        BY <1>10, <1>t, <2>1 DEF Tick, TypeOK, LeaseType, world, told, tools
<1>11. CASE UNCHANGED vars
    BY <1>11 DEF vars, TypeOK
<1> QED
    BY <1>1, <1>2, <1>3, <1>4, <1>5, <1>6, <1>7, <1>8, <1>9, <1>10, <1>11 DEF Next

\* The lease file and all that callers were told keep their types; among them,
\* the operations never exceed their cap (workspace_lease.rs:1248).
THEOREM LeaseTypes == Spec => []TypeOK
BY TypeInit, TypeStep, PTL DEF Spec

-----------------------------------------------------------------------------
(* The invariant                                                           *)

LEMMA InvInit == Init => LeaseInv
BY DEF Init, LeaseInv, Fenced, Recorded, Acknowledged, Remembered, OneOutcome,
       OneGrantPerCall, ops

\* A step that changes nothing the invariant speaks of: the lease keeps owner,
\* status and records.
LEMMA InvQuiet ==
    ASSUME LeaseInv, ops' = ops, lease'.generation = lease.generation,
           lease'.session = lease.session, lease'.status = lease.status,
           UNCHANGED <<granted, started, running, acks, forgotten>>
    PROVE  LeaseInv'
BY DEF LeaseInv, Fenced, Recorded, Acknowledged, Remembered, OneOutcome,
       OneGrantPerCall, Current, Exact, Owner, CallsOf

\* While the lease is not busy, every granted operation is over.
LEMMA IdleIsOver ==
    ASSUME LeaseInv, ~(lease.status = "active" /\ Busy)
    PROVE  \A g \in granted : g.op \notin running /\ g.op \in started
BY DEF LeaseInv, Fenced, Current, Exact, Busy, ops

LEMMA InvBind ==
    ASSUME TypeOK, LeaseInv, NEW i \in Asks, NEW r, Bind(i, r)
    PROVE  LeaseInv'
<1>1. /\ ops' = <<>> /\ lease'.generation = lease.generation + 1
      /\ UNCHANGED <<granted, started, running, acks, forgotten>>
      /\ ~(lease.status = "active" /\ Busy)
    BY DEF Bind, MayBind, ops, tools
<1>2. DOMAIN ops' = {}
    BY <1>1
<1>3. Fenced'
    BY <1>1, IdleIsOver DEF LeaseInv, Fenced
<1>4. Recorded' /\ Acknowledged'
    BY <1>1, <1>2 DEF LeaseInv, Recorded, Acknowledged
<1>5. Remembered'
    <2>1. lease.generation \in Int /\ \A g \in granted : g.generation \in Int
        BY ConstantTypes DEF TypeOK, Grant, Generations
    <2>2. \A g \in granted : g.generation <= lease.generation
        BY DEF LeaseInv, Remembered
    <2>3. \A g \in granted : /\ g.generation <= lease'.generation
                              /\ g.generation # lease'.generation
        BY <1>1, <2>1, <2>2
    <2> QED
        BY <1>1, <2>3 DEF Remembered
<1> QED
    BY <1>1, <1>3, <1>4, <1>5 DEF LeaseInv, OneOutcome, OneGrantPerCall

LEMMA InvRelease ==
    ASSUME TypeOK, LeaseInv, NEW b, Release(b)
    PROVE  LeaseInv'
<1>1. /\ UNCHANGED <<granted, started, running, acks, forgotten>> /\ ~Busy
      /\ lease' = [lease EXCEPT !.status = "released", !.left = 0]
    BY DEF Release, told, tools
<1>2. ops' = ops /\ lease'.generation = lease.generation /\ lease'.session = lease.session
    BY <1>1 DEF TypeOK, ops
<1>3. Fenced'
    BY <1>1, IdleIsOver DEF LeaseInv, Fenced
<1>4. Recorded' /\ Acknowledged' /\ Remembered'
    BY <1>1, <1>2 DEF LeaseInv, Recorded, Acknowledged, Remembered, Owner, CallsOf
<1> QED
    BY <1>1, <1>3, <1>4 DEF LeaseInv, OneOutcome, OneGrantPerCall

LEMMA InvBegin ==
    ASSUME TypeOK, LeaseInv, NEW b \in issued, NEW c \in Calls, Begin(b, c)
    PROVE  LeaseInv'
<1> DEFINE kept == Compacted(ops)
<1>t. lease \in LeaseType /\ ops \in Seq(Operation)
    BY DEF TypeOK, LeaseType, ops
<1>1. PICK n \in Ops :
        /\ Unused(n)
        /\ lease' = [lease EXCEPT !.operations = Append(Compacted(ops),
                        [op |-> n, call |-> c, status |-> "active"])]
        /\ granted' = granted \cup {Told(b, [op |-> n, call |-> c, status |-> "active"])}
    BY DEF Begin, ops
<1> DEFINE o == [op |-> n, call |-> c, status |-> "active"]
           new == [session |-> b.session, generation |-> b.generation, op |-> n, call |-> c]
<1>2. /\ o \in Operation /\ o.op = n /\ o.call = c /\ o.status = "active"
      /\ new = Told(b, o)
    BY DEF Operation, Told
<1>2a. granted' = granted \cup {new}
    BY <1>1, <1>2
<1> HIDE DEF o
<1>3. /\ lease'.generation = lease.generation /\ lease'.session = lease.session
      /\ lease'.status = lease.status
      /\ kept \in Seq(Operation)
      /\ Len(ops') = Len(kept) + 1 /\ ops' \in Seq(Operation)
      /\ ops'[Len(ops')] = o
      /\ \A j \in 1 .. Len(kept) : ops'[j] = kept[j]
    BY <1>1, <1>2, <1>t, BeginLease DEF LeaseType, ops, o
<1>4. /\ \A j \in DOMAIN kept : \E k \in DOMAIN ops : kept[j] = ops[k]
      /\ \A k \in DOMAIN ops : ops[k].status = "active" => \E j \in DOMAIN kept : kept[j] = ops[k]
      /\ \A j, k \in DOMAIN kept : kept[j].op = kept[k].op => j = k
    BY <1>t, CompactedFacts DEF LeaseInv, Recorded
<1>5. /\ lease.status = "active" /\ b.generation = lease.generation /\ b.session = lease.session
      /\ c \notin CallsOf(ops)
      /\ forgotten' = forgotten \cup {[generation |-> b.generation, call |-> x] :
                                        x \in CallsOf(ops) \ CallsOf(kept)}
      /\ UNCHANGED <<started, running, acks>>
    BY DEF Begin, Exact, ops, tools
<1>6. \A g \in granted : g.op # n
    BY <1>1, ConstantTypes DEF Unused, Ops, TypeOK, Grant
<1>7. \A k \in DOMAIN ops : ops[k].op # n
    <2>1. \A k \in DOMAIN ops : Told(Owner, ops[k]) \in granted
        BY DEF LeaseInv, Recorded
    <2> QED
        BY <1>6, <2>1 DEF Told
<1> HIDE DEF kept
<1>8. /\ Len(kept) \in Nat /\ DOMAIN kept = 1 .. Len(kept)
      /\ DOMAIN ops' = 1 .. Len(kept) + 1
    BY <1>3
<1>9. \A j \in DOMAIN ops' :
        \/ j \in DOMAIN kept /\ ops'[j] = kept[j] /\ \E k \in DOMAIN ops : ops'[j] = ops[k]
        \/ j = Len(kept) + 1 /\ ops'[j] = o
    BY <1>3, <1>4, <1>8
<1>10. \A k \in DOMAIN ops : ops[k].status = "active" =>
        \E j \in DOMAIN ops' : ops'[j] = ops[k]
    BY <1>3, <1>4, <1>8
<1>11. Fenced'
    <2>1. ASSUME NEW g \in granted, Current(g)
          PROVE  Current(g)'
        BY <1>3, <1>10, <2>1 DEF Current, Exact
    <2>2. Current(new)'
        <3>1. Len(kept) + 1 \in DOMAIN ops' /\ ops'[Len(kept) + 1] = o
            BY <1>3, <1>8
        <3>2. Exact(new)'
            BY <1>3, <1>5 DEF Exact
        <3> QED
            BY <1>2, <3>1, <3>2 DEF Current
    <2> QED
        BY <1>2a, <1>5, <2>1, <2>2 DEF LeaseInv, Fenced
<1>12. Recorded'
    <2>1. \A k \in DOMAIN ops : Told(Owner, ops[k]) \in granted
        BY DEF LeaseInv, Recorded
    <2>2. Owner' = Owner /\ Told(Owner, o) = new
        BY <1>2, <1>3, <1>5 DEF Owner, Told
    <2>3. ASSUME NEW k \in DOMAIN ops'
          PROVE  Told(Owner', ops'[k]) \in granted'
        BY <1>2a, <1>9, <2>1, <2>2
    <2>4. ASSUME NEW j \in DOMAIN ops', NEW k \in DOMAIN ops', ops'[j].op = ops'[k].op
          PROVE  j = k
        BY <1>2, <1>4, <1>7, <1>9, <2>4
    <2> QED
        BY <2>3, <2>4 DEF Recorded, Told
<1>13. Acknowledged'
    <2> SUFFICES ASSUME NEW a \in acks
                 PROVE  /\ \E g \in granted' : g.op = a.op
                        /\ \A k \in DOMAIN ops' : ops'[k].op = a.op => ops'[k].status = a.outcome
        BY <1>5 DEF Acknowledged
    <2>1. /\ \E g \in granted : g.op = a.op
          /\ \A k \in DOMAIN ops : ops[k].op = a.op => ops[k].status = a.outcome
        BY DEF LeaseInv, Acknowledged
    <2>2. a.op # n
        BY <1>6, <2>1
    <2> QED
        BY <1>2, <1>2a, <1>9, <2>1, <2>2
<1>14. Remembered'
    <2>1. CallsOf(kept) \cup {c} \subseteq CallsOf(ops')
        <3>1. \A j \in DOMAIN kept : j \in DOMAIN ops' /\ ops'[j].call = kept[j].call
            BY <1>3, <1>8
        <3>2. Len(kept) + 1 \in DOMAIN ops' /\ ops'[Len(kept) + 1].call = c
            BY <1>2, <1>3, <1>8
        <3> QED
            BY <3>1, <3>2 DEF CallsOf
    <2>2. ASSUME NEW g \in granted, g.generation = lease.generation
          PROVE  \/ g.call \in CallsOf(ops')
                 \/ [generation |-> g.generation, call |-> g.call] \in forgotten'
        BY <1>5, <2>1, <2>2 DEF LeaseInv, Remembered
    <2>3. \A g \in granted : g.generation <= lease.generation
        BY DEF LeaseInv, Remembered
    <2>4. new.generation = lease.generation /\ new.call = c /\ lease.generation \in Int
        BY <1>5, ConstantTypes DEF TypeOK, Generations
    <2> HIDE DEF new
    <2>5. \A g \in granted' : g \in granted \/ (g.generation = lease.generation /\ g.call = c)
        BY <1>2a, <2>4
    <2>6. \A g \in granted' : g.generation <= lease.generation
        BY <2>3, <2>4, <2>5
    <2> QED
        BY <1>3, <2>1, <2>2, <2>5, <2>6 DEF Remembered
<1>15. OneGrantPerCall'
    <2>1. \A h \in granted : h.generation = b.generation /\ h.call = c =>
            [generation |-> h.generation, call |-> h.call] \in forgotten
        BY <1>5 DEF LeaseInv, Remembered
    <2>2. new.generation = b.generation /\ new.call = c
        OBVIOUS
    <2>3. \A g, h \in granted :
            g.generation = h.generation /\ g.call = h.call /\ g.op # h.op =>
                [generation |-> g.generation, call |-> g.call] \in forgotten
        BY DEF LeaseInv, OneGrantPerCall
    <2> HIDE DEF new
    <2> SUFFICES ASSUME NEW g \in granted', NEW h \in granted',
                        g.generation = h.generation, g.call = h.call, g.op # h.op
                 PROVE  [generation |-> g.generation, call |-> g.call] \in forgotten'
        BY DEF OneGrantPerCall
    <2>4. CASE g \in granted /\ h \in granted
        BY <1>5, <2>3, <2>4
    <2>5. CASE g = new /\ h \in granted
        BY <1>5, <2>1, <2>2, <2>5
    <2>6. CASE g \in granted /\ h = new
        BY <1>5, <2>1, <2>2, <2>6
    <2> QED
        BY <1>2a, <2>4, <2>5, <2>6
<1> QED
    BY <1>5, <1>11, <1>12, <1>13, <1>14, <1>15 DEF LeaseInv, OneOutcome

LEMMA InvComplete ==
    ASSUME TypeOK, LeaseInv, NEW g \in granted, NEW outcome \in Outcomes,
           Complete(g, outcome)
    PROVE  LeaseInv'
<1>t. lease \in LeaseType
    BY DEF TypeOK, LeaseType
<1>1. /\ g.op \notin running /\ started' = started \cup {g.op}
      /\ UNCHANGED <<granted, running, forgotten>>
    BY DEF Complete, told
<1>2. PICK k \in DOMAIN ops :
        /\ ops[k].op = g.op
        /\ \/ /\ ops[k].status = "active"
              /\ lease' = [lease EXCEPT !.operations[k].status = outcome]
           \/ ops[k].status = outcome /\ UNCHANGED lease
        /\ acks' = acks \cup {[op |-> g.op, outcome |-> outcome]}
    BY DEF Complete, ops
<1>3. ops[k] \in Operation
    BY <1>t DEF LeaseType, ops
<1>4. /\ lease'.generation = lease.generation /\ lease'.session = lease.session
      /\ lease'.status = lease.status
      /\ DOMAIN ops' = DOMAIN ops
      /\ ops'[k].op = ops[k].op /\ ops'[k].call = ops[k].call /\ ops'[k].status = outcome
      /\ \A j \in DOMAIN ops : j # k => ops'[j] = ops[j]
    <2>1. CASE ops[k].status = outcome /\ UNCHANGED lease
        BY <2>1 DEF ops
    <2>2. CASE lease' = [lease EXCEPT !.operations[k].status = outcome]
        <3>1. /\ lease'.generation = lease.generation /\ lease'.session = lease.session
              /\ lease'.status = lease.status
              /\ DOMAIN ops' = DOMAIN ops
              /\ ops'[k] = [ops[k] EXCEPT !.status = outcome]
              /\ \A j \in DOMAIN ops : j # k => ops'[j] = ops[j]
            BY <1>t, <2>2, CompleteLease
        <3> QED
            BY <1>3, <3>1 DEF Operation
    <2> QED
        BY <1>2, <2>1, <2>2
<1>5. \A j \in DOMAIN ops : ops'[j].op = ops[j].op /\ ops'[j].call = ops[j].call
    BY <1>4
<1>6. Fenced'
    <2>1. ASSUME NEW h \in granted, h.op # g.op, Current(h)
          PROVE  Current(h)'
        BY <1>2, <1>4, <2>1 DEF Current, Exact
    <2> QED
        BY <1>1, <2>1 DEF LeaseInv, Fenced
<1>7. Recorded'
    <2>1. Owner' = Owner
        BY <1>4 DEF Owner
    <2>2. \A j \in DOMAIN ops : Told(Owner, ops'[j]) = Told(Owner, ops[j])
        BY <1>5 DEF Told
    <2> QED
        BY <1>1, <1>4, <1>5, <2>1, <2>2 DEF LeaseInv, Recorded, Told
<1>8. \A a \in acks : a.op = g.op => a.outcome = outcome
    <2>1. \A a \in acks : a.outcome # "active"
        BY DEF TypeOK, Outcomes
    <2>2. \A a \in acks : a.op = g.op => ops[k].status = a.outcome
        BY <1>2 DEF LeaseInv, Acknowledged
    <2> QED
        BY <1>2, <2>1, <2>2
<1>9. Acknowledged'
    <2>1. \A j \in DOMAIN ops : ops[j].op = g.op => j = k
        BY <1>2 DEF LeaseInv, Recorded
    <2> SUFFICES ASSUME NEW a \in acks'
                 PROVE  /\ \E h \in granted : h.op = a.op
                        /\ \A j \in DOMAIN ops :
                            ops'[j].op = a.op => ops'[j].status = a.outcome
        BY <1>1, <1>4 DEF Acknowledged
    <2>2. CASE a \in acks
        BY <1>2, <1>4, <1>5, <1>8, <2>2 DEF LeaseInv, Acknowledged
    <2>3. CASE a = [op |-> g.op, outcome |-> outcome]
        BY <1>2, <1>4, <1>5, <2>1, <2>3
    <2> QED
        BY <1>2, <2>2, <2>3
<1>10. Remembered'
    <2>1. CallsOf(ops') = CallsOf(ops)
        BY <1>4, <1>5 DEF CallsOf
    <2> QED
        BY <1>1, <1>4, <2>1 DEF LeaseInv, Remembered
<1>11. OneOutcome'
    BY <1>2, <1>8 DEF LeaseInv, OneOutcome
<1> QED
    BY <1>1, <1>6, <1>7, <1>9, <1>10, <1>11 DEF LeaseInv, OneGrantPerCall

LEMMA InvStep == TypeOK /\ LeaseInv /\ [Next]_vars => LeaseInv'
<1> SUFFICES ASSUME TypeOK, LeaseInv, [Next]_vars
             PROVE  LeaseInv'
    OBVIOUS
<1>1. ASSUME NEW i \in Asks, NEW r \in Request(offered \cup {NoConflict}), Bind(i, r)
      PROVE  LeaseInv'
    BY <1>1, InvBind
<1>2. CASE BindDenied \/ Edit \/ UNCHANGED vars
    <2>1. UNCHANGED <<lease, granted, started, running, acks, forgotten>>
        BY <1>2 DEF BindDenied, Edit, vars, told, tools
    <2> QED
        BY <2>1, InvQuiet DEF ops
<1>3. ASSUME \E b \in issued : Renew(b)
      PROVE  LeaseInv'
    <2>1. /\ lease' = [lease EXCEPT !.left = Ttl]
          /\ UNCHANGED <<granted, started, running, acks, forgotten>>
        BY <1>3 DEF Renew, told, tools
    <2> QED
        BY <2>1, InvQuiet DEF TypeOK, ops
<1>4. ASSUME NEW b \in issued, Release(b)
      PROVE  LeaseInv'
    BY <1>4, InvRelease
<1>5. ASSUME NEW b \in issued, NEW c \in Calls, Begin(b, c)
      PROVE  LeaseInv'
    BY <1>5, InvBegin
<1>6. ASSUME NEW b \in issued, NEW c \in Calls, BeginAgain(b, c)
      PROVE  LeaseInv'
    <2>1. PICK k \in DOMAIN ops : granted' = granted \cup {Told(b, ops[k])}
        BY <1>6 DEF BeginAgain, ops
    <2>2. Told(b, ops[k]) = Told(Owner, ops[k])
        BY <1>6 DEF BeginAgain, Exact, Told, Owner
    <2>3. granted' = granted
        BY <2>1, <2>2 DEF LeaseInv, Recorded
    <2> QED
        BY <1>6, <2>3, InvQuiet DEF BeginAgain, ops, tools
<1>7. ASSUME NEW g \in granted, StartTool(g)
      PROVE  LeaseInv'
    <2>1. /\ g.op \notin started /\ started' = started \cup {g.op}
          /\ running' = running \cup {g.op}
          /\ UNCHANGED <<lease, granted, acks, forgotten>>
        BY <1>7 DEF StartTool, told
    <2>2. Fenced'
        BY <2>1 DEF LeaseInv, Fenced, Current, Exact, ops
    <2> QED
        BY <2>1, <2>2 DEF LeaseInv, Recorded, Acknowledged, Remembered, OneOutcome,
           OneGrantPerCall, Owner, CallsOf, ops
<1>8. ASSUME NEW g \in granted, NEW outcome \in Outcomes, Complete(g, outcome)
      PROVE  LeaseInv'
    BY <1>8, InvComplete
<1>9. ASSUME NEW o \in running, EndTool(o)
      PROVE  LeaseInv'
    <2>1. running' = running \ {o} /\ UNCHANGED <<lease, granted, started, acks, forgotten>>
        BY <1>9 DEF EndTool, told
    <2>2. Fenced'
        BY <2>1 DEF LeaseInv, Fenced, Current, Exact, ops
    <2> QED
        BY <2>1, <2>2 DEF LeaseInv, Recorded, Acknowledged, Remembered, OneOutcome,
           OneGrantPerCall, Owner, CallsOf, ops
<1>10. CASE Tick
    <2>1. /\ lease' = [lease EXCEPT !.left = @ - 1]
          /\ UNCHANGED <<granted, started, running, acks, forgotten>>
        BY <1>10 DEF Tick, told, tools
    <2> QED
        BY <2>1, InvQuiet DEF TypeOK, ops
<1> QED
    BY <1>1, <1>2, <1>3, <1>4, <1>5, <1>6, <1>7, <1>8, <1>9, <1>10 DEF Next

LEMMA LeaseInvariant == Spec => []LeaseInv
BY InvInit, InvStep, LeaseTypes, PTL DEF Spec

-----------------------------------------------------------------------------
(* Theorems                                                                *)

\* A tool that runs works under an active record of the current binding, so no
\* two sessions mutate a worktree at a time, whatever expired, was repeated or
\* came late (workspace_lease.rs:984, 1022, 1487).
THEOREM LeaseFence == Spec => []RunningIsFenced
<1>1. LeaseInv => RunningIsFenced
    BY DEF LeaseInv, Fenced, Current, RunningIsFenced, ops
<1> QED
    BY <1>1, LeaseInvariant, PTL

\* One outcome is acknowledged for an operation (workspace_lease.rs:1366).
THEOREM LeaseOutcomes == Spec => []OneOutcome
<1>1. LeaseInv => OneOutcome
    BY DEF LeaseInv
<1> QED
    BY <1>1, LeaseInvariant, PTL

\* A call is granted one operation unless compaction forgot it
\* (workspace_lease.rs:1227, 1248).
THEOREM LeaseGrants == Spec => []OneGrantPerCall
<1>1. LeaseInv => OneGrantPerCall
    BY DEF LeaseInv
<1> QED
    BY <1>1, LeaseInvariant, PTL

LEMMA HandoverStep ==
    ASSUME TypeOK, [Next]_vars, lease'.generation # lease.generation, dirty,
           lease.session \in Sessions, lease'.session # lease.session
    PROVE  \/ lease.status = "released"
           \/ /\ asked'[lease'.ask].conflict = CurrentConflict
              /\ CurrentConflict \in offered
<1>1. PICK i \in Asks, r \in Request(offered \cup {NoConflict}) : Bind(i, r)
    <2>t. lease \in LeaseType
        BY DEF TypeOK, LeaseType
    <2>1. ASSUME NEW b, NEW c, Begin(b, c)
          PROVE  lease'.generation = lease.generation
        BY <2>1, <2>t DEF Begin, LeaseType
    <2>2. ASSUME NEW g, NEW outcome, Complete(g, outcome)
          PROVE  lease'.generation = lease.generation
        BY <2>2, <2>t DEF Complete, LeaseType
    <2>3. ASSUME NEW b, Renew(b) \/ Release(b)
          PROVE  lease'.generation = lease.generation
        BY <2>3, <2>t DEF Renew, Release, LeaseType
    <2>4. ASSUME Tick
          PROVE  lease'.generation = lease.generation
        BY <2>4, <2>t DEF Tick, LeaseType
    <2> QED
        BY <2>1, <2>2, <2>3, <2>4
           DEF Next, BindDenied, BeginAgain, StartTool, EndTool, Edit, vars
<1>2. /\ asked' = [asked EXCEPT ![i] = r] /\ lease'.ask = i /\ lease'.session = r.session
      /\ MayBind(r)
    BY <1>1 DEF Bind
<1>3. asked'[i] = r
    BY <1>2 DEF TypeOK
<1>4. SamePrincipal(r) \/ Handoff(r) \/ Takeover(r)
    BY <1>2 DEF MayBind
<1>5. r.conflict \in offered \cup {NoConflict}
    BY DEF Request
<1> QED
    BY <1>2, <1>3, <1>4, <1>5 DEF SamePrincipal, Handoff, Takeover

\* Unfinished files change hands only by a release or by an approved takeover of
\* exactly this binding at exactly this commit (workspace_lease.rs:963-1063).
THEOREM LeaseHandover == Spec => HandoverIsDeliberate
<1>1. TypeOK /\ [Next]_vars =>
        [ /\ lease'.generation # lease.generation
          /\ dirty /\ lease.session \in Sessions /\ lease'.session # lease.session
          => \/ lease.status = "released"
             \/ /\ asked'[lease'.ask].conflict = CurrentConflict
                /\ CurrentConflict \in offered ]_vars
    BY HandoverStep
<1> QED
    BY <1>1, LeaseTypes, PTL DEF Spec, HandoverIsDeliberate

=============================================================================
