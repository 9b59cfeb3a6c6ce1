--------------------------- MODULE WorkspaceLease ---------------------------
(***************************************************************************)
(* The lease on one physical Git worktree                                  *)
(* (crates/agent-hook/src/workspace_lease.rs).                             *)
(*                                                                         *)
(* A session binds the worktree, begins an operation before each mutating  *)
(* tool call, completes it afterwards, renews the binding while it works   *)
(* and releases it.  Every command locks the worktree's state file, reads  *)
(* it, decides and replaces it atomically, so it is one step; a killed     *)
(* command has either happened or not.  Any command may be repeated or     *)
(* come late: a caller keeps everything it was ever told.                  *)
(*                                                                         *)
(* The caller is the DSH runtime, outside this repository.  It starts a    *)
(* tool only under a grant, at most once for each operation, and completes *)
(* the operation when the tool is over.  Resolving targets and their       *)
(* tokens, unmanaged directories and v1's read-only calls do not touch the *)
(* state.  parent_session_id is part of the session.                       *)
(***************************************************************************)
EXTENDS Integers, Sequences

CONSTANTS
    Sessions,
    Calls,           \* request identities of begin
    MaxAsk,          \* bound: different bind requests that succeed
    MaxBind,         \* bound: bindings
    MaxOp,           \* bound: operations
    MaxHead,         \* bound: commits
    Ttl,             \* LEASE_TTL_SECONDS
    MAX_OPERATIONS

ASSUME WorkspaceLeaseAssumption ==
    /\ {MaxAsk, MaxBind, MaxOp, MaxHead, Ttl, MAX_OPERATIONS} \subseteq Nat
    /\ 0 < Ttl /\ 0 < MAX_OPERATIONS
    /\ "none" \notin Sessions

VARIABLES
    lease,     \* the state file; generation 0 is no file
    dirty,     \* the worktree has uncommitted changes
    head,      \* its branch and commit
    asked,     \* bind requests that succeeded
    offered,   \* takeover conflicts shown with a denial
    issued,    \* bindings told to sessions
    granted,   \* operations told to sessions
    started,   \* operations whose tool was started, or will never be
    running,   \* operations whose tool runs
    acks,      \* completions acknowledged
    forgotten  \* calls whose terminal record was compacted away (history)

vars == <<lease, dirty, head, asked, offered, issued, granted, started, running,
          acks, forgotten>>

Asks == 1 .. MaxAsk
Ops == 1 .. MaxOp
Generations == 0 .. MaxBind
Heads == 0 .. MaxHead
Outcomes == {"succeeded", "failed", "cancelled"}

Conflict == [generation : Generations, head : Heads]
NoConflict == [generation |-> 0, head |-> 0]
\* exact: by a resolved target, with the takeover capability.
Request(conflicts) ==
    {r \in [session : Sessions, resume : BOOLEAN, exact : BOOLEAN, conflict : conflicts] :
        r.conflict # NoConflict => r.exact}
NoRequest == [session |-> "none", resume |-> FALSE, exact |-> FALSE,
              conflict |-> NoConflict]
Binding == [session : Sessions, generation : Generations]
Operation == [op : Ops, call : Calls, status : Outcomes \cup {"active"}]
Grant == [session : Sessions, generation : Generations, op : Ops, call : Calls]

TypeOK ==
    /\ lease \in [generation : Generations, session : Sessions \cup {"none"},
                  status : {"none", "active", "released"}, ask : 0 .. MaxAsk,
                  left : 0 .. Ttl, operations : Seq(Operation)]
    /\ Len(lease.operations) <= MAX_OPERATIONS
    /\ dirty \in BOOLEAN
    /\ head \in Heads
    /\ asked \in [Asks -> Request(Conflict) \cup {NoRequest}]
    /\ offered \subseteq Conflict
    /\ issued \subseteq Binding
    /\ granted \subseteq Grant
    /\ started \subseteq Ops
    /\ running \subseteq Ops
    /\ acks \subseteq [op : Ops, outcome : Outcomes]
    /\ forgotten \subseteq [generation : Generations, call : Calls]

Init ==
    /\ lease = [generation |-> 0, session |-> "none", status |-> "none",
                ask |-> 0, left |-> 0, operations |-> <<>>]
    /\ dirty \in BOOLEAN
    /\ head = 0
    /\ asked = [i \in Asks |-> NoRequest]
    /\ offered = {}
    /\ issued = {}
    /\ granted = {}
    /\ started = {}
    /\ running = {}
    /\ acks = {}
    /\ forgotten = {}

world == <<dirty, head>>
told == <<offered, issued, granted>>
tools == <<started, running>>

-----------------------------------------------------------------------------
(* bind                                                                    *)

Live == lease.status = "active" /\ lease.left > 0

\* An operation without a terminal outcome.
Busy == \E k \in DOMAIN lease.operations : lease.operations[k].status = "active"

\* takeover_conflict
CurrentConflict == [generation |-> lease.generation, head |-> head]

\* Mutant: the digest forgets the commit.
TakeoverAnyCommit(r) ==
    r.conflict # NoConflict /\ r.conflict.generation = lease.generation

Takeover(r) == r.conflict # NoConflict /\ r.conflict = CurrentConflict

\* The bind of this request would only repeat its answer.
Bound(i) == lease.ask = i /\ Live

SamePrincipal(r) == r.resume /\ lease.session = r.session /\ ~Busy

Handoff(r) == r.exact /\ lease.status = "released" /\ ~Busy

\* Who may have the worktree as it is.
MayBind(r) ==
    /\ IF r.conflict # NoConflict THEN Live /\ Takeover(r) /\ ~Busy ELSE ~Live
    /\ ~(lease.status = "active" /\ Busy)
    /\ dirty => SamePrincipal(r) \/ Handoff(r) \/ Takeover(r)

\* Request i with content r comes for the first time or again.  A caller asks
\* for a takeover only of a conflict it was shown.
Bind(i, r) ==
    /\ \/ asked[i] = r
       \/ asked[i] = NoRequest /\ \A j \in Asks : j < i => asked[j] # NoRequest
    /\ ~Bound(i) /\ MayBind(r)
    /\ lease.generation < MaxBind
    /\ asked' = [asked EXCEPT ![i] = r]
    /\ lease' = [generation |-> lease.generation + 1, session |-> r.session,
                 status |-> "active", ask |-> i, left |-> Ttl, operations |-> <<>>]
    /\ issued' = issued \cup
            {[session |-> r.session, generation |-> lease'.generation]}
    /\ UNCHANGED <<world, offered, granted, tools, acks, forgotten>>

\* The denial of an exact target shows the conflict with its live owner.
BindDenied ==
    /\ Live
    /\ offered' = offered \cup {CurrentConflict}
    /\ UNCHANGED <<lease, world, asked, issued, granted, tools, acks, forgotten>>

-----------------------------------------------------------------------------
(* begin, complete, renew, release                                         *)

\* exact_binding of an active lease.
Exact(b) ==
    /\ lease.status = "active"
    /\ lease.generation = b.generation
    /\ lease.session = b.session

Told(b, o) ==
    [session |-> b.session, generation |-> b.generation, op |-> o.op, call |-> o.call]

\* A repeated begin of an operation that is not terminal.
BeginAgain(b, c) ==
    /\ Exact(b) /\ Live
    /\ \E k \in DOMAIN lease.operations :
        LET o == lease.operations[k]
        IN  /\ o.call = c /\ o.status = "active"
            /\ granted' = granted \cup {Told(b, o)}
    /\ UNCHANGED <<lease, world, asked, offered, issued, tools, acks, forgotten>>

\* compact_operations: at capacity the oldest terminal record is dropped.
Compacted(operations) ==
    LET ended == {k \in DOMAIN operations : operations[k].status # "active"}
        oldest == CHOOSE k \in ended : \A j \in ended : k <= j
    IN  IF Len(operations) < MAX_OPERATIONS \/ ended = {} THEN operations
        ELSE [k \in 1 .. Len(operations) - 1 |->
                IF k < oldest THEN operations[k] ELSE operations[k + 1]]

\* Mutant: the lookup passes over operations that are terminal.
CallsOpen(operations) ==
    {operations[k].call : k \in {j \in DOMAIN operations : operations[j].status = "active"}}

CallsOf(operations) == {operations[k].call : k \in DOMAIN operations}

\* A new operation_id.
Unused(n) == \A k \in Ops : k < n <=> \E g \in granted : g.op = k

Begin(b, c) ==
    LET kept == Compacted(lease.operations)
    IN  /\ Exact(b) /\ Live
        /\ c \notin CallsOf(lease.operations)
        /\ Len(kept) < MAX_OPERATIONS
        /\ \E n \in Ops :
            LET o == [op |-> n, call |-> c, status |-> "active"]
            IN  /\ Unused(n)
                /\ lease' = [lease EXCEPT !.operations = Append(kept, o)]
                /\ granted' = granted \cup {Told(b, o)}
        /\ forgotten' = forgotten \cup
                {[generation |-> b.generation, call |-> x] :
                    x \in CallsOf(lease.operations) \ CallsOf(kept)}
        /\ UNCHANGED <<world, asked, offered, issued, tools, acks>>

\* Mutant: the last outcome wins.
CompleteOverwrites(g, outcome) ==
    /\ g.op \notin running
    /\ Exact(g)
    /\ started' = started \cup {g.op}
    /\ \E k \in DOMAIN lease.operations :
        /\ lease.operations[k].op = g.op
        /\ lease' = [lease EXCEPT !.operations[k].status = outcome]
        /\ acks' = acks \cup {[op |-> g.op, outcome |-> outcome]}
    /\ UNCHANGED <<world, asked, told, running, forgotten>>

\* Expiry does not matter: what happened is recorded as long as nobody else
\* has the worktree.
Complete(g, outcome) ==
    /\ g.op \notin running
    /\ Exact(g)
    /\ started' = started \cup {g.op}
    /\ \E k \in DOMAIN lease.operations :
        LET o == lease.operations[k]
        IN  /\ o.op = g.op
            /\ \/ /\ o.status = "active"
                  /\ lease' = [lease EXCEPT !.operations[k].status = outcome]
               \/ o.status = outcome /\ UNCHANGED lease
            /\ acks' = acks \cup {[op |-> g.op, outcome |-> outcome]}
    /\ UNCHANGED <<world, asked, told, running, forgotten>>

Renew(b) ==
    /\ Exact(b) /\ Live
    /\ lease' = [lease EXCEPT !.left = Ttl]
    /\ UNCHANGED <<world, asked, told, tools, acks, forgotten>>

\* Mutant: a release does not look at the operations.
ReleaseBusy(b) ==
    /\ Exact(b)
    /\ lease' = [lease EXCEPT !.status = "released", !.left = 0]
    /\ UNCHANGED <<world, asked, told, tools, acks, forgotten>>

Release(b) ==
    /\ Exact(b) /\ ~Busy
    /\ lease' = [lease EXCEPT !.status = "released", !.left = 0]
    /\ UNCHANGED <<world, asked, told, tools, acks, forgotten>>

-----------------------------------------------------------------------------
(* The runtime, the worktree and time                                      *)

StartTool(g) ==
    /\ g.op \notin started
    /\ started' = started \cup {g.op}
    /\ running' = running \cup {g.op}
    /\ UNCHANGED <<lease, world, asked, told, acks, forgotten>>

EndTool(o) ==
    /\ running' = running \ {o}
    /\ UNCHANGED <<lease, world, asked, told, started, acks, forgotten>>

\* Tools, and people outside the lease, edit and commit.
Edit ==
    /\ \/ dirty' = ~dirty /\ UNCHANGED head
       \/ head < MaxHead /\ head' = head + 1 /\ dirty' = FALSE
    /\ UNCHANGED <<lease, asked, told, tools, acks, forgotten>>

Tick ==
    /\ lease.left > 0
    /\ lease' = [lease EXCEPT !.left = @ - 1]
    /\ UNCHANGED <<world, asked, told, tools, acks, forgotten>>

Next ==
    \/ \E i \in Asks, r \in Request(offered \cup {NoConflict}) : Bind(i, r)
    \/ BindDenied
    \/ \E b \in issued : Renew(b) \/ Release(b)
    \/ \E b \in issued, c \in Calls : Begin(b, c) \/ BeginAgain(b, c)
    \/ \E g \in granted : StartTool(g)
    \/ \E g \in granted, outcome \in Outcomes : Complete(g, outcome)
    \/ \E o \in running : EndTool(o)
    \/ Edit
    \/ Tick

Spec == Init /\ [][Next]_vars

-----------------------------------------------------------------------------
(* Properties                                                              *)

\* A tool that runs works for the session that has the worktree, under an
\* operation that is still recorded as active: whatever expired, was released,
\* taken over or repeated since its grant, no two sessions mutate at a time.
RunningIsFenced ==
    \A g \in granted : g.op \in running =>
        /\ Exact(g)
        /\ \E k \in DOMAIN lease.operations :
            lease.operations[k].op = g.op /\ lease.operations[k].status = "active"

\* Uncommitted changes reach another session only by a release, or by a
\* takeover of exactly this binding at exactly this commit.
HandoverIsDeliberate ==
    [][ /\ lease'.generation # lease.generation
        /\ dirty /\ lease.session \in Sessions /\ lease'.session # lease.session
        => \/ lease.status = "released"
           \/ /\ asked'[lease'.ask].conflict = CurrentConflict
              /\ CurrentConflict \in offered ]_vars

\* A call is granted one operation only, unless its record was compacted away.
OneGrantPerCall ==
    \A g, h \in granted :
        g.generation = h.generation /\ g.call = h.call /\ g.op # h.op =>
            [generation |-> g.generation, call |-> g.call] \in forgotten

\* Of the outcomes reported for an operation (a timeout, a late success) one
\* is acknowledged, every time.
OneOutcome == \A a, b \in acks : a.op = b.op => a.outcome = b.outcome

=============================================================================
