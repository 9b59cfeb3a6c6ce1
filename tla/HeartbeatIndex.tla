--------------------------- MODULE HeartbeatIndex ---------------------------
(***************************************************************************)
(* The private liveness index of agent-session's coordination store        *)
(* (coordination/heartbeat_state.rs).                                      *)
(*                                                                         *)
(* Two files sit side by side: registry.json, the transaction owner,       *)
(* replaced atomically under the registry flock, and broker-state.json, a  *)
(* small projection of it that heartbeat sidecars read every two seconds   *)
(* without the flock.  Saving the registry is therefore a sequence of up   *)
(* to four atomic file replacements, and the process may fail or be killed *)
(* between any two of them, while readers look at whatever is on disk.     *)
(*                                                                         *)
(* A broker's authority is its (incarnation, generation, capability        *)
(* digest) triple, one value of Authorities here.  What a handler changes  *)
(* in the registry before it calls save() is left open: any registry.      *)
(***************************************************************************)
EXTENDS Naturals

CONSTANTS
    Sessions,       \* session identifiers
    Authorities,    \* (incarnation, generation, capability digest) triples
    NoAuthority,    \* the empty capability digest of a revoked broker
    BrokerStates,   \* the broker states that occur
    None,           \* no entry, no file
    MaxCommits      \* bound: registry.json replacements in a behaviour

ASSUME NoAuthorityAssumption == NoAuthority \notin Authorities
ASSUME MaxCommitsAssumption == MaxCommits \in Nat

LiveStates == {"starting", "recovering", "ready"}

\* A broker entry of the registry, or None when the session has none.
Broker == [authority : Authorities \cup {NoAuthority}, state : BrokerStates]
Brokers == [Sessions -> Broker \cup {None}]

\* The part of the registry the index is a projection of; version stands for
\* the file's identity (device, inode, size, mtime): 0 is "no file".
Registry == [brokers : Brokers, events : BOOLEAN]

Owner == [authority : Authorities, state : BrokerStates]
Owners == [Sessions -> Owner \cup {None}]

\* State of broker-state.json; stamp 0 is completion_registry = None.
IndexState == [owners : Owners, pending : BOOLEAN, stamp : Nat]

ASSUME NoneAssumption == None \notin Broker \cup Owner \cup IndexState

EmptyRegistry == [brokers |-> [s \in Sessions |-> None], events |-> FALSE]

\* Owner entries the registry's brokers give rise to.
LiveOwner(b) ==
    /\ b # None
    /\ b.state \in LiveStates
    /\ b.authority # NoAuthority

\* State::from_registry.
FromRegistry(r, stamp) ==
    [owners  |-> [s \in Sessions |->
                    IF LiveOwner(r.brokers[s])
                    THEN [authority |-> r.brokers[s].authority,
                          state     |-> r.brokers[s].state]
                    ELSE None],
     pending |-> r.events,
     stamp   |-> stamp]

SameAuthority(o, p) == o # None /\ p # None /\ o.authority = p.authority

\* Mutant: the fence keeps every owner whose session survives, whatever its
\* authority.
FencedBySession(previous, nxt) ==
    [owners  |-> [s \in Sessions |->
                    IF previous.owners[s] # None /\ nxt.owners[s] # None
                    THEN previous.owners[s] ELSE None],
     pending |-> previous.pending \/ nxt.pending,
     stamp   |-> previous.stamp]

\* The state published before the commit: owners the next registry keeps with
\* the same authority, and a completion bit that is already raised.
Fenced(previous, nxt) ==
    [owners  |-> [s \in Sessions |->
                    IF SameAuthority(previous.owners[s], nxt.owners[s])
                    THEN previous.owners[s] ELSE None],
     pending |-> previous.pending \/ nxt.pending,
     stamp   |-> previous.stamp]

EmptyIndex == [owners  |-> [s \in Sessions |-> None],
               pending |-> FALSE, stamp |-> 0]

VARIABLES
    registry,   \* the committed registry.json
    version,    \* identity of that file; 0 while it does not exist
    index,      \* broker-state.json, or None while it does not exist
    pc,         \* where the holder of the registry flock is; "free": nobody
    next,       \* the registry the holder is saving
    reader,     \* the sidecar's check: "idle", "absent" or "loaded"
    seen,       \* the index state that check has loaded
    legacy      \* a binary from before the index has replaced the registry

vars == <<registry, version, index, pc, next, reader, seen, legacy>>

TypeOK ==
    /\ registry \in Registry
    /\ version \in 0 .. MaxCommits
    /\ index \in IndexState \cup {None}
    /\ pc \in {"free", "held", "fence", "commit", "publish"}
    /\ next \in Registry
    /\ reader \in {"idle", "absent", "loaded"}
    /\ seen \in IndexState
    /\ legacy \in BOOLEAN

\* A fresh state directory, or one an older binary has used: a registry on
\* disk and no index.
Init ==
    /\ registry \in Registry
    /\ version \in 0 .. 1
    /\ version <= MaxCommits
    /\ version = 0 => registry = EmptyRegistry
    /\ index = None
    /\ pc = "free"
    /\ next = EmptyRegistry
    /\ reader = "idle"
    /\ seen = EmptyIndex
    /\ legacy = FALSE

-----------------------------------------------------------------------------
(* The holder of the registry flock.                                       *)

Release == pc' = "free" /\ next' = EmptyRegistry

\* lock_registry*: the registry on disk is loaded.
Lock ==
    /\ pc = "free"
    /\ pc' = "held"
    /\ next' = registry
    /\ UNCHANGED <<legacy, registry, version, index, reader, seen>>

\* Full maintenance that renewed nothing installs the missing projection.
Initialize ==
    /\ pc = "held"
    /\ index = None
    /\ index' = FromRegistry(registry, version)
    /\ UNCHANGED <<legacy, registry, version, pc, next, reader, seen>>

\* save() -> persist_with_commit: a missing index is first seeded from the
\* committed registry, when there is one.
Seed ==
    /\ pc = "held"
    /\ \E r \in Registry : next' = r
    /\ pc' = "fence"
    /\ index' = IF index = None /\ version # 0
                THEN FromRegistry(registry, version) ELSE index
    /\ UNCHANGED <<legacy, registry, version, reader, seen>>

PublishFence ==
    /\ pc = "fence"
    /\ pc' = "commit"
    /\ index' = Fenced(IF index = None THEN EmptyIndex ELSE index,
                       FromRegistry(next, 0))
    /\ UNCHANGED <<legacy, registry, version, next, reader, seen>>

Commit ==
    /\ pc = "commit"
    /\ version < MaxCommits
    /\ pc' = "publish"
    /\ registry' = next
    /\ version' = version + 1
    /\ UNCHANGED <<legacy, index, next, reader, seen>>

PublishNext ==
    /\ pc = "publish"
    /\ index' = FromRegistry(next, version)
    /\ Release
    /\ UNCHANGED <<legacy, registry, version, reader, seen>>

\* drain_completion_events that found nothing to save: refresh_completion
\* re-reads the queue and keeps the index's authority as it is.
RefreshCompletion ==
    /\ pc = "held"
    /\ index' = [IF index = None THEN FromRegistry(registry, version) ELSE index
                    EXCEPT !.pending = registry.events, !.stamp = version]
    /\ Release
    /\ UNCHANGED <<legacy, registry, version, reader, seen>>

\* The handler returns without saving, a write fails and the error propagates,
\* or the process dies: the flock is released, the files stay as they are.
FailOrCrash ==
    /\ pc # "free"
    /\ Release
    /\ UNCHANGED <<legacy, registry, version, index, reader, seen>>

\* A binary from before the index replaces the registry under the same flock.
LegacyCommit ==
    /\ pc = "free"
    /\ version < MaxCommits
    /\ registry' \in Registry
    /\ version' = version + 1
    /\ UNCHANGED <<index, pc, next, reader, seen>>
    /\ legacy' = TRUE

-----------------------------------------------------------------------------
(* A heartbeat sidecar, which never takes the flock.                       *)

\* load(): the index file, or, when it is missing, the registry snapshot,
\* read by a second step.
LoadIndex ==
    /\ reader = "idle"
    /\ IF index = None THEN reader' = "absent" /\ seen' = EmptyIndex
                       ELSE reader' = "loaded" /\ seen' = index
    /\ UNCHANGED <<legacy, registry, version, index, pc, next>>

LoadSnapshot ==
    /\ reader = "absent"
    /\ reader' = "loaded"
    /\ seen' = FromRegistry(registry, 0)
    /\ UNCHANGED <<legacy, registry, version, index, pc, next>>

\* Mutant: the raised bit alone decides.
DrainNeededByBit == seen.pending

\* completion_drain_needed, evaluated on what was loaded and on the registry
\* file's identity now.
DrainNeeded == seen.pending \/ seen.stamp = 0 \/ seen.stamp # version

\* The check ends; when it says so the sidecar goes on to
\* drain_completion_events, which takes the flock like any other writer.
Decide ==
    /\ reader = "loaded"
    /\ reader' = "idle"
    /\ seen' = EmptyIndex
    /\ UNCHANGED <<legacy, registry, version, index, pc, next>>

Next ==
    \/ Lock \/ Initialize \/ Seed \/ PublishFence \/ Commit \/ PublishNext
    \/ RefreshCompletion \/ FailOrCrash \/ LegacyCommit
    \/ LoadIndex \/ LoadSnapshot \/ Decide

Spec == Init /\ [][Next]_vars

-----------------------------------------------------------------------------
(* Properties.                                                             *)

\* Authority the index grants is authority the committed registry grants: a
\* sidecar is never authorized by a revoked or replaced broker, nor by one
\* whose registration was not committed, wherever a save stopped, as long as no
\* older binary has written the registry.
AuthorityIsCommitted ==
    ~legacy /\ index # None =>
        \A s \in Sessions :
            index.owners[s] # None =>
                /\ LiveOwner(registry.brokers[s])
                /\ registry.brokers[s].authority = index.owners[s].authority

\* A completion bit that is down and carries the identity of the registry on
\* disk speaks the truth about its queue, older writers included.
QuietIndexIsCurrent ==
    index # None /\ index.stamp # 0 /\ index.stamp = version
        => index.pending \/ ~registry.events

\* The same of the copy a sidecar holds while it compares file identities: a
\* sidecar skips the drain only when no completion event is queued.
SkipIsSafe ==
    reader = "loaded" /\ ~DrainNeeded => ~registry.events

=============================================================================
