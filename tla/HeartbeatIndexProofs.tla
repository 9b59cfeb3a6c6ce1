------------------------ MODULE HeartbeatIndexProofs ------------------------
(***************************************************************************)
(* Proofs about HeartbeatIndex, for any sessions, authorities and number   *)
(* of registry replacements.                                               *)
(***************************************************************************)
EXTENDS HeartbeatIndex, TLAPS

\* The owners of an index are granted by a registry with the same authority.
Granted(owners, r) ==
    \A s \in Sessions :
        owners[s] # None =>
            /\ LiveOwner(r.brokers[s])
            /\ r.brokers[s].authority = owners[s].authority

\* What a save in progress has already made true: once the fence is out the
\* index grants nothing the registry being saved drops, and the bit is up if
\* that registry queues an event.
FenceInv ==
    /\ pc \in {"commit", "publish"} => index # None
    /\ pc = "publish" => registry = next
    /\ ~legacy /\ pc \in {"commit", "publish"}
            => Granted(index.owners, next)

\* No stamp is ahead of the registry, and a stamp that is current vouches for
\* the bit that goes with it.
Vouches(x) ==
    /\ x.stamp <= version
    /\ x.stamp # 0 /\ x.stamp = version => x.pending \/ ~registry.events

StampInv ==
    /\ index # None => Vouches(index)
    /\ Vouches(seen)

IInv == TypeOK /\ AuthorityIsCommitted /\ FenceInv /\ StampInv

-----------------------------------------------------------------------------
(* Lemmas about the operators.                                             *)

\* A projection is a well-formed index state.
LEMMA FromRegistryType ==
    ASSUME NEW r \in Registry, NEW v \in Nat
    PROVE  FromRegistry(r, v) \in IndexState
<1>1. \A s \in Sessions : LiveOwner(r.brokers[s]) =>
          [authority |-> r.brokers[s].authority, state |-> r.brokers[s].state]
              \in Owner
  BY DEF Registry, Brokers, Broker, LiveOwner, Owner
<1> QED
  BY <1>1 DEF FromRegistry, IndexState, Owners, Registry

\* A projection grants exactly what its registry grants.
LEMMA FromRegistryGranted ==
    ASSUME NEW r \in Registry, NEW v
    PROVE  Granted(FromRegistry(r, v).owners, r)
BY DEF FromRegistry, Granted

\* A fence is a well-formed index state, grants a subset of what went before
\* and nothing that the next registry drops.
LEMMA FencedType ==
    ASSUME NEW x \in IndexState, NEW y \in IndexState
    PROVE  Fenced(x, y) \in IndexState
BY DEF Fenced, IndexState, Owners

LEMMA FencedGranted ==
    ASSUME NEW x \in IndexState, NEW r \in Registry, NEW q \in Registry,
           Granted(x.owners, q)
    PROVE  /\ Granted(Fenced(x, FromRegistry(r, 0)).owners, q)
           /\ Granted(Fenced(x, FromRegistry(r, 0)).owners, r)
BY NoneAssumption DEF Fenced, FromRegistry, Granted, SameAuthority, IndexState, Owners,
   Registry

LEMMA EmptyTypes ==
    /\ EmptyRegistry \in Registry
    /\ EmptyIndex \in IndexState
BY DEF EmptyRegistry, EmptyIndex, Registry, Brokers, IndexState, Owners

-----------------------------------------------------------------------------
LEMMA InitIInv == Init => IInv
<1> SUFFICES ASSUME Init PROVE IInv
  OBVIOUS
<1>1. TypeOK
  <2>1. legacy \in BOOLEAN
    BY DEF Init
  <2>2. /\ registry \in Registry /\ version \in 0 .. MaxCommits
        /\ index \in IndexState \cup {None} /\ pc = "free"
        /\ next \in Registry /\ reader = "idle" /\ seen \in IndexState
    BY EmptyTypes, MaxCommitsAssumption DEF Init
  <2> QED
    BY <2>1, <2>2 DEF TypeOK
<1>2. AuthorityIsCommitted
  BY DEF Init, AuthorityIsCommitted
<1>3. FenceInv /\ StampInv
  BY MaxCommitsAssumption DEF Init, FenceInv, StampInv, Vouches, EmptyIndex
<1> QED
  BY <1>1, <1>2, <1>3 DEF IInv

LEMMA NextIInv == IInv /\ [Next]_vars => IInv'
<1> SUFFICES ASSUME IInv, [Next]_vars PROVE IInv'
  OBVIOUS
<1> USE NoneAssumption, MaxCommitsAssumption, EmptyTypes
<1> USE DEF IInv, TypeOK, FenceInv, StampInv, Vouches, Release
<1>1. CASE Lock
  BY <1>1 DEF Lock, AuthorityIsCommitted, Granted
<1>2. CASE Initialize
  <2>1. FromRegistry(registry, version) \in IndexState
    BY FromRegistryType
  <2>2. Granted(FromRegistry(registry, version).owners, registry)
    BY FromRegistryGranted
  <2> QED
    BY <1>2, <2>1, <2>2
       DEF Initialize, AuthorityIsCommitted, Granted, FromRegistry
<1>3. CASE Seed
  <2>1. FromRegistry(registry, version) \in IndexState
    BY FromRegistryType
  <2>2. Granted(FromRegistry(registry, version).owners, registry)
    BY FromRegistryGranted
  <2> QED
    BY <1>3, <2>1, <2>2 DEF Seed, AuthorityIsCommitted, Granted, FromRegistry
<1>4. CASE PublishFence
  <2> DEFINE x == IF index = None THEN EmptyIndex ELSE index
  <2>1. x \in IndexState /\ FromRegistry(next, 0) \in IndexState
    BY FromRegistryType
  <2>2. Fenced(x, FromRegistry(next, 0)) \in IndexState
    BY <2>1, FencedType
  <2>3. ASSUME ~legacy
        PROVE /\ Granted(index'.owners, registry)
              /\ Granted(index'.owners, next)
    <3>1. Granted(x.owners, registry)
      BY <2>3 DEF Granted, AuthorityIsCommitted, EmptyIndex
    <3> QED
      BY <1>4, <2>1, <3>1, FencedGranted DEF PublishFence
  <2>4. Vouches(x)
    BY DEF EmptyIndex
  <2>5. Vouches(index)'
    BY <1>4, <2>4, <2>1 DEF PublishFence, Fenced, IndexState
  <2> QED
    BY <1>4, <2>2, <2>3, <2>5
       DEF PublishFence, AuthorityIsCommitted, Granted
<1>5. CASE Commit
  BY <1>5 DEF Commit, AuthorityIsCommitted, Granted, IndexState
<1>6. CASE PublishNext
  <2>1. FromRegistry(next, version) \in IndexState
    BY FromRegistryType
  <2>2. Granted(FromRegistry(next, version).owners, next)
    BY FromRegistryGranted
  <2> QED
    BY <1>6, <2>1, <2>2
       DEF PublishNext, AuthorityIsCommitted, Granted, FromRegistry
<1>7. CASE RefreshCompletion
  <2> DEFINE x == IF index = None THEN FromRegistry(registry, version) ELSE index
  <2>1. x \in IndexState
    BY FromRegistryType
  <2>2. index' = [x EXCEPT !.pending = registry.events, !.stamp = version]
    BY <1>7 DEF RefreshCompletion
  <2>3. /\ index' \in IndexState
        /\ index'.owners = x.owners
        /\ index'.pending = registry.events
        /\ index'.stamp = version
    <3> HIDE DEF x
    <3>1. registry.events \in BOOLEAN /\ version \in Nat
      BY DEF Registry
    <3> QED
      BY <2>1, <2>2, <3>1 DEF IndexState
  <2>4. ~legacy => Granted(x.owners, registry)
    BY FromRegistryGranted DEF AuthorityIsCommitted, Granted
  <2> QED
    BY <1>7, <2>3, <2>4 DEF RefreshCompletion, AuthorityIsCommitted, Granted
<1>8. CASE FailOrCrash
  BY <1>8 DEF FailOrCrash, AuthorityIsCommitted
<1>9. CASE LegacyCommit
  BY <1>9 DEF LegacyCommit, AuthorityIsCommitted, IndexState
<1>10. CASE LoadIndex
  <2>1. CASE index = None
    <3>1. /\ UNCHANGED <<legacy, registry, version, index, pc, next>>
          /\ reader' = "absent"
          /\ seen' = EmptyIndex
      BY <1>10, <2>1 DEF LoadIndex
    <3>2. seen'.stamp = 0
      BY <3>1 DEF EmptyIndex
    <3> QED
      BY <3>1, <3>2 DEF AuthorityIsCommitted
  <2>2. CASE index # None
    BY <1>10, <2>2 DEF LoadIndex, AuthorityIsCommitted
  <2> QED
    BY <2>1, <2>2
<1>11. CASE LoadSnapshot
  <2>1. FromRegistry(registry, 0) \in IndexState
    BY FromRegistryType
  <2> QED
    BY <1>11, <2>1 DEF LoadSnapshot, AuthorityIsCommitted, FromRegistry
<1>12. CASE Decide
  BY <1>12 DEF Decide, AuthorityIsCommitted, EmptyIndex
<1>13. CASE UNCHANGED vars
  BY <1>13 DEF vars, AuthorityIsCommitted, Granted
<1> QED
  BY <1>1, <1>2, <1>3, <1>4, <1>5, <1>6, <1>7, <1>8, <1>9, <1>10, <1>11,
     <1>12, <1>13 DEF Next

-----------------------------------------------------------------------------
\* The inductive invariant holds of every behaviour of the two files.
THEOREM Invariance == Spec => []IInv
BY InitIInv, NextIInv, PTL DEF Spec

\* State variables keep their types (heartbeat_state.rs, every publication).
THEOREM TypeCorrect == Spec => []TypeOK
<1>1. IInv => TypeOK
  BY DEF IInv
<1> QED
  BY <1>1, Invariance, PTL

\* persist_with_commit's ordering claim: the index never retains authority the
\* registry revoked nor grants authority it has not committed.
THEOREM AuthoritySafe == Spec => []AuthorityIsCommitted
<1>1. IInv => AuthorityIsCommitted
  BY DEF IInv
<1> QED
  BY <1>1, Invariance, PTL

\* completion_drain_needed answers "no" only of a registry with an empty
\* queue, whatever binaries write the store.
THEOREM SkipSafe == Spec => []SkipIsSafe
<1>1. IInv => SkipIsSafe
  BY DEF IInv, StampInv, Vouches, SkipIsSafe, DrainNeeded
<1> QED
  BY <1>1, Invariance, PTL

=============================================================================
