---------------------------- MODULE MutationLock ----------------------------
(***************************************************************************)
(* What operation leases promise the sessions that share a machine: a      *)
(* lease is a lock on one declared work context.  A session holds at most  *)
(* one, the contexts held at the same time do not conflict, and a lease    *)
(* keeps its context until it ends.  How leases end (completion, expiry,   *)
(* reconciliation, revocation) is left open, and any number may end in one *)
(* step because every locked section of the code first maintains the       *)
(* whole registry.                                                         *)
(***************************************************************************)
EXTENDS WorkContext

CONSTANTS
    Sessions,
    LeaseIds,
    Contexts,   \* the contexts that can be locked
    None        \* the lease is not held

VARIABLE held   \* the holder and the locked context of every lease

Holder == [session : Sessions, context : Contexts]

Init == held = [l \in LeaseIds |-> None]

Keep(L) == [l \in LeaseIds |-> IF l \in L THEN held[l] ELSE None]

\* All leases end but the ones in L.
Release(L) == held' = Keep(L)

\* A session that keeps nothing locks a context no kept lease conflicts with.
Grant(L, l, s, context) ==
    /\ l \notin L
    /\ \A m \in L : held[m] # None =>
        held[m].session # s /\ ~Conflict(context, held[m].context)
    /\ held' = [Keep(L) EXCEPT ![l] = [session |-> s, context |-> context]]

Next ==
    \E L \in SUBSET LeaseIds :
        \/ Release(L)
        \/ \E l \in LeaseIds, s \in Sessions, context \in Contexts :
            Grant(L, l, s, context)

Spec == Init /\ [][Next]_held

=============================================================================
