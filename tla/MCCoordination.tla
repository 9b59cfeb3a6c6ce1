--------------------------- MODULE MCCoordination ---------------------------
(***************************************************************************)
(* TLC instances of Coordination.  One repository with two directories;    *)
(* contexts are chosen so that some pairs conflict by scope, some by       *)
(* provider reference, some by checkout and some not at all.               *)
(***************************************************************************)
EXTENDS Coordination, TLC

CONSTANTS repo, dirA, dirB, pr1

Prefix(path) == [repository |-> repo, kind |-> "path_prefix", value |-> path]
Exact(path) == [repository |-> repo, kind |-> "path_exact", value |-> path]

Area(scopes, refs) ==
    [repositories |-> {repo}, worktrees |-> {}, provider_refs |-> refs, scopes |-> scopes]

\* Two areas that do not conflict with each other, only with themselves.
MCInputs == {Area({Prefix(<<dirA>>)}, {}), Area({Prefix(<<dirB>>)}, {pr1})}
MCTargetSets == {{Exact(<<dirA, dirB>>)}, {Prefix(<<dirB>>)}}
MCProviderTargetSets == {{}}

\* One area and one target, where contexts are not the point.
OneInput == {Area({Prefix(<<dirA>>)}, {pr1})}
OneTargetSet == {{Exact(<<dirA>>)}}
OneProviderTargetSet == {{pr1}}

\* One checkout per session.
MCCheckout == [s \in Sessions |-> s]

-----------------------------------------------------------------------------
(* Sessions that are launched, ready and at work.                          *)

CONSTANT launched   \* the launch every session is at

ReadyInit ==
    /\ registry = [brokers |-> [s \in Sessions |->
                        [inc |-> launched, state |-> "ready", cap |-> TRUE,
                         timed |-> FALSE, lost |-> None]],
                   claims  |-> [c \in ClaimIds |-> None],
                   leases  |-> [l \in LeaseIds |-> None],
                   events  |-> [l \in LeaseIds |-> <<>>]]
    /\ record = [s \in Sessions |-> launched]
    /\ running = [s \in Sessions |-> launched]
    /\ resuming = [s \in Sessions |-> None]
    /\ phase = [s \in Sessions |-> "working"]
    /\ armed = [s \in Sessions |-> {}]
    /\ beat = [s \in Sessions |-> launched]

\* One session whose turns, descendants and heartbeats come and go.
TurnsNext ==
    \/ \E R \in Swept, s \in Sessions :
        (\E input \in Inputs : ClaimWork(R, s, input)) \/ Operations(R, s)
    \/ Completions
    \/ \E s \in Sessions : Sidecars(s)
    \/ World

TurnsSpec == ReadyInit /\ [][TurnsNext]_vars /\ Fairness

\* Two sessions that compete for the same area.
PairNext ==
    \/ \E R \in Swept :
        \/ \E s \in Sessions :
            \/ \E input \in Inputs :
                ClaimWork(R, s, input) \/ SetDeclared(R, s, input, FALSE, FALSE)
            \/ ReleaseClaim(R, s, 1)
            \/ Operations(R, s)
        \/ \E l \in LeaseIds : CompleteEnqueue(R, l, "pass")
        \/ DrainQueue(R)
        \/ MaintainOnly(R)
    \/ \E R \in Maintained, s \in Sessions : Revoke(R, s, launched)
    \/ \E s \in Sessions : RuntimeExits(s) \/ BeatLapses(s) \/ TurnChanges(s)
    \/ Tick

PairSpec == ReadyInit /\ [][PairNext]_vars

Symmetry ==
    Permutations(Sessions) \cup Permutations(Incarnations)
        \cup Permutations(ClaimIds) \cup Permutations(LeaseIds)

=============================================================================
