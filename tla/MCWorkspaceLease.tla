-------------------------- MODULE MCWorkspaceLease --------------------------
(***************************************************************************)
(* The TLC instance of WorkspaceLease.                                     *)
(***************************************************************************)
EXTENDS WorkspaceLease, TLC

\* Neither sessions nor calls are told apart.
Symmetry == Permutations(Sessions) \cup Permutations(Calls)

=============================================================================
