-------------------------- MODULE MCAutoResume --------------------------
(***************************************************************************)
(* TLC instance of AutoResume: three turns of a Codex or a Claude session, *)
(* enough for a chain of capacity failures one longer than the budget.     *)
(***************************************************************************)
EXTENDS AutoResume
=============================================================================
