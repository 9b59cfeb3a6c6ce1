--------------------------- MODULE MCNotification ---------------------------
(***************************************************************************)
(* TLC instances of Notification.                                          *)
(***************************************************************************)
EXTENDS Notification

\* Every category of mail under every policy.
EveryKind == [quiet : BOOLEAN, urgent : BOOLEAN, interval : {0, Interval}]

\* Routine and urgent mail under a routine window.
Windowed == [quiet : {FALSE}, urgent : BOOLEAN, interval : {Interval}]

=============================================================================
