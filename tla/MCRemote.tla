------------------------------ MODULE MCRemote ------------------------------
(***************************************************************************)
(* TLC instances of Remote.                                                *)
(***************************************************************************)
EXTENDS Remote

\* What the actions and the properties of the pair instance tell apart: not
\* the number of attempts nor which of the two failures it led to, not which
\* refusal leads to a failure, not parent and lost.
Outcome(state) == IF state \in Failed THEN "failed" ELSE state
ItemView(item) ==
    <<Outcome(item.state), item.key, item.to, item.expires, item.changed>>
DrainView ==
    <<drain.at, drain.msg,
      IF drain.answer \in {"replaced", "refused", "expired"} THEN "failed"
      ELSE drain.answer>>
PairView ==
    <<now, requests, [m \in Msgs |-> ItemView(items[m])], retained, DrainView,
      late, notices, src, dst, inbox, receipts, arrivals, evicted, crashes>>

=============================================================================
