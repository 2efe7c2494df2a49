--------------------------- MODULE MCDataRefresh ---------------------------
(* Instances of DataRefresh for TLC.                                        *)
EXTENDS DataRefresh, TLC

CONSTANTS prices, listing, sched, nobody

\* Two of the six datasets: the weekly one that ignores its context, and after
\* it in the cycle a daily one that has a manual route.
TwoTasks == <<listing, prices>>
Hours == prices :> 1 @@ listing :> 2
=============================================================================
