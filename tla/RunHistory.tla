----------------------------- MODULE RunHistory -----------------------------
(* What the runs table promises of a job: its attempts are numbered in the   *)
(* order in which they start, each gets one result at most, and none is ever *)
(* removed or changed afterwards.  An attempt whose worker died stays open.  *)
EXTENDS JobIds, Naturals, Sequences

VARIABLE history    \* history[j][n]: the status of attempt n of job j

Init == history = [j \in Jobs |-> <<>>]

Start(j) == history' = [history EXCEPT ![j] = Append(@, "RUNNING")]

Finish(j, n, result) ==
    /\ history[j][n] = "RUNNING"
    /\ history' = [history EXCEPT ![j][n] = result]

Next ==
    \E j \in Jobs :
        \/ Start(j)
        \/ \E n \in DOMAIN history[j] : \E result \in {"COMPLETED", "FAILED"} :
               Finish(j, n, result)

Spec == Init /\ [][Next]_history
=============================================================================
