---------------------------- MODULE DagExecution ----------------------------
(* What the orchestrator promises of a workflow: a job starts only after     *)
(* each of its parents has succeeded once, and what has started or succeeded *)
(* stays so.  Attempts, retries, messages and processes are not visible.     *)
EXTENDS JobIds

CONSTANT Parents

VARIABLES started, succeeded

Init == started = {} /\ succeeded = {}

Start(j) ==
    /\ Parents[j] \subseteq succeeded
    /\ started' = started \cup {j}
    /\ UNCHANGED succeeded

Succeed(j) ==
    /\ j \in started
    /\ succeeded' = succeeded \cup {j}
    /\ UNCHANGED started

Next == \E j \in Jobs : Start(j) \/ Succeed(j)

Spec == Init /\ [][Next]_<<started, succeeded>>
=============================================================================
