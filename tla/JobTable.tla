------------------------------ MODULE JobTable ------------------------------
(* What the table of jobs promises to those who send requests, whatever      *)
(* becomes of a request on its way: all of its jobs are there or none, an    *)
(* idempotency key is given to one job and stays with it, an answer names    *)
(* jobs that are in the table, and no row is ever removed.                   *)
EXTENDS JobIds

CONSTANTS
    Batches,        \* the sets of jobs that one request may create
    Keys, NoKey     \* idempotency keys

VARIABLES
    rows,           \* of each job: "absent", "active" or "ended"
    keyOf,          \* of each job: its key
    named           \* of each key: the jobs that answers to it have named

tableVars == <<rows, keyOf, named>>

With(k) == {j \in Jobs : rows[j] # "absent" /\ keyOf[j] = k}

Init ==
    /\ rows = [j \in Jobs |-> "absent"]
    /\ keyOf = [j \in Jobs |-> NoKey]
    /\ named = [k \in Keys |-> {}]

Submit(new, k) ==
    /\ \A j \in new : rows[j] = "absent"
    /\ k # NoKey => With(k) = {} /\ \A i, j \in new : i = j
    /\ rows' = [j \in Jobs |-> IF j \in new THEN "active" ELSE rows[j]]
    /\ keyOf' = [j \in Jobs |-> IF j \in new THEN k ELSE keyOf[j]]
    /\ UNCHANGED named

Answer(k) ==
    /\ \E jobs \in SUBSET With(k) : named' = [named EXCEPT ![k] = @ \cup jobs]
    /\ UNCHANGED <<rows, keyOf>>

(* A job ends, or is taken up again.                                         *)
Turn(j, from, to) ==
    /\ rows[j] = from
    /\ rows' = [rows EXCEPT ![j] = to]
    /\ UNCHANGED <<keyOf, named>>

Next ==
    \/ \E new \in Batches, k \in Keys \cup {NoKey} : Submit(new, k)
    \/ \E k \in Keys : Answer(k)
    \/ \E j \in Jobs : Turn(j, "active", "ended") \/ Turn(j, "ended", "active")

Spec == Init /\ [][Next]_tableVars
=============================================================================
