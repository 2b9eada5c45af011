------------------------------ MODULE KeptLease -----------------------------
(* What the leases of jobs promise to the workers that want to execute them, *)
(* without saying how a lease is kept alive: only a free one is taken, it    *)
(* does not end by itself while a worker with its id keeps it, and nobody    *)
(* takes it away but a worker that had found its own id in it.               *)
EXTENDS JobIds

CONSTANTS
    Workers,
    IdOf,           \* IdOf[w]: the id that w writes into a lease
    NoHolder        \* the lease is free

VARIABLES
    key,            \* key[j]: the id in the lease of j
    at,             \* at[j][w]: where w is in an execution of j
    keeps           \* keeps[j]: those that keep the lease alive, if it has their id

leaseVars == <<key, at, keeps>>

Init ==
    /\ key = [j \in Jobs |-> NoHolder]
    /\ at = [j \in Jobs |-> [w \in Workers |-> "away"]]
    /\ keeps = [j \in Jobs |-> {}]

Set(j, id)        == key' = [key EXCEPT ![j] = id]
Goto(w, j, place) == at' = [at EXCEPT ![j][w] = place]
Keep(w, j)        == keeps' = [keeps EXCEPT ![j] = @ \cup {w}]
Drop(w, j)        == keeps' = [keeps EXCEPT ![j] = @ \ {w}]

Take(w, j) ==
    /\ at[j][w] = "away" /\ key[j] = NoHolder
    /\ Goto(w, j, "works")
    /\ Set(j, IdOf[w]) /\ Keep(w, j)

Find(w, j) ==
    /\ at[j][w] = "works" /\ key[j] = IdOf[w]
    /\ Goto(w, j, "deletes")
    /\ UNCHANGED <<key, keeps>>

Delete(w, j) ==     \* whoever has it by now
    /\ at[j][w] = "deletes"
    /\ Goto(w, j, "away")
    /\ Set(j, NoHolder) /\ Drop(w, j)

Leave(w, j) ==      \* without the lease, or as it dies
    /\ at[j][w] # "away"
    /\ Goto(w, j, "away")
    /\ Drop(w, j)
    /\ UNCHANGED key

LetGo(w, j) ==      \* it works on, but keeps nothing alive
    /\ Drop(w, j)
    /\ UNCHANGED <<key, at>>

Expire(j) ==
    /\ key[j] # NoHolder
    /\ \A w \in keeps[j] : IdOf[w] # key[j]
    /\ Set(j, NoHolder)
    /\ UNCHANGED <<at, keeps>>

Next ==
    \E j \in Jobs :
        \/ \E w \in Workers : \/ Take(w, j) \/ Find(w, j) \/ Delete(w, j)
                              \/ Leave(w, j) \/ LetGo(w, j)
        \/ Expire(j)

Spec == Init /\ [][Next]_leaseVars
=============================================================================
