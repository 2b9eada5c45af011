--------------------------- MODULE MCOrchestrator ---------------------------
(* Small instances of Orchestrator.                                          *)
EXTENDS Orchestrator, TLC

CONSTANTS j1, j2, j3, w1, w2, c1, none

OwnIds == [w \in Workers |-> w]

TwinWorkers == Permutations(Workers)

NoParents == [j \in Jobs |-> {}]
(* j2 depends on j1, and j3 on itself.                                       *)
ChainAndLoop == [j \in Jobs |-> IF j = j1 THEN {} ELSE IF j = j2 THEN {j1} ELSE {j3}]
Ranks == [j \in Jobs |-> IF j = j1 THEN 1 ELSE IF j = j2 THEN 3 ELSE 2]

NoPoint == {}

(* Points of a worker at which a failed call loses no job.                   *)
SafeWorkerPoints == Points \ {"requeue", "dlq"}
SafeSchedPoints == {"check", "commit"}

(* A failed call or a crash while the job is executed.                       *)
WhileExecuting == {"exec"}

(* RUNNING is committed, the job not enqueued yet.                           *)
BeforeEnqueue == {"enqueue"}
=============================================================================
