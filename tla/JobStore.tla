------------------------------ MODULE JobStore ------------------------------
(* The Postgres tables that every process shares (jobs, dependencies, runs)  *)
(* and the transactions JobManager makes on them.  Each method opens a fresh *)
(* session: it reads a row, assigns attributes and commits.  Under READ      *)
(* COMMITTED another commit can fall between the read and the write, so a    *)
(* read is an operator (Row) and a write takes the row as it was read.       *)
EXTENDS JobIds, Naturals, Sequences, FiniteSets

CONSTANTS
    Parents,    \* Parents[j]: the jobs that j lists in "dependencies"
    CreatedAt,  \* CreatedAt[j]: rank of j in the order (created_at, id)
    ListLimit   \* list_jobs(limit = ...), 10_000 for the scheduler

ASSUME ParentsAssumption == Parents \in [Jobs -> SUBSET Jobs]
ASSUME CreatedAtAssumption == CreatedAt \in [Jobs -> Nat]
ASSUME ListLimitAssumption == ListLimit \in Nat

VARIABLES
    status,     \* jobs.status, "ABSENT" before the row is inserted
    retries,    \* jobs.retry_count
    runs        \* runs[j][n]: status of the runs row (job j, attempt n)

storeVars == <<status, retries, runs>>

JobStatus == {"PENDING", "RUNNING", "RETRYING", "COMPLETED", "FAILED", "CANCELLED"}
Terminal  == {"COMPLETED", "FAILED", "CANCELLED"}
RunStatus == {"RUNNING", "COMPLETED", "FAILED"}

RowType == [status : JobStatus \cup {"ABSENT"}, retries : Nat]

StoreTypeOK ==
    /\ status \in [Jobs -> JobStatus \cup {"ABSENT"}]
    /\ retries \in [Jobs -> Nat]
    /\ runs \in [Jobs -> Seq(RunStatus)]

StoreInit ==
    /\ status = [j \in Jobs |-> "ABSENT"]
    /\ retries = [j \in Jobs |-> 0]
    /\ runs = [j \in Jobs |-> <<>>]

Existing == {j \in Jobs : status[j] # "ABSENT"}

-----------------------------------------------------------------------------
(* Reads *)

Row(j) == [status |-> status[j], retries |-> retries[j]]

(* list_jobs without a status filter: the ListLimit oldest rows.             *)
Listed ==
    {j \in Existing :
        Cardinality({i \in Existing : CreatedAt[i] < CreatedAt[j]}) < ListLimit}

-----------------------------------------------------------------------------
(* Commits *)

(* create_job inserts one row; the foreign key of the dependency rows makes  *)
(* the commit fail unless every parent is already in the table.              *)
CreateRow(j) ==
    /\ status[j] = "ABSENT"
    /\ Parents[j] \subseteq Existing
    /\ status' = [status EXCEPT ![j] = "PENDING"]
    /\ UNCHANGED <<retries, runs>>

(* create_dag inserts a set of rows in one transaction.  Edges may only name *)
(* nodes of the same DAG; nothing rejects a cycle.                           *)
CreateDag(S) ==
    /\ S # {}
    /\ \A j \in S : status[j] = "ABSENT" /\ Parents[j] \subseteq S
    /\ status' = [j \in Jobs |-> IF j \in S THEN "PENDING" ELSE status[j]]
    /\ UNCHANGED <<retries, runs>>

CountAllStarts(j, target, old) ==   \* mutant: every start counts as a retry
    /\ status' = IF target = old.status THEN status
                 ELSE [status EXCEPT ![j] = target]
    /\ retries' = IF target \in {"RUNNING", "RETRYING"}
                  THEN [retries EXCEPT ![j] = old.retries + 1]
                  ELSE retries
    /\ UNCHANGED runs

(* The commit of update_job_status and of cancel_job on a row read as "old". *)
(* The session only writes attributes whose value differs from the one it    *)
(* loaded, and retry_count is written as an absolute value.                  *)
CommitStatus(j, target, old) ==
    /\ status' = IF target = old.status THEN status
                 ELSE [status EXCEPT ![j] = target]
    /\ retries' = IF target = "RETRYING" THEN [retries EXCEPT ![j] = old.retries + 1]
                  ELSE retries
    /\ UNCHANGED runs

LatestAttempt(j) == Len(runs[j])

(* The insert of start_run; (job_id, attempt) is unique.                     *)
AttemptIsFree(j, attempt) == attempt = Len(runs[j]) + 1

InsertRun(j) ==
    /\ runs' = [runs EXCEPT ![j] = Append(@, "RUNNING")]
    /\ UNCHANGED <<status, retries>>

FinishRun(j, attempt, result) ==
    /\ runs' = [runs EXCEPT ![j][attempt] = result]
    /\ UNCHANGED <<status, retries>>

-----------------------------------------------------------------------------
(* What the history of runs says, independently of the status column.        *)

Attempts(j, result) == {n \in DOMAIN runs[j] : runs[j][n] = result}
Started(j)   == runs[j] # <<>>
Succeeded(j) == \E n \in DOMAIN runs[j] : runs[j][n] = "COMPLETED"
DepsSucceeded(j) == \A p \in Parents[j] : Succeeded(p)
=============================================================================
