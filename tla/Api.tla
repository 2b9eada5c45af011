-------------------------------- MODULE Api ---------------------------------
(* The requests that change jobs: POST /jobs/, /jobs/dag, /jobs/{id}/cancel  *)
(* and /jobs/{id}/retry.  A client is a thread of the API's pool handling    *)
(* one request after the other.                                              *)
EXTENDS JobStore, JobStream

CONSTANT Clients

VARIABLES
    cpc,        \* the next call of the request c handles
    subject,    \* the job of the request, as a set of at most one
    toRead,     \* parents are_dependencies_met has yet to read
    got         \* the row as update_job_status or cancel_job read it

apiVars == <<cpc, subject, toRead, got>>

NothingGot == [status |-> "ABSENT", retries |-> 0]

ApiTypeOK ==
    /\ cpc \in [Clients -> {"ready", "created", "cancelCommit", "retryDeps",
                            "retryCommit", "enqueue"}]
    /\ subject \in [Clients -> SUBSET Jobs]
    /\ toRead \in [Clients -> SUBSET Jobs]
    /\ got \in [Clients -> RowType]

ApiInit ==
    /\ cpc = [c \in Clients |-> "ready"]
    /\ subject = [c \in Clients |-> {}]
    /\ toRead = [c \in Clients |-> {}]
    /\ got = [c \in Clients |-> NothingGot]

Answer(c) ==
    /\ cpc' = [cpc EXCEPT ![c] = "ready"]
    /\ subject' = [subject EXCEPT ![c] = {}]
    /\ toRead' = [toRead EXCEPT ![c] = {}]
    /\ got' = [got EXCEPT ![c] = NothingGot]

Continue(c, from, to) ==
    /\ cpc[c] = from
    /\ cpc' = [cpc EXCEPT ![c] = to]

(* create_job up to its commit; without "enqueue" that is the whole request. *)
SubmitJob(c, j, enqueue) ==
    /\ CreateRow(j)
    /\ IF enqueue
       THEN /\ Continue(c, "ready", "created")
            /\ subject' = [subject EXCEPT ![c] = {j}]
            /\ toRead' = [toRead EXCEPT ![c] = Parents[j]]
            /\ UNCHANGED got
       ELSE cpc[c] = "ready" /\ UNCHANGED apiVars
    /\ UNCHANGED streamVars

SubmitDag(c, S) ==
    /\ cpc[c] = "ready"
    /\ CreateDag(S)
    /\ UNCHANGED <<apiVars, streamVars>>

(* are_dependencies_met: one session per parent.                             *)
ParentMet(c, from, p) ==
    /\ cpc[c] = from
    /\ p \in toRead[c]
    /\ status[p] = "COMPLETED"
    /\ toRead' = [toRead EXCEPT ![c] = @ \ {p}]
    /\ UNCHANGED <<cpc, subject, got, storeVars, streamVars>>

(* create_job returns without enqueueing; retry_job raises ValueError.       *)
ParentUnmet(c, from, p) ==
    /\ cpc[c] = from
    /\ p \in toRead[c]
    /\ status[p] # "COMPLETED"
    /\ Answer(c)
    /\ UNCHANGED <<storeVars, streamVars>>

CreatedRunnable(c) ==
    /\ toRead[c] = {}
    /\ Continue(c, "created", "enqueue")
    /\ UNCHANGED <<subject, toRead, got, storeVars, streamVars>>

EnqueueSubject(c, j) ==
    /\ cpc[c] = "enqueue"
    /\ j \in subject[c]
    /\ Enqueue(j)
    /\ Answer(c)
    /\ UNCHANGED storeVars

CancelRead(c, j) ==
    /\ status[j] \in JobStatus \ Terminal
    /\ Continue(c, "ready", "cancelCommit")
    /\ subject' = [subject EXCEPT ![c] = {j}]
    /\ got' = [got EXCEPT ![c] = Row(j)]
    /\ UNCHANGED <<toRead, storeVars, streamVars>>

CancelCommit(c, j) ==
    /\ cpc[c] = "cancelCommit"
    /\ j \in subject[c]
    /\ CommitStatus(j, "CANCELLED", got[c])
    /\ Answer(c)
    /\ UNCHANGED streamVars

RetryCheck(c, j) ==
    /\ status[j] \in {"FAILED", "CANCELLED", "RETRYING"}
    /\ Continue(c, "ready", "retryDeps")
    /\ subject' = [subject EXCEPT ![c] = {j}]
    /\ toRead' = [toRead EXCEPT ![c] = Parents[j]]
    /\ UNCHANGED <<got, storeVars, streamVars>>

(* The dependencies are met; update_job_status(PENDING) reads the row.       *)
RetryRead(c, j) ==
    /\ toRead[c] = {}
    /\ j \in subject[c]
    /\ Continue(c, "retryDeps", "retryCommit")
    /\ got' = [got EXCEPT ![c] = Row(j)]
    /\ UNCHANGED <<subject, toRead, storeVars, streamVars>>

RetryCommit(c, j) ==
    /\ j \in subject[c]
    /\ CommitStatus(j, "PENDING", got[c])
    /\ Continue(c, "retryCommit", "enqueue")
    /\ got' = [got EXCEPT ![c] = NothingGot]
    /\ UNCHANGED <<subject, toRead, streamVars>>

(* A call of the request fails, or the API process dies.                     *)
RequestFails(c) ==
    /\ cpc[c] # "ready"
    /\ Answer(c)
    /\ UNCHANGED <<storeVars, streamVars>>

Submission(c) ==
    \/ \E j \in Jobs, enqueue \in BOOLEAN : SubmitJob(c, j, enqueue)
    \/ \E S \in SUBSET Jobs : SubmitDag(c, S)

Command(c) == \E j \in Jobs : CancelRead(c, j) \/ RetryCheck(c, j)

RequestStep(c) ==
    \/ CreatedRunnable(c)
    \/ \E p \in Jobs, from \in {"created", "retryDeps"} :
          ParentMet(c, from, p) \/ ParentUnmet(c, from, p)
    \/ \E j \in Jobs : \/ EnqueueSubject(c, j)
                       \/ CancelCommit(c, j)
                       \/ RetryRead(c, j)
                       \/ RetryCommit(c, j)
=============================================================================
