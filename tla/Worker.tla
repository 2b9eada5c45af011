------------------------------- MODULE Worker -------------------------------
(* worker.py: run_worker and _process_message.  A worker is a process with   *)
(* no memory of its own between two messages; every step is one call on the  *)
(* database, the stream or the lease, so that the calls of other processes   *)
(* may fall between any two of them.                                         *)
EXTENDS JobStore, JobStream, JobLease

CONSTANTS
    Workers,    \* worker processes
    WorkerId,   \* WorkerId[w]: the id w was started with ("worker-1" by default)
    MaxRetries, \* MAX_JOB_RETRIES
    ClaimBatch, \* count of claim_stale_messages
    ClaimBusy   \* may a message pass the idle threshold while a worker has it?

ASSUME WorkerIdAssumption == WorkerId \in [Workers -> HolderIds]
ASSUME MaxRetriesAssumption == MaxRetries \in Nat
ASSUME ClaimAssumption == ClaimBatch \in Nat \ {0} /\ ClaimBusy \in BOOLEAN

VARIABLES
    pc,         \* pc[w]: the next call w makes
    msg,        \* id of the message in hand, 0 for none
    batch,      \* reclaimed messages w has yet to process
    att,        \* attempt number of the run, 0 for none
    seen,       \* the jobs row as update_job_status read it
    beating     \* the lease of w is kept alive: heartbeat running, w not paused

workerVars == <<pc, msg, batch, att, seen, beating>>

(* Program points, by the statement of _process_message they stand before.   *)
Marking   == {"mark", "markCommit"}         \* update_job_status(RUNNING)
Starting  == {"start", "startCommit"}       \* start_run
Completing == {"complete", "completeCommit"} \* update_job_status(COMPLETED)
Retrying  == {"retry", "retryCommit"}       \* update_job_status(RETRYING)
Failing   == {"fail", "failCommit"}         \* update_job_status(FAILED)
InTry == Marking \cup Starting \cup Completing \cup Retrying \cup Failing
           \cup {"exec", "decide", "retryAck", "requeue", "dlq", "ack"}
Releasing == {"release", "delete"}          \* the finally block
Leased == InTry \cup Releasing
Unleased == {"fetched", "skip", "lease"}
Points == {"idle"} \cup Unleased \cup Leased

NoRow == [status |-> "ABSENT", retries |-> 0]

WorkerTypeOK ==
    /\ pc \in [Workers -> Points]
    /\ msg \in [Workers -> Nat]
    /\ batch \in [Workers -> SUBSET Nat]
    /\ att \in [Workers -> Nat]
    /\ seen \in [Workers -> RowType]
    /\ beating \in [Workers -> BOOLEAN]

WorkerInit ==
    /\ pc = [w \in Workers |-> "idle"]
    /\ msg = [w \in Workers |-> 0]
    /\ batch = [w \in Workers |-> {}]
    /\ att = [w \in Workers |-> 0]
    /\ seen = [w \in Workers |-> NoRow]
    /\ beating = [w \in Workers |-> FALSE]

JobOf(w) == entries[msg[w]]
InHand(w) == {msg[w]} \cup batch[w]
Held(w) == IF pc[w] = "idle" THEN {} ELSE InHand(w)
Works(w, j) == msg[w] # 0 /\ JobOf(w) = j

-----------------------------------------------------------------------------
(* Control *)

At(w, p) == pc[w] = p
Goto(w, p) == pc' = [pc EXCEPT ![w] = p]

(* A call that changes nothing the worker remembers.                         *)
Step(w, from, to) ==
    /\ At(w, from)
    /\ Goto(w, to)
    /\ UNCHANGED <<msg, batch, att, seen, beating>>

(* db.get(JobRow) at the head of update_job_status.                          *)
ReadRow(w, from, to) ==
    /\ At(w, from)
    /\ Goto(w, to)
    /\ seen' = [seen EXCEPT ![w] = Row(JobOf(w))]
    /\ UNCHANGED <<msg, batch, att, beating, storeVars, streamVars, lease>>

WriteRow(w, from, target, to) ==
    /\ At(w, from)
    /\ CommitStatus(JobOf(w), target, seen[w])
    /\ Goto(w, to)
    /\ seen' = [seen EXCEPT ![w] = NoRow]
    /\ UNCHANGED <<msg, batch, att, beating, streamVars, lease>>

(* _process_message returns: the next reclaimed message, or run_worker's loop. *)
Return(w) ==
    /\ IF batch[w] = {}
       THEN /\ Goto(w, "idle")
            /\ msg' = [msg EXCEPT ![w] = 0]
            /\ UNCHANGED batch
       ELSE \E next \in batch[w] :
                /\ \A m \in batch[w] : next <= m
                /\ Goto(w, "fetched")
                /\ msg' = [msg EXCEPT ![w] = next]
                /\ batch' = [batch EXCEPT ![w] = @ \ {next}]
    /\ att' = [att EXCEPT ![w] = 0]
    /\ seen' = [seen EXCEPT ![w] = NoRow]
    /\ beating' = [beating EXCEPT ![w] = FALSE]

(* An exception inside the try block: the finally block still runs, and the  *)
(* rest of the reclaimed batch is forgotten.                                 *)
Raise(w) ==
    /\ Goto(w, "release")
    /\ batch' = [batch EXCEPT ![w] = {}]
    /\ UNCHANGED <<msg, att, seen, beating>>

(* The worker's memory is gone: a crash, or an exception outside the try.    *)
Forget(w) ==
    /\ Goto(w, "idle")
    /\ msg' = [msg EXCEPT ![w] = 0]
    /\ batch' = [batch EXCEPT ![w] = {}]
    /\ att' = [att EXCEPT ![w] = 0]
    /\ seen' = [seen EXCEPT ![w] = NoRow]
    /\ beating' = [beating EXCEPT ![w] = FALSE]

-----------------------------------------------------------------------------
(* run_worker: a message comes from read() or from claim_stale_messages()    *)

Fetch(w, first, rest) ==
    /\ At(w, "idle")
    /\ Goto(w, "fetched")
    /\ msg' = [msg EXCEPT ![w] = first]
    /\ batch' = [batch EXCEPT ![w] = rest]
    /\ UNCHANGED <<att, seen, beating>>

ReadMessage(w) ==
    /\ \E m \in Ids : Deliver(m) /\ Fetch(w, m, {})
    /\ UNCHANGED <<storeVars, lease>>

(* Messages that may have been idle for JOB_STREAM_CLAIM_MIN_IDLE_MS.        *)
Idle == {m \in pending : \/ ClaimBusy
                         \/ \A w \in Workers : m \notin InHand(w)}

ClaimMessages(w) ==
    /\ \E S \in SUBSET Idle :
          /\ S # {} /\ Cardinality(S) <= ClaimBatch
          /\ Claim(S)
          /\ \E first \in S : /\ \A m \in S : first <= m
                              /\ Fetch(w, first, S \ {first})
    /\ UNCHANGED <<storeVars, lease>>

(* A call that claims nothing still drops the trimmed entries.               *)
ClaimNothing(w) ==
    /\ At(w, "idle")
    /\ Claim({})
    /\ UNCHANGED <<storeVars, lease, workerVars>>

-----------------------------------------------------------------------------
(* _process_message *)

(* get_job, and the branches on the status it returned.  Rows are never      *)
(* deleted and a message is only sent for a committed row, so the branch for *)
(* an unknown job is not reached.                                            *)
GetJob(w) ==
    /\ Step(w, "fetched", IF status[JobOf(w)] \in Terminal THEN "skip" ELSE "lease")
    /\ UNCHANGED <<storeVars, streamVars, lease>>

SkipOnly(w) ==          \* mutant: a settled job's message is not acknowledged
    /\ At(w, "skip")
    /\ Return(w)
    /\ UNCHANGED <<storeVars, streamVars, lease>>

AckSkipped(w) ==
    /\ At(w, "skip")
    /\ Ack(msg[w])
    /\ Return(w)
    /\ UNCHANGED <<storeVars, lease>>

AcquireLease(w) ==
    /\ At(w, "lease")
    /\ Acquire(JobOf(w), WorkerId[w])
    /\ Goto(w, "mark")
    /\ beating' = [beating EXCEPT ![w] = TRUE]
    /\ UNCHANGED <<msg, batch, att, seen, storeVars, streamVars>>

LeaseBusyAcks(w) ==     \* mutant: the message of a busy job is acknowledged
    /\ At(w, "lease")
    /\ ~Free(JobOf(w))
    /\ Ack(msg[w])
    /\ Return(w)
    /\ UNCHANGED <<storeVars, lease>>

LeaseBusy(w) ==
    /\ At(w, "lease")
    /\ ~Free(JobOf(w))
    /\ Return(w)
    /\ UNCHANGED <<storeVars, streamVars, lease>>

MarkRunning(w) ==
    \/ ReadRow(w, "mark", "markCommit")
    \/ WriteRow(w, "markCommit", "RUNNING", "start")

ReadAttempt(w) ==
    /\ At(w, "start")
    /\ att' = [att EXCEPT ![w] = LatestAttempt(JobOf(w)) + 1]
    /\ Goto(w, "startCommit")
    /\ UNCHANGED <<msg, batch, seen, beating, storeVars, streamVars, lease>>

StartAnyRun(w) ==       \* mutant: no unique constraint on (job_id, attempt)
    /\ Step(w, "startCommit", "exec")
    /\ InsertRun(JobOf(w))
    /\ UNCHANGED <<streamVars, lease>>

StartRun(w) ==
    /\ Step(w, "startCommit", "exec")
    /\ AttemptIsFree(JobOf(w), att[w])
    /\ InsertRun(JobOf(w))
    /\ UNCHANGED <<streamVars, lease>>

(* The unique constraint on (job_id, attempt) raises IntegrityError.         *)
AttemptTaken(w) ==
    /\ At(w, "startCommit")
    /\ ~AttemptIsFree(JobOf(w), att[w])
    /\ Raise(w)
    /\ UNCHANGED <<storeVars, streamVars, lease>>

(* runner.run, then finish_run with the result.                              *)
RunSucceeds(w) ==
    /\ Step(w, "exec", "complete")
    /\ FinishRun(JobOf(w), att[w], "COMPLETED")
    /\ UNCHANGED <<streamVars, lease>>

RunFailsUnseen(w) ==    \* mutant: the result of the runner is not looked at
    /\ Step(w, "exec", "complete")
    /\ FinishRun(JobOf(w), att[w], "FAILED")
    /\ UNCHANGED <<streamVars, lease>>

RunFails(w) ==
    /\ Step(w, "exec", "decide")
    /\ FinishRun(JobOf(w), att[w], "FAILED")
    /\ UNCHANGED <<streamVars, lease>>

MarkCompleted(w) ==
    \/ ReadRow(w, "complete", "completeCommit")
    \/ WriteRow(w, "completeCommit", "COMPLETED", "ack")

(* handle_execution_failure after finish_run: get_job decides, and           *)
(* update_job_status reads the row again.                                    *)
DecideOffByOne(w) ==    \* mutant: "<=" in handle_execution_failure
    /\ Step(w, "decide", IF retries[JobOf(w)] <= MaxRetries THEN "retry" ELSE "fail")
    /\ UNCHANGED <<storeVars, streamVars, lease>>

Decide(w) ==
    /\ Step(w, "decide", IF retries[JobOf(w)] < MaxRetries THEN "retry" ELSE "fail")
    /\ UNCHANGED <<storeVars, streamVars, lease>>

MarkRetrying(w) ==
    \/ ReadRow(w, "retry", "retryCommit")
    \/ WriteRow(w, "retryCommit", "RETRYING", "retryAck")

AckRetried(w) ==
    /\ Step(w, "retryAck", "requeue")
    /\ Ack(msg[w])
    /\ UNCHANGED <<storeVars, lease>>

(* After the back-off, with the lease still held.                            *)
Requeue(w) ==
    /\ Step(w, "requeue", "release")
    /\ Enqueue(JobOf(w))
    /\ UNCHANGED <<storeVars, lease>>

MarkFailedOnly(w) ==    \* mutant: no record in the dead letter stream
    \/ ReadRow(w, "fail", "failCommit")
    \/ WriteRow(w, "failCommit", "FAILED", "ack")

MarkFailed(w) ==
    \/ ReadRow(w, "fail", "failCommit")
    \/ WriteRow(w, "failCommit", "FAILED", "dlq")

DeadLetter(w) ==
    /\ Step(w, "dlq", "ack")
    /\ SendToDlq(JobOf(w), msg[w])
    /\ UNCHANGED <<storeVars, lease>>

AckDone(w) ==
    /\ Step(w, "ack", "release")
    /\ Ack(msg[w])
    /\ UNCHANGED <<storeVars, lease>>

(* release(): GET, and DEL when the value read is the worker's own id.       *)
CheckLease(w) ==
    /\ At(w, "release")
    /\ \/ /\ HeldBy(JobOf(w), WorkerId[w])
          /\ Step(w, "release", "delete")
       \/ /\ ~HeldBy(JobOf(w), WorkerId[w])
          /\ Return(w)
    /\ UNCHANGED <<storeVars, streamVars, lease>>

DeleteLease(w) ==
    /\ At(w, "delete")
    /\ Delete(JobOf(w))
    /\ Return(w)
    /\ UNCHANGED <<storeVars, streamVars>>

-----------------------------------------------------------------------------
(* The lease's clock.  A heartbeat renews every LEASE_HEARTBEAT_SECONDS a    *)
(* lease of LEASE_TTL_SECONDS, so a lease only expires when no worker with   *)
(* its id that works on the job keeps it alive.                              *)

LeaseExpires(j) ==
    /\ \A w \in Workers : ~(beating[w] /\ Works(w, j) /\ HeldBy(j, WorkerId[w]))
    /\ Expire(j)
    /\ UNCHANGED <<storeVars, streamVars, workerVars>>

(* renew() finds another value in the key, and the heartbeat thread ends.    *)
HeartbeatLost(w) ==
    /\ beating[w]
    /\ ~HeldBy(JobOf(w), WorkerId[w])
    /\ beating' = [beating EXCEPT ![w] = FALSE]
    /\ UNCHANGED <<pc, msg, batch, att, seen, storeVars, streamVars, lease>>

(* The heartbeat thread dies of an exception, or the process is paused for   *)
(* longer than the TTL; _process_message goes on either way.                 *)
Stall(w) ==
    /\ beating[w]
    /\ beating' = [beating EXCEPT ![w] = FALSE]
    /\ UNCHANGED <<pc, msg, batch, att, seen, storeVars, streamVars, lease>>

(* A call fails inside the try block: the exception runs the finally block.  *)
CallFails(w) ==
    /\ pc[w] \in InTry
    /\ Raise(w)
    /\ UNCHANGED <<storeVars, streamVars, lease>>

(* The process dies and is started again, or a call fails outside the try.   *)
WorkerCrash(w) ==
    /\ ~At(w, "idle")
    /\ Forget(w)
    /\ UNCHANGED <<storeVars, streamVars, lease>>

WorkerStep(w) ==
    \/ GetJob(w) \/ AckSkipped(w)
    \/ AcquireLease(w) \/ LeaseBusy(w)
    \/ MarkRunning(w) \/ ReadAttempt(w) \/ StartRun(w) \/ AttemptTaken(w)
    \/ RunSucceeds(w) \/ RunFails(w)
    \/ MarkCompleted(w)
    \/ Decide(w) \/ MarkRetrying(w) \/ AckRetried(w) \/ Requeue(w)
    \/ MarkFailed(w) \/ DeadLetter(w)
    \/ AckDone(w)
    \/ CheckLease(w) \/ DeleteLease(w)
=============================================================================
