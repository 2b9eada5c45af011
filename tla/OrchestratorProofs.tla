------------------------- MODULE OrchestratorProofs -------------------------
(* Orchestrator for all values of its constants.  First its types, and what  *)
(* all proofs share: the control flow of a worker and who writes which part  *)
(* of the state.  Then what follows from the lease: it keeps executions of   *)
(* one job apart, and with that the retry counter within its limit, as long  *)
(* as no heartbeat stops while its worker goes on.  Then the stream: with    *)
(* its workers it implements WorkQueue, and with the lease it keeps every    *)
(* job that is under way, if no message is trimmed that is still needed.  In *)
(* between, that the system implements JobTable and KeptLease.  Crashes,     *)
(* failed calls, redelivery, duplicated messages and any choice of worker    *)
(* ids, the same one for all included, are allowed.                          *)
EXTENDS Orchestrator, SequenceTheorems, TLAPS

(* A worker that is not idle has a message of the stream in hand, and so are *)
(* the messages it has reclaimed: JobOf(w) is always a job.                  *)
HandsOK ==
    \A w \in Workers : /\ pc[w] # "idle" => msg[w] \in Ids
                       /\ batch[w] \subseteq Ids

Typed == TypeOK /\ HandsOK

-----------------------------------------------------------------------------
(* The tables *)

LEMMA CommitStatusType ==
    ASSUME StoreTypeOK, NEW j \in Jobs, NEW target \in JobStatus,
           NEW old \in RowType, CommitStatus(j, target, old)
    PROVE  StoreTypeOK'
BY DEF StoreTypeOK, CommitStatus, RowType

LEMMA CreateRowType ==
    ASSUME StoreTypeOK, NEW j \in Jobs, CreateRow(j)
    PROVE  StoreTypeOK'
BY DEF StoreTypeOK, CreateRow, JobStatus

LEMMA CreateDagType ==
    ASSUME StoreTypeOK, NEW S \in SUBSET Jobs, CreateDag(S)
    PROVE  StoreTypeOK'
BY DEF StoreTypeOK, CreateDag, JobStatus

LEMMA InsertRunType ==
    ASSUME StoreTypeOK, NEW j \in Jobs, InsertRun(j)
    PROVE  StoreTypeOK'
BY DEF StoreTypeOK, InsertRun, RunStatus

LEMMA FinishRunType ==
    ASSUME StoreTypeOK, NEW j \in Jobs, NEW n \in Nat, NEW r \in RunStatus,
           FinishRun(j, n, r)
    PROVE  StoreTypeOK'
<1>1. runs[j] \in Seq(RunStatus)
  BY DEF StoreTypeOK
<1>2. [runs[j] EXCEPT ![n] = r] \in Seq(RunStatus)
  <2>1. CASE n \in 1..Len(runs[j])
    BY <1>1, <2>1, ExceptSeq
  <2>2. CASE n \notin 1..Len(runs[j])
    <3>1. [runs[j] EXCEPT ![n] = r] = runs[j]
      BY <1>1, <2>2
    <3> QED BY <1>1, <3>1
  <2> QED BY <2>1, <2>2
<1> QED BY <1>2 DEF StoreTypeOK, FinishRun

LEMMA RowOfType == ASSUME StoreTypeOK, NEW j \in Jobs PROVE Row(j) \in RowType
BY DEF StoreTypeOK, Row, RowType

-----------------------------------------------------------------------------
(* The stream: every operation keeps the messages it holds.                  *)

LEMMA EnqueueType ==
    ASSUME StreamTypeOK, NEW j \in Jobs, Enqueue(j)
    PROVE  StreamTypeOK' /\ Ids \subseteq Ids' /\ \A m \in Ids : entries'[m] = entries[m]
BY DEF StreamTypeOK, Enqueue, Ids

LEMMA DeliverType ==
    ASSUME StreamTypeOK, NEW m \in Ids, Deliver(m)
    PROVE  StreamTypeOK'
BY DEF StreamTypeOK, Deliver, Ids, Undelivered

LEMMA ClaimType ==
    ASSUME StreamTypeOK, NEW S, Claim(S)
    PROVE  StreamTypeOK' /\ S \subseteq Ids
<1>1. pending \subseteq Ids
  BY DEF StreamTypeOK, Ids
<1>2. S \subseteq pending /\ pending' \subseteq pending
  BY DEF Claim
<1> QED BY <1>1, <1>2 DEF StreamTypeOK, Claim

LEMMA AckType ==
    ASSUME StreamTypeOK, NEW m, Ack(m)
    PROVE  StreamTypeOK'
BY DEF StreamTypeOK, Ack

LEMMA SendToDlqType ==
    ASSUME StreamTypeOK, NEW j \in Jobs, NEW m \in Nat, SendToDlq(j, m)
    PROVE  StreamTypeOK'
BY DEF StreamTypeOK, SendToDlq, DlqRecord

-----------------------------------------------------------------------------
(* The workers' control *)

LEMMA JobOfType ==
    ASSUME Typed, NEW w \in Workers, pc[w] # "idle"
    PROVE  JobOf(w) \in Jobs /\ msg[w] \in Ids /\ msg[w] \in Nat
BY DEF Typed, TypeOK, HandsOK, StreamTypeOK, JobOf, Ids

LEMMA StepType ==
    ASSUME WorkerTypeOK, HandsOK, NEW w \in Workers, NEW from, NEW to \in Points,
           from # "idle", Step(w, from, to)
    PROVE  WorkerTypeOK' /\ (Ids \subseteq Ids' => HandsOK')
BY DEF WorkerTypeOK, HandsOK, Step, Goto, At

LEMMA ReturnType ==
    ASSUME WorkerTypeOK, HandsOK, NEW w \in Workers, Return(w)
    PROVE  WorkerTypeOK' /\ (Ids \subseteq Ids' => HandsOK')
<1>1. "idle" \in Points /\ "fetched" \in Points /\ NoRow \in RowType
  BY DEF Points, Unleased, NoRow, RowType
<1>2. CASE batch[w] = {}
  BY <1>1, <1>2 DEF WorkerTypeOK, HandsOK, Return, Goto
<1>3. CASE batch[w] # {}
  BY <1>1, <1>3 DEF WorkerTypeOK, HandsOK, Return, Goto
<1> QED BY <1>2, <1>3

LEMMA RaiseType ==
    ASSUME WorkerTypeOK, HandsOK, NEW w \in Workers, pc[w] # "idle", Raise(w)
    PROVE  WorkerTypeOK' /\ (Ids \subseteq Ids' => HandsOK')
<1>1. "release" \in Points
  BY DEF Points, Leased, Releasing
<1> QED BY <1>1 DEF WorkerTypeOK, HandsOK, Raise, Goto

LEMMA ForgetType ==
    ASSUME WorkerTypeOK, HandsOK, NEW w \in Workers, Forget(w)
    PROVE  WorkerTypeOK' /\ (Ids \subseteq Ids' => HandsOK')
<1>1. "idle" \in Points /\ NoRow \in RowType
  BY DEF Points, NoRow, RowType
<1> QED BY <1>1 DEF WorkerTypeOK, HandsOK, Forget, Goto

LEMMA FetchType ==
    ASSUME WorkerTypeOK, HandsOK, NEW w \in Workers, NEW first \in Ids,
           NEW rest \in SUBSET Ids, Fetch(w, first, rest)
    PROVE  WorkerTypeOK' /\ (Ids \subseteq Ids' => HandsOK')
<1>1. "fetched" \in Points /\ Ids \subseteq Nat
  BY DEF Points, Unleased, Ids
<1> QED BY <1>1 DEF WorkerTypeOK, HandsOK, Fetch, Goto

(* One step of a worker, with the parts of the state it works on.            *)
LEMMA WorkerStepType ==
    ASSUME Typed, NEW w \in Workers, WorkerStep(w)
    PROVE  /\ StoreTypeOK' /\ StreamTypeOK' /\ LeaseTypeOK'
           /\ WorkerTypeOK' /\ HandsOK'
<1> USE DEF At
<1> DEFINE Frame == StoreTypeOK /\ StreamTypeOK /\ LeaseTypeOK /\ WorkerTypeOK
<1>a. Frame /\ HandsOK
  BY DEF Typed, TypeOK
<1>b. ASSUME pc[w] # "idle" PROVE JobOf(w) \in Jobs /\ msg[w] \in Nat
  BY <1>b, JobOfType
<1>c. ASSUME UNCHANGED storeVars PROVE StoreTypeOK'
  BY <1>a, <1>c DEF storeVars, StoreTypeOK
<1>d. ASSUME UNCHANGED streamVars PROVE StreamTypeOK' /\ Ids' = Ids
  BY <1>a, <1>d DEF streamVars, StreamTypeOK, Ids
<1>e. ASSUME UNCHANGED lease PROVE LeaseTypeOK'
  BY <1>a, <1>e DEF LeaseTypeOK
<1>p. /\ {"skip", "lease", "mark", "markCommit", "start", "startCommit", "exec"} \subseteq Points
      /\ {"complete", "completeCommit", "decide", "retry", "retryCommit"} \subseteq Points
      /\ {"retryAck", "requeue", "fail", "failCommit", "dlq", "ack"} \subseteq Points
      /\ {"release", "delete"} \subseteq Points
  BY DEF Points, Unleased, Leased, InTry, Releasing, Marking, Starting, Completing,
         Retrying, Failing
<1>q. NoRow \in RowType /\ {"RUNNING", "COMPLETED", "RETRYING", "FAILED"} \subseteq JobStatus
      /\ {"COMPLETED", "FAILED"} \subseteq RunStatus
  BY DEF NoRow, RowType, JobStatus, RunStatus
<1>r. ASSUME NEW from, NEW to \in Points, from # "idle", ReadRow(w, from, to)
      PROVE  Frame' /\ HandsOK'
  <2>1. pc[w] # "idle"
    BY <1>r DEF ReadRow
  <2>2. Row(JobOf(w)) \in RowType
    BY <1>a, <1>b, <2>1, RowOfType
  <2>3. StoreTypeOK' /\ StreamTypeOK' /\ Ids' = Ids /\ LeaseTypeOK'
    BY <1>c, <1>d, <1>e, <1>r DEF ReadRow
  <2> QED
    BY <1>a, <1>r, <2>2, <2>3 DEF ReadRow, Goto, WorkerTypeOK, HandsOK
<1>w. ASSUME NEW from, NEW to \in Points, from # "idle", NEW target \in JobStatus,
             WriteRow(w, from, target, to)
      PROVE  Frame' /\ HandsOK'
  <2>1. pc[w] # "idle" /\ seen[w] \in RowType
    BY <1>a, <1>w DEF WriteRow, WorkerTypeOK
  <2>2. StoreTypeOK'
    BY <1>a, <1>b, <1>w, <2>1, CommitStatusType DEF WriteRow
  <2>3. StreamTypeOK' /\ Ids' = Ids /\ LeaseTypeOK'
    BY <1>d, <1>e, <1>w DEF WriteRow
  <2> QED
    BY <1>a, <1>q, <1>w, <2>2, <2>3 DEF WriteRow, Goto, WorkerTypeOK, HandsOK
<1>1. CASE GetJob(w)
  BY <1>a, <1>c, <1>d, <1>e, <1>p, <1>1, StepType DEF GetJob
<1>2. CASE AckSkipped(w)
  BY <1>a, <1>c, <1>e, <1>2, AckType, ReturnType DEF AckSkipped, Ack, Ids
<1>3. CASE AcquireLease(w)
  <2>1. LeaseTypeOK'
    BY <1>a, <1>b, <1>3, WorkerIdAssumption DEF AcquireLease, Acquire, LeaseTypeOK
  <2> QED
    BY <1>a, <1>c, <1>d, <1>p, <1>3, <2>1 DEF AcquireLease, Goto, WorkerTypeOK, HandsOK
<1>4. CASE LeaseBusy(w)
  BY <1>a, <1>c, <1>d, <1>e, <1>4, ReturnType DEF LeaseBusy
<1>5. CASE MarkRunning(w)
  BY <1>p, <1>q, <1>r, <1>w, <1>5 DEF MarkRunning
<1>6. CASE ReadAttempt(w)
  <2>1. LatestAttempt(JobOf(w)) + 1 \in Nat
    BY <1>a, <1>b, <1>6 DEF ReadAttempt, LatestAttempt, StoreTypeOK
  <2> QED
    BY <1>a, <1>c, <1>d, <1>e, <1>p, <1>6, <2>1 DEF ReadAttempt, Goto, WorkerTypeOK, HandsOK
<1>7. CASE StartRun(w)
  <2>1. StoreTypeOK'
    BY <1>a, <1>b, <1>7, InsertRunType DEF StartRun, Step
  <2> QED
    BY <1>a, <1>d, <1>e, <1>p, <1>7, <2>1, StepType DEF StartRun
<1>8. CASE AttemptTaken(w)
  BY <1>a, <1>c, <1>d, <1>e, <1>8, RaiseType DEF AttemptTaken
<1>9. CASE RunSucceeds(w) \/ RunFails(w)
  <2>1. StoreTypeOK'
    BY <1>a, <1>b, <1>q, <1>9, FinishRunType DEF RunSucceeds, RunFails, Step, WorkerTypeOK
  <2> QED
    BY <1>a, <1>d, <1>e, <1>p, <1>9, <2>1, StepType DEF RunSucceeds, RunFails
<1>10. CASE MarkCompleted(w)
  BY <1>p, <1>q, <1>r, <1>w, <1>10 DEF MarkCompleted
<1>11. CASE Decide(w)
  BY <1>a, <1>c, <1>d, <1>e, <1>p, <1>11, StepType DEF Decide
<1>12. CASE MarkRetrying(w)
  BY <1>p, <1>q, <1>r, <1>w, <1>12 DEF MarkRetrying
<1>13. CASE AckRetried(w)
  BY <1>a, <1>c, <1>e, <1>p, <1>13, AckType, StepType DEF AckRetried, Ack, Ids
<1>14. CASE Requeue(w)
  BY <1>a, <1>b, <1>c, <1>e, <1>p, <1>14, EnqueueType, StepType DEF Requeue, Step
<1>15. CASE MarkFailed(w)
  BY <1>p, <1>q, <1>r, <1>w, <1>15 DEF MarkFailed
<1>16. CASE DeadLetter(w)
  BY <1>a, <1>b, <1>c, <1>e, <1>p, <1>16, SendToDlqType, StepType
     DEF DeadLetter, Step, SendToDlq, Ids
<1>17. CASE AckDone(w)
  BY <1>a, <1>c, <1>e, <1>p, <1>17, AckType, StepType DEF AckDone, Ack, Ids
<1>18. CASE CheckLease(w)
  BY <1>a, <1>c, <1>d, <1>e, <1>p, <1>18, StepType, ReturnType DEF CheckLease
<1>19. CASE DeleteLease(w)
  <2>1. LeaseTypeOK'
    BY <1>a, <1>19 DEF DeleteLease, Delete, LeaseTypeOK
  <2> QED
    BY <1>a, <1>c, <1>d, <1>19, <2>1, ReturnType DEF DeleteLease
<1> QED
  BY <1>1, <1>2, <1>3, <1>4, <1>5, <1>6, <1>7, <1>8, <1>9, <1>10, <1>11, <1>12, <1>13,
     <1>14, <1>15, <1>16, <1>17, <1>18, <1>19 DEF WorkerStep

(* The other steps in which a worker or a lease takes part.                  *)
LEMMA WorkerEventType ==
    ASSUME Typed, NEW w \in Workers,
           \/ ReadMessage(w) \/ ClaimMessages(w) \/ ClaimNothing(w) \/ HeartbeatLost(w) \/ Stall(w)
           \/ CallFails(w) \/ WorkerCrash(w)
    PROVE  /\ StoreTypeOK' /\ StreamTypeOK' /\ LeaseTypeOK'
           /\ WorkerTypeOK' /\ HandsOK'
<1>a. StoreTypeOK /\ StreamTypeOK /\ LeaseTypeOK /\ WorkerTypeOK /\ HandsOK
  BY DEF Typed, TypeOK
<1>c. ASSUME UNCHANGED storeVars PROVE StoreTypeOK'
  BY <1>a, <1>c DEF storeVars, StoreTypeOK
<1>d. ASSUME UNCHANGED streamVars PROVE StreamTypeOK' /\ Ids' = Ids
  BY <1>a, <1>d DEF streamVars, StreamTypeOK, Ids
<1>e. ASSUME UNCHANGED lease PROVE LeaseTypeOK'
  BY <1>a, <1>e DEF LeaseTypeOK
<1>1. CASE ReadMessage(w)
  <2>1. PICK m \in Ids : Deliver(m) /\ Fetch(w, m, {})
    BY <1>1 DEF ReadMessage
  <2>2. StreamTypeOK' /\ Ids' = Ids
    BY <1>a, <2>1, DeliverType DEF Deliver, Ids
  <2> QED
    BY <1>a, <1>c, <1>e, <1>1, <2>1, <2>2, FetchType DEF ReadMessage
<1>2. CASE ClaimMessages(w)
  <2>1. PICK S \in SUBSET Idle : \E first \in S : Claim(S) /\ Fetch(w, first, S \ {first})
    BY <1>2 DEF ClaimMessages
  <2>2. PICK first \in S : Claim(S) /\ Fetch(w, first, S \ {first})
    BY <2>1
  <2>3. StreamTypeOK' /\ S \subseteq Ids /\ Ids' = Ids
    BY <1>a, <2>2, ClaimType DEF Claim, Ids
  <2>4. WorkerTypeOK' /\ HandsOK'
    BY <1>a, <2>2, <2>3, FetchType
  <2> QED
    BY <1>c, <1>e, <1>2, <2>3, <2>4 DEF ClaimMessages
<1>3. CASE HeartbeatLost(w) \/ Stall(w)
  BY <1>a, <1>c, <1>d, <1>e, <1>3 DEF HeartbeatLost, Stall, WorkerTypeOK, HandsOK
<1>4. CASE CallFails(w)
  <2>1. pc[w] # "idle"
    BY <1>4 DEF CallFails, InTry, Marking, Starting, Completing, Retrying, Failing
  <2> QED
    BY <1>a, <1>c, <1>d, <1>e, <1>4, <2>1, RaiseType DEF CallFails
<1>5. CASE WorkerCrash(w)
  BY <1>a, <1>c, <1>d, <1>e, <1>5, ForgetType DEF WorkerCrash
<1>6. CASE ClaimNothing(w)
  <2>1. StreamTypeOK' /\ Ids' = Ids
    BY <1>a, <1>6, ClaimType DEF ClaimNothing, Claim, Ids
  <2> QED
    BY <1>a, <1>c, <1>e, <1>6, <2>1
       DEF ClaimNothing, workerVars, WorkerTypeOK, HandsOK
<1> QED
  BY <1>1, <1>2, <1>3, <1>4, <1>5, <1>6

-----------------------------------------------------------------------------
(* The scheduler and the API *)

LEMMA SchedulerStepType ==
    ASSUME Typed, SchedulerStep \/ SchedulerFails
    PROVE  StoreTypeOK' /\ StreamTypeOK' /\ SchedTypeOK' /\ Ids \subseteq Ids'
<1>a. StoreTypeOK /\ StreamTypeOK /\ SchedTypeOK
  BY DEF Typed, TypeOK
<1>c. ASSUME UNCHANGED storeVars PROVE StoreTypeOK'
  BY <1>a, <1>c DEF storeVars, StoreTypeOK
<1>d. ASSUME UNCHANGED streamVars PROVE StreamTypeOK' /\ Ids' = Ids
  BY <1>a, <1>d DEF streamVars, StreamTypeOK, Ids
<1>q. NothingFound \in RowType /\ "RUNNING" \in JobStatus
  BY DEF NothingFound, RowType, JobStatus
<1>1. CASE ListJobs
  BY <1>a, <1>c, <1>d, <1>1 DEF ListJobs, Listed, Existing, SchedTypeOK
<1>2. CASE \E j, p \in Jobs : CheckParent(j, p)
  BY <1>a, <1>c, <1>d, <1>2 DEF CheckParent, SchedTypeOK
<1>3. CASE NothingRunnable
  BY <1>a, <1>c, <1>d, <1>q, <1>3 DEF NothingRunnable, Resting, SchedTypeOK
<1>4. ASSUME NEW j \in Jobs, PickJob(j)
      PROVE  StoreTypeOK' /\ StreamTypeOK' /\ SchedTypeOK' /\ Ids \subseteq Ids'
  <2>1. Row(j) \in RowType
    BY <1>a, RowOfType
  <2> QED
    BY <1>a, <1>c, <1>d, <1>4, <2>1 DEF PickJob, SchedTypeOK
<1>5. ASSUME NEW j \in Jobs, MarkQueued(j)
      PROVE  StoreTypeOK' /\ StreamTypeOK' /\ SchedTypeOK' /\ Ids \subseteq Ids'
  <2>1. StoreTypeOK'
    BY <1>a, <1>q, <1>5, CommitStatusType DEF MarkQueued, SchedTypeOK
  <2> QED
    BY <1>a, <1>d, <1>q, <1>5, <2>1 DEF MarkQueued, SchedTypeOK
<1>6. ASSUME NEW j \in Jobs, EnqueuePicked(j)
      PROVE  StoreTypeOK' /\ StreamTypeOK' /\ SchedTypeOK' /\ Ids \subseteq Ids'
  <2>1. StreamTypeOK' /\ Ids \subseteq Ids'
    BY <1>a, <1>6, EnqueueType DEF EnqueuePicked
  <2> QED
    BY <1>a, <1>c, <1>q, <1>6, <2>1 DEF EnqueuePicked, Resting, SchedTypeOK
<1>7. CASE SchedulerFails
  BY <1>a, <1>c, <1>d, <1>q, <1>7 DEF SchedulerFails, Resting, SchedTypeOK
<1> QED
  BY <1>1, <1>2, <1>3, <1>4, <1>5, <1>6, <1>7 DEF SchedulerStep

LEMMA AnswerType ==
    ASSUME ApiTypeOK, NEW c \in Clients, Answer(c)
    PROVE  ApiTypeOK'
<1>1. NothingGot \in RowType
  BY DEF NothingGot, RowType
<1> QED BY <1>1 DEF ApiTypeOK, Answer

LEMMA RequestType ==
    ASSUME Typed, NEW c \in Clients,
           Submission(c) \/ Command(c) \/ RequestStep(c) \/ RequestFails(c)
    PROVE  StoreTypeOK' /\ StreamTypeOK' /\ ApiTypeOK' /\ Ids \subseteq Ids'
<1> DEFINE Goal == StoreTypeOK' /\ StreamTypeOK' /\ ApiTypeOK' /\ Ids \subseteq Ids'
<1>a. StoreTypeOK /\ StreamTypeOK /\ ApiTypeOK
  BY DEF Typed, TypeOK
<1>c. ASSUME UNCHANGED storeVars PROVE StoreTypeOK'
  BY <1>a, <1>c DEF storeVars, StoreTypeOK
<1>d. ASSUME UNCHANGED streamVars PROVE StreamTypeOK' /\ Ids' = Ids
  BY <1>a, <1>d DEF streamVars, StreamTypeOK, Ids
<1>q. NothingGot \in RowType /\ {"PENDING", "CANCELLED"} \subseteq JobStatus
  BY DEF NothingGot, RowType, JobStatus
<1>1. ASSUME NEW j \in Jobs, NEW enqueue \in BOOLEAN, SubmitJob(c, j, enqueue) PROVE Goal
  <2>1. StoreTypeOK' /\ StreamTypeOK' /\ Ids \subseteq Ids'
    BY <1>a, <1>d, <1>1, CreateRowType DEF SubmitJob
  <2>2. Parents[j] \subseteq Jobs
    BY ParentsAssumption
  <2> QED
    BY <1>a, <1>1, <2>1, <2>2 DEF SubmitJob, Continue, ApiTypeOK, apiVars
<1>2. ASSUME NEW S \in SUBSET Jobs, SubmitDag(c, S) PROVE Goal
  BY <1>a, <1>d, <1>2, CreateDagType DEF SubmitDag, apiVars, ApiTypeOK
<1>3. ASSUME NEW j \in Jobs, CancelRead(c, j) \/ RetryCheck(c, j) PROVE Goal
  <2>1. Row(j) \in RowType /\ Parents[j] \subseteq Jobs
    BY <1>a, RowOfType, ParentsAssumption
  <2> QED
    BY <1>a, <1>c, <1>d, <1>3, <2>1 DEF CancelRead, RetryCheck, Continue, ApiTypeOK
<1>4. CASE CreatedRunnable(c)
  BY <1>a, <1>c, <1>d, <1>4 DEF CreatedRunnable, Continue, ApiTypeOK
<1>5. ASSUME NEW p \in Jobs, NEW from, ParentMet(c, from, p) PROVE Goal
  BY <1>a, <1>c, <1>d, <1>5 DEF ParentMet, ApiTypeOK
<1>6. ASSUME NEW p \in Jobs, NEW from, ParentUnmet(c, from, p) PROVE Goal
  BY <1>a, <1>c, <1>d, <1>6, AnswerType DEF ParentUnmet
<1>7. ASSUME NEW j \in Jobs, EnqueueSubject(c, j) PROVE Goal
  BY <1>a, <1>c, <1>7, EnqueueType, AnswerType DEF EnqueueSubject
<1>8. ASSUME NEW j \in Jobs, CancelCommit(c, j) PROVE Goal
  <2>1. StoreTypeOK'
    BY <1>a, <1>q, <1>8, CommitStatusType DEF CancelCommit, ApiTypeOK
  <2> QED
    BY <1>a, <1>d, <1>8, <2>1, AnswerType DEF CancelCommit
<1>9. ASSUME NEW j \in Jobs, RetryRead(c, j) PROVE Goal
  <2>1. Row(j) \in RowType
    BY <1>a, RowOfType
  <2> QED
    BY <1>a, <1>c, <1>d, <1>9, <2>1 DEF RetryRead, Continue, ApiTypeOK
<1>10. ASSUME NEW j \in Jobs, RetryCommit(c, j) PROVE Goal
  <2>1. StoreTypeOK'
    BY <1>a, <1>q, <1>10, CommitStatusType DEF RetryCommit, ApiTypeOK
  <2> QED
    BY <1>a, <1>d, <1>q, <1>10, <2>1 DEF RetryCommit, Continue, ApiTypeOK
<1>11. CASE RequestFails(c)
  BY <1>a, <1>c, <1>d, <1>11, AnswerType DEF RequestFails
<1> QED
  BY <1>1, <1>2, <1>3, <1>4, <1>5, <1>6, <1>7, <1>8, <1>9, <1>10, <1>11
     DEF Submission, Command, RequestStep

-----------------------------------------------------------------------------
(* The composition *)

LEMMA InitTyped == Init => Typed
<1> SUFFICES ASSUME Init PROVE Typed
  OBVIOUS
<1>1. StoreTypeOK /\ LeaseTypeOK
  BY DEF Init, StoreInit, StoreTypeOK, LeaseInit, LeaseTypeOK
<1>2. StreamTypeOK
  BY DEF Init, StreamInit, StreamTypeOK
<1>3. WorkerTypeOK /\ HandsOK
  BY DEF Init, WorkerInit, WorkerTypeOK, HandsOK, Points, NoRow, RowType
<1>4. SchedTypeOK /\ ApiTypeOK
  BY DEF Init, SchedInit, SchedTypeOK, ApiInit, ApiTypeOK, NothingFound, NothingGot, RowType
<1>5. faults \in 0..MaxFaults /\ stalls \in 0..MaxStalls /\ commands \in 0..MaxCommands
  BY BoundsAssumption DEF Init
<1> QED
  BY <1>1, <1>2, <1>3, <1>4, <1>5 DEF Typed, TypeOK

LEMMA NextTyped ==
    ASSUME Typed, [Next]_vars
    PROVE  Typed'
<1> DEFINE Counted == /\ faults \in 0..MaxFaults /\ stalls \in 0..MaxStalls
                      /\ commands \in 0..MaxCommands
<1>a. /\ StoreTypeOK /\ StreamTypeOK /\ LeaseTypeOK /\ WorkerTypeOK /\ SchedTypeOK
      /\ ApiTypeOK /\ HandsOK /\ Counted
  BY DEF Typed, TypeOK
<1>b. ASSUME UNCHANGED counters \/ Fault \/ Hiccup \/ Order PROVE Counted'
  BY <1>a, <1>b, BoundsAssumption DEF counters, Fault, Hiccup, Order
<1>c. ASSUME OfWorkers PROVE SchedTypeOK' /\ ApiTypeOK'
  BY <1>a, <1>c DEF OfWorkers, schedVars, apiVars, SchedTypeOK, ApiTypeOK
<1>d. ASSUME UNCHANGED <<lease, workerVars>>, Ids \subseteq Ids'
      PROVE  LeaseTypeOK' /\ WorkerTypeOK' /\ HandsOK'
  BY <1>a, <1>d DEF workerVars, LeaseTypeOK, WorkerTypeOK, HandsOK
<1>1. CASE \E w \in Workers : WorkerActs(w)
  BY <1>b, <1>c, <1>1, WorkerStepType DEF WorkerActs, Typed, TypeOK
<1>2. CASE \E w \in Workers : \/ Reads(w) \/ Claims(w) \/ HeartbeatEnds(w)
                              \/ HeartbeatStalls(w) \/ WorkerFails(w)
  BY <1>b, <1>c, <1>2, WorkerEventType
     DEF Reads, Claims, HeartbeatEnds, HeartbeatStalls, WorkerFails, Typed, TypeOK
<1>3. CASE \E j \in Jobs : LeaseEnds(j)
  <2>1. /\ LeaseTypeOK' /\ UNCHANGED <<storeVars, streamVars, workerVars>>
    BY <1>a, <1>3 DEF LeaseEnds, LeaseExpires, Expire, LeaseTypeOK
  <2> QED
    BY <1>a, <1>b, <1>c, <1>3, <2>1
       DEF LeaseEnds, Typed, TypeOK, storeVars, StoreTypeOK, streamVars, StreamTypeOK,
           workerVars, WorkerTypeOK, HandsOK, Ids
<1>4. CASE SchedulerActs \/ SchedulerStops
  <2>1. StoreTypeOK' /\ StreamTypeOK' /\ SchedTypeOK' /\ Ids \subseteq Ids'
    BY <1>4, SchedulerStepType DEF SchedulerActs, SchedulerStops
  <2>2. Counted' /\ ApiTypeOK'
    BY <1>a, <1>b, <1>4
       DEF SchedulerActs, SchedulerStops, OfScheduler, apiVars, ApiTypeOK
  <2> QED
    BY <1>d, <1>4, <2>1, <2>2
       DEF SchedulerActs, SchedulerStops, OfScheduler, Typed, TypeOK
<1>5. CASE \E c \in Clients : Submits(c) \/ Commands(c) \/ Serves(c) \/ RequestLost(c)
  <2>1. StoreTypeOK' /\ StreamTypeOK' /\ ApiTypeOK' /\ Ids \subseteq Ids'
    BY <1>5, RequestType DEF Submits, Commands, Serves, RequestLost
  <2>2. Counted' /\ SchedTypeOK'
    BY <1>a, <1>b, <1>5
       DEF Submits, Commands, Serves, RequestLost, OfApi, schedVars, SchedTypeOK
  <2> QED
    BY <1>d, <1>5, <2>1, <2>2
       DEF Submits, Commands, Serves, RequestLost, OfApi, Typed, TypeOK
<1>6. CASE UNCHANGED vars
  BY <1>a, <1>6
     DEF vars, Typed, TypeOK, storeVars, StoreTypeOK, streamVars, StreamTypeOK, LeaseTypeOK,
         workerVars, WorkerTypeOK, schedVars, SchedTypeOK, apiVars, ApiTypeOK, counters,
         HandsOK, Ids
<1> QED
  BY <1>1, <1>2, <1>3, <1>4, <1>5, <1>6 DEF Next

LEMMA TypedInvariant == Spec => []Typed
<1>1. Init => Typed
  BY InitTyped
<1>2. Typed /\ [Next]_vars => Typed'
  BY NextTyped
<1> QED
  BY <1>1, <1>2, PTL DEF Spec

(* Every variable keeps its type; in particular the consumer group's pending *)
(* list only ever holds delivered messages (stream_queue.py:68-125).         *)
THEOREM TypeCorrect == Spec => []TypeOK
<1>1. Typed => TypeOK
  BY DEF Typed
<1> QED
  BY <1>1, TypedInvariant, PTL

-----------------------------------------------------------------------------
(* What a step leaves alone *)

(* A worker's step does not touch the memory of another worker.              *)
SameWorker(v) ==
    /\ pc'[v] = pc[v] /\ msg'[v] = msg[v] /\ batch'[v] = batch[v]
    /\ att'[v] = att[v] /\ seen'[v] = seen[v] /\ beating'[v] = beating[v]

LEMMA OthersUntouched ==
    ASSUME Typed, NEW w \in Workers, NEW v \in Workers, v # w,
           \/ WorkerStep(w) \/ ReadMessage(w) \/ ClaimMessages(w) \/ ClaimNothing(w)
           \/ HeartbeatLost(w) \/ Stall(w) \/ CallFails(w) \/ WorkerCrash(w)
    PROVE  SameWorker(v)
<1> USE DEF Goto, SameWorker
<1>0. WorkerTypeOK
  BY DEF Typed, TypeOK
<1>1. ASSUME NEW from, NEW to, Step(w, from, to) \/ ReadRow(w, from, to)
      PROVE  SameWorker(v)
  BY <1>0, <1>1 DEF Step, ReadRow, WorkerTypeOK
<1>2. ASSUME NEW from, NEW target, NEW to, WriteRow(w, from, target, to)
      PROVE  SameWorker(v)
  BY <1>0, <1>2 DEF WriteRow, WorkerTypeOK
<1>3. ASSUME Return(w) PROVE SameWorker(v)
  BY <1>0, <1>3 DEF Return, WorkerTypeOK
<1>4. ASSUME Raise(w) \/ Forget(w) PROVE SameWorker(v)
  BY <1>0, <1>4 DEF Raise, Forget, WorkerTypeOK
<1>5. ASSUME NEW first, NEW rest, Fetch(w, first, rest) PROVE SameWorker(v)
  BY <1>0, <1>5 DEF Fetch, WorkerTypeOK
<1>6. ASSUME AcquireLease(w) \/ ReadAttempt(w) \/ HeartbeatLost(w) \/ Stall(w)
      PROVE  SameWorker(v)
  BY <1>0, <1>6 DEF AcquireLease, ReadAttempt, HeartbeatLost, Stall, WorkerTypeOK
<1>7. CASE WorkerStep(w)
  BY <1>1, <1>2, <1>3, <1>4, <1>6, <1>7
     DEF WorkerStep, GetJob, AckSkipped, LeaseBusy, MarkRunning, StartRun, AttemptTaken,
         RunSucceeds, RunFails, MarkCompleted, Decide, MarkRetrying, AckRetried, Requeue,
         MarkFailed, DeadLetter, AckDone, CheckLease, DeleteLease
<1>8. CASE ReadMessage(w) \/ ClaimMessages(w) \/ ClaimNothing(w) \/ CallFails(w)
           \/ WorkerCrash(w)
  BY <1>4, <1>5, <1>8
     DEF ReadMessage, ClaimMessages, ClaimNothing, workerVars, CallFails, WorkerCrash
<1> QED BY <1>6, <1>7, <1>8

-----------------------------------------------------------------------------
(* Who does what: the control flow of a worker, and the writers of the       *)
(* tables and of the stream.                                                 *)

(* The statements of _process_message that follow each other.                *)
Flow == {
    <<"fetched", "skip">>, <<"fetched", "lease">>, <<"lease", "mark">>,
    <<"mark", "markCommit">>, <<"markCommit", "start">>, <<"start", "startCommit">>,
    <<"startCommit", "exec">>, <<"exec", "complete">>, <<"exec", "decide">>,
    <<"complete", "completeCommit">>, <<"completeCommit", "ack">>,
    <<"decide", "retry">>, <<"decide", "fail">>,
    <<"retry", "retryCommit">>, <<"retryCommit", "retryAck">>, <<"retryAck", "requeue">>,
    <<"fail", "failCommit">>, <<"failCommit", "dlq">>, <<"dlq", "ack">>,
    <<"release", "delete">> }

(* The points at which a worker has read a row that it is about to write.    *)
HasRead == {"markCommit", "completeCommit", "retryCommit", "failCommit"}

Stays(w) ==
    /\ pc'[w] = pc[w] /\ msg'[w] = msg[w] /\ batch'[w] = batch[w]
    /\ att'[w] = att[w] /\ seen'[w] = seen[w]

Proceeds(w) ==
    /\ WorkerStep(w)
    /\ <<pc[w], pc'[w]>> \in Flow
    /\ msg'[w] = msg[w] /\ batch'[w] = batch[w]
    /\ pc[w] # "start" => att'[w] = att[w]
    /\ pc'[w] \in HasRead => seen'[w] = Row(JobOf(w))

(* The end of the try block, reached or raised.                              *)
Drops(w) ==
    /\ pc[w] # "idle" /\ pc'[w] = "release"
    /\ msg'[w] = msg[w] /\ batch'[w] \subseteq batch[w]

MovesOn(w) ==
    /\ pc[w] # "idle"
    /\ \/ pc'[w] = "idle"
       \/ /\ pc'[w] = "fetched"
          /\ msg'[w] \in batch[w] /\ batch'[w] = batch[w] \ {msg'[w]}

Fetches(w) ==
    /\ ReadMessage(w) \/ ClaimMessages(w)
    /\ pc[w] = "idle" /\ pc'[w] = "fetched"

LEMMA WorkerStepMoves ==
    ASSUME Typed, NEW w \in Workers, WorkerStep(w)
    PROVE  Proceeds(w) \/ Drops(w) \/ MovesOn(w)
<1> USE DEF Goto, At
<1>0. WorkerTypeOK
  BY DEF Typed, TypeOK
<1>1. ASSUME NEW from, NEW to, Step(w, from, to), <<from, to>> \in Flow, to \notin HasRead
      PROVE  Proceeds(w)
  BY <1>0, <1>1 DEF Step, Proceeds, WorkerTypeOK
<1>2. ASSUME NEW from, NEW to, ReadRow(w, from, to), <<from, to>> \in Flow
      PROVE  Proceeds(w)
  BY <1>0, <1>2 DEF ReadRow, Proceeds, WorkerTypeOK
<1>3. ASSUME NEW from, NEW target, NEW to, WriteRow(w, from, target, to),
             <<from, to>> \in Flow, to \notin HasRead
      PROVE  Proceeds(w)
  BY <1>0, <1>3 DEF WriteRow, Proceeds, WorkerTypeOK
<1>4. ASSUME Return(w), pc[w] # "idle" PROVE MovesOn(w)
  <2>1. CASE batch[w] = {}
    BY <1>0, <1>4, <2>1 DEF Return, MovesOn, WorkerTypeOK
  <2>2. CASE batch[w] # {}
    BY <1>0, <1>4, <2>2 DEF Return, MovesOn, WorkerTypeOK
  <2> QED BY <2>1, <2>2
<1>5. ASSUME NEW from, Step(w, from, "release"), from # "idle" PROVE Drops(w)
  BY <1>0, <1>5 DEF Step, Drops, WorkerTypeOK
<1>6. CASE \/ GetJob(w) \/ StartRun(w) \/ RunSucceeds(w) \/ RunFails(w) \/ Decide(w)
           \/ AckRetried(w) \/ DeadLetter(w)
  BY <1>1, <1>6 DEF GetJob, StartRun, RunSucceeds, RunFails, Decide, AckRetried, DeadLetter,
                    Flow, HasRead
<1>7. CASE MarkRunning(w) \/ MarkCompleted(w) \/ MarkRetrying(w) \/ MarkFailed(w)
  BY <1>2, <1>3, <1>7 DEF MarkRunning, MarkCompleted, MarkRetrying, MarkFailed, Flow, HasRead
<1>8. CASE AcquireLease(w) \/ ReadAttempt(w)
  BY <1>0, <1>8 DEF AcquireLease, ReadAttempt, Proceeds, Flow, HasRead, WorkerTypeOK
<1>9. CASE AckSkipped(w) \/ LeaseBusy(w) \/ DeleteLease(w)
  BY <1>4, <1>9 DEF AckSkipped, LeaseBusy, DeleteLease
<1>10. CASE Requeue(w) \/ AckDone(w)
  BY <1>5, <1>10 DEF Requeue, AckDone
<1>11. CASE AttemptTaken(w)
  BY <1>0, <1>11 DEF AttemptTaken, Raise, Drops, WorkerTypeOK
<1>12. CASE CheckLease(w)
  BY <1>1, <1>4, <1>12 DEF CheckLease, Flow, HasRead
<1> QED
  BY <1>6, <1>7, <1>8, <1>9, <1>10, <1>11, <1>12 DEF WorkerStep

LEMMA WorkerMoves ==
    ASSUME Typed, NEW w \in Workers, [Next]_vars
    PROVE  \/ Stays(w)
           \/ WorkerActs(w) /\ (Proceeds(w) \/ Drops(w) \/ MovesOn(w))
           \/ WorkerFails(w) /\ (Drops(w) \/ MovesOn(w))
           \/ Fetches(w)
<1> USE DEF Goto, At
<1>0. WorkerTypeOK
  BY DEF Typed, TypeOK
<1>1. CASE WorkerActs(w)
  BY <1>1, WorkerStepMoves DEF WorkerActs
<1>2. CASE Reads(w) \/ Claims(w)
  <2>1. CASE ReadMessage(w) \/ ClaimMessages(w)
    BY <1>0, <2>1 DEF ReadMessage, ClaimMessages, Fetch, Fetches, WorkerTypeOK
  <2>2. CASE ClaimNothing(w)
    BY <2>2 DEF ClaimNothing, workerVars, Stays
  <2> QED BY <1>2, <2>1, <2>2 DEF Reads, Claims
<1>3. CASE WorkerFails(w)
  <2>1. CASE CallFails(w)
    <3>1. pc[w] # "idle"
      BY <2>1 DEF CallFails, InTry, Marking, Starting, Completing, Retrying, Failing
    <3> QED BY <1>0, <1>3, <2>1, <3>1 DEF CallFails, Raise, Drops, WorkerTypeOK
  <2>2. CASE WorkerCrash(w)
    BY <1>0, <1>3, <2>2 DEF WorkerCrash, Forget, MovesOn, WorkerTypeOK
  <2> QED BY <1>3, <2>1, <2>2 DEF WorkerFails
<1>4. CASE HeartbeatEnds(w) \/ HeartbeatStalls(w)
  BY <1>4 DEF HeartbeatEnds, HeartbeatLost, HeartbeatStalls, Stall, Stays
<1>5. CASE \E v \in Workers \ {w} : \/ WorkerActs(v) \/ Reads(v) \/ Claims(v)
                                    \/ HeartbeatEnds(v) \/ HeartbeatStalls(v) \/ WorkerFails(v)
  BY <1>5, OthersUntouched DEF WorkerActs, Reads, Claims, HeartbeatEnds, HeartbeatStalls,
                               WorkerFails, SameWorker, Stays
<1>6. CASE \/ \E j \in Jobs : LeaseEnds(j)
           \/ SchedulerActs \/ SchedulerStops
           \/ \E c \in Clients : Submits(c) \/ Commands(c) \/ Serves(c) \/ RequestLost(c)
           \/ UNCHANGED vars
  BY <1>6 DEF LeaseEnds, LeaseExpires, SchedulerActs, SchedulerStops, OfScheduler, Submits,
              Commands, Serves, RequestLost, OfApi, vars, workerVars, Stays
<1> QED BY <1>1, <1>2, <1>3, <1>4, <1>5, <1>6 DEF Next

(* Each statement has a point of its own.                                    *)
LEMMA ActionAt ==
    ASSUME Typed, NEW w \in Workers, WorkerStep(w)
    PROVE  /\ pc[w] = "fetched" => GetJob(w)
           /\ pc[w] = "startCommit" /\ pc'[w] = "exec" => StartRun(w)
           /\ pc[w] = "exec" => RunSucceeds(w) \/ RunFails(w)
           /\ pc[w] = "decide" => Decide(w)
           /\ pc[w] = "retryAck" => AckRetried(w)
           /\ pc[w] = "requeue" => Requeue(w)
           /\ pc[w] = "dlq" => DeadLetter(w)
<1> USE DEF At, Step, ReadRow, WriteRow
<1>1. ASSUME pc[w] \in {"fetched", "exec", "decide", "retryAck", "requeue", "dlq"}
      PROVE  /\ ~AckSkipped(w) /\ ~AcquireLease(w) /\ ~LeaseBusy(w) /\ ~MarkRunning(w)
             /\ ~ReadAttempt(w) /\ ~StartRun(w) /\ ~AttemptTaken(w) /\ ~MarkCompleted(w)
             /\ ~MarkRetrying(w) /\ ~MarkFailed(w) /\ ~AckDone(w) /\ ~CheckLease(w)
             /\ ~DeleteLease(w)
  BY <1>1 DEF AckSkipped, AcquireLease, LeaseBusy, MarkRunning, ReadAttempt, StartRun,
              AttemptTaken, MarkCompleted, MarkRetrying, MarkFailed, AckDone, CheckLease,
              DeleteLease
<1>2. ASSUME pc[w] = "startCommit" PROVE StartRun(w) \/ AttemptTaken(w)
  BY <1>2 DEF WorkerStep, GetJob, AckSkipped, AcquireLease, LeaseBusy, MarkRunning,
              ReadAttempt, RunSucceeds, RunFails, MarkCompleted, Decide, MarkRetrying,
              AckRetried, Requeue, MarkFailed, DeadLetter, AckDone, CheckLease, DeleteLease
<1>3. AttemptTaken(w) => pc' = [pc EXCEPT ![w] = "release"]
  BY DEF AttemptTaken, Raise, Goto
<1>4. pc[w] = "startCommit" /\ pc'[w] = "exec" => StartRun(w)
  BY <1>2, <1>3 DEF Typed, TypeOK, WorkerTypeOK
<1> QED
  BY <1>1, <1>4 DEF WorkerStep, GetJob, RunSucceeds, RunFails, Decide, AckRetried, Requeue,
                    DeadLetter

(* A row that was read is written back by the same statement.                *)
LEMMA WriteAt ==
    ASSUME Typed, NEW w \in Workers, WorkerStep(w)
    PROVE  /\ pc[w] = "markCommit" => WriteRow(w, "markCommit", "RUNNING", "start")
           /\ pc[w] = "completeCommit" => WriteRow(w, "completeCommit", "COMPLETED", "ack")
           /\ pc[w] = "retryCommit" => WriteRow(w, "retryCommit", "RETRYING", "retryAck")
           /\ pc[w] = "failCommit" => WriteRow(w, "failCommit", "FAILED", "dlq")
<1>1. SUFFICES ASSUME pc[w] \in HasRead
               PROVE  MarkRunning(w) \/ MarkCompleted(w) \/ MarkRetrying(w) \/ MarkFailed(w)
  BY DEF HasRead, MarkRunning, MarkCompleted, MarkRetrying, MarkFailed, ReadRow, WriteRow, At
<1> QED
  BY <1>1 DEF HasRead, At, Step, WorkerStep, GetJob, AckSkipped, AcquireLease, LeaseBusy,
              ReadAttempt, StartRun, AttemptTaken, RunSucceeds, RunFails, Decide, AckRetried,
              Requeue, DeadLetter, AckDone, CheckLease, DeleteLease

(* The writes of a worker to the row of its job.                             *)
Writes(w, j, target) ==
    /\ JobOf(w) = j
    /\ \/ target = "RUNNING" /\ WriteRow(w, "markCommit", target, "start")
       \/ target = "COMPLETED" /\ WriteRow(w, "completeCommit", target, "ack")
       \/ target = "RETRYING" /\ WriteRow(w, "retryCommit", target, "retryAck")
       \/ target = "FAILED" /\ WriteRow(w, "failCommit", target, "dlq")

(* The statuses that only a worker writes, and RUNNING, which the scheduler  *)
(* writes as well.                                                           *)
LEMMA StatusChange ==
    ASSUME Typed, [Next]_vars, NEW j \in Jobs, status'[j] # status[j]
    PROVE  \/ status'[j] \in {"PENDING", "CANCELLED"}
           \/ status'[j] = "RUNNING" /\ MarkQueued(j)
           \/ \E w \in Workers : WorkerActs(w) /\ Writes(w, j, status'[j])
<1>0. status \in [Jobs -> JobStatus \cup {"ABSENT"}]
  BY DEF Typed, TypeOK, StoreTypeOK
<1>1. ASSUME NEW i, NEW target, NEW old, CommitStatus(i, target, old)
      PROVE  i = j /\ status'[j] = target
  BY <1>0, <1>1 DEF CommitStatus
<1>2. CASE \E w \in Workers : WorkerActs(w)
  <2>1. PICK w \in Workers : WorkerActs(w) /\ WorkerStep(w)
    BY <1>2 DEF WorkerActs
  <2>2. ASSUME NEW from, NEW to, ReadRow(w, from, to) PROVE FALSE
    BY <2>2 DEF ReadRow, storeVars
  <2>3. ASSUME NEW from, NEW target, NEW to, WriteRow(w, from, target, to)
        PROVE  JobOf(w) = j /\ status'[j] = target
    BY <1>1, <2>3 DEF WriteRow
  <2>4. MarkCompleted(w) \/ MarkRunning(w) \/ MarkRetrying(w) \/ MarkFailed(w)
    BY <2>1 DEF WorkerStep, GetJob, AckSkipped, AcquireLease, LeaseBusy, ReadAttempt, StartRun,
           AttemptTaken, RunSucceeds, RunFails, Decide, AckRetried, Requeue, DeadLetter,
           AckDone, CheckLease, DeleteLease, InsertRun, FinishRun, storeVars
  <2>5. Writes(w, j, status'[j])
    BY <2>2, <2>3, <2>4 DEF MarkCompleted, MarkRunning, MarkRetrying, MarkFailed, Writes
  <2> QED BY <2>1, <2>5
<1>3. CASE \/ \E w \in Workers : \/ Reads(w) \/ Claims(w) \/ HeartbeatEnds(w)
                                 \/ HeartbeatStalls(w) \/ WorkerFails(w)
           \/ \E i \in Jobs : LeaseEnds(i)
  BY <1>3 DEF Reads, ReadMessage, Claims, ClaimMessages, ClaimNothing, HeartbeatEnds,
              HeartbeatLost, HeartbeatStalls, Stall, WorkerFails, CallFails, WorkerCrash, LeaseEnds,
              LeaseExpires, storeVars
<1>4. CASE SchedulerActs \/ SchedulerStops
  <2>1. PICK i \in Jobs : MarkQueued(i)
    BY <1>4 DEF SchedulerActs, SchedulerStops, SchedulerStep, SchedulerFails,
              ListJobs, CheckParent, NothingRunnable, PickJob, EnqueuePicked, storeVars
  <2> QED BY <1>1, <2>1 DEF MarkQueued
<1>5. CASE \E c \in Clients : Submits(c) \/ Commands(c) \/ Serves(c) \/ RequestLost(c)
  <2>1. PICK c \in Clients : Submits(c) \/ Commands(c) \/ Serves(c) \/ RequestLost(c)
    BY <1>5
  <2>2. CASE \E i \in Jobs : CancelCommit(c, i) \/ RetryCommit(c, i)
    BY <1>1, <2>2 DEF CancelCommit, RetryCommit
  <2>3. CASE Submits(c)
    BY <1>0, <2>3 DEF Submits, Submission, SubmitJob, CreateRow, SubmitDag, CreateDag
  <2>4. CASE ~Submits(c) /\ ~\E i \in Jobs : CancelCommit(c, i) \/ RetryCommit(c, i)
    BY <2>1, <2>4
       DEF Commands, Serves, RequestLost, Command, RequestStep, RequestFails, CancelRead,
           RetryCheck, CreatedRunnable, ParentMet, ParentUnmet, EnqueueSubject, RetryRead,
           storeVars
  <2> QED BY <2>2, <2>3, <2>4
<1>6. CASE UNCHANGED vars
  BY <1>6 DEF vars, storeVars
<1> QED BY <1>2, <1>3, <1>4, <1>5, <1>6 DEF Next

(* Only update_job_status(RETRYING), called by a worker, writes the counter. *)
LEMMA RetriesChange ==
    ASSUME Typed, [Next]_vars
    PROVE  \/ retries' = retries
           \/ \E w \in Workers : WriteRow(w, "retryCommit", "RETRYING", "retryAck")
<1>1. CASE \E w \in Workers : WorkerActs(w)
  BY <1>1 DEF WorkerActs, WorkerStep, GetJob, AckSkipped, AcquireLease, LeaseBusy,
              MarkRunning, ReadAttempt, StartRun, AttemptTaken, RunSucceeds, RunFails,
              MarkCompleted, Decide, MarkRetrying, AckRetried, Requeue, MarkFailed,
              DeadLetter, AckDone, CheckLease, DeleteLease, ReadRow, WriteRow, CommitStatus,
              InsertRun, FinishRun, storeVars
<1>2. CASE \/ \E w \in Workers : \/ Reads(w) \/ Claims(w) \/ HeartbeatEnds(w)
                                 \/ HeartbeatStalls(w) \/ WorkerFails(w)
           \/ \E j \in Jobs : LeaseEnds(j)
  BY <1>2 DEF Reads, ReadMessage, Claims, ClaimMessages, ClaimNothing, HeartbeatEnds,
              HeartbeatLost, HeartbeatStalls, Stall, WorkerFails, CallFails, WorkerCrash, LeaseEnds,
              LeaseExpires, storeVars
<1>3. CASE SchedulerActs \/ SchedulerStops
  BY <1>3 DEF SchedulerActs, SchedulerStops, SchedulerStep, SchedulerFails, ListJobs,
              CheckParent, NothingRunnable, PickJob, MarkQueued, EnqueuePicked, CommitStatus,
              storeVars
<1>4. CASE \E c \in Clients : Submits(c) \/ Commands(c) \/ Serves(c) \/ RequestLost(c)
  BY <1>4 DEF Submits, Commands, Serves, RequestLost, Submission, Command, RequestStep,
              RequestFails, SubmitJob, SubmitDag, CreateRow, CreateDag, CancelRead,
              RetryCheck, CreatedRunnable, ParentMet, ParentUnmet, EnqueueSubject,
              CancelCommit, RetryRead, RetryCommit, CommitStatus, storeVars
<1>5. CASE UNCHANGED vars
  BY <1>5 DEF vars, storeVars
<1> QED BY <1>1, <1>2, <1>3, <1>4, <1>5 DEF Next

(* The stream changes by the five calls of JobStreamQueue.                   *)
LEMMA StreamChange ==
    ASSUME Typed, [Next]_vars
    PROVE  \/ UNCHANGED <<entries, trimmed, cursor, pending>>
           \/ \E j \in Jobs : Enqueue(j)
           \/ \E w \in Workers : ReadMessage(w) \/ ClaimMessages(w) \/ ClaimNothing(w)
           \/ \E w \in Workers : /\ pc[w] \in {"skip", "retryAck", "ack"} /\ WorkerActs(w)
                                 /\ Ack(msg[w])
<1>1. CASE \E w \in Workers : WorkerActs(w)
  <2>1. PICK w \in Workers : WorkerActs(w) /\ WorkerStep(w)
    BY <1>1 DEF WorkerActs
  <2>2. CASE Requeue(w)
    BY <2>2, JobOfType DEF Requeue, Step, At
  <2>3. CASE AckSkipped(w) \/ AckRetried(w) \/ AckDone(w)
    BY <2>1, <2>3 DEF AckSkipped, AckRetried, AckDone, Step, At
  <2>4. CASE ~(Requeue(w) \/ AckSkipped(w) \/ AckRetried(w) \/ AckDone(w))
    BY <2>1, <2>4
       DEF WorkerStep, GetJob, AcquireLease, LeaseBusy, MarkRunning,
           ReadAttempt, StartRun, AttemptTaken, RunSucceeds, RunFails, MarkCompleted,
           Decide, MarkRetrying, MarkFailed, DeadLetter, CheckLease,
           DeleteLease, ReadRow, WriteRow, SendToDlq, streamVars
  <2> QED BY <2>2, <2>3, <2>4
<1>2. CASE \/ \E w \in Workers : \/ Reads(w) \/ Claims(w) \/ HeartbeatEnds(w)
                                 \/ HeartbeatStalls(w) \/ WorkerFails(w)
           \/ \E j \in Jobs : LeaseEnds(j)
  BY <1>2 DEF Reads, Claims, HeartbeatEnds, HeartbeatLost, HeartbeatStalls, Stall,
              WorkerFails, CallFails, WorkerCrash, LeaseEnds, LeaseExpires, streamVars
<1>3. CASE SchedulerActs \/ SchedulerStops
  BY <1>3 DEF SchedulerActs, SchedulerStops, SchedulerStep, SchedulerFails, ListJobs,
              CheckParent, NothingRunnable, PickJob, MarkQueued, EnqueuePicked, streamVars
<1>4. CASE \E c \in Clients : Submits(c) \/ Commands(c) \/ Serves(c) \/ RequestLost(c)
  BY <1>4 DEF Submits, Commands, Serves, RequestLost, Submission, Command, RequestStep,
              RequestFails, SubmitJob, SubmitDag, CancelRead, RetryCheck, CreatedRunnable,
              ParentMet, ParentUnmet, EnqueueSubject, CancelCommit, RetryRead, RetryCommit,
              streamVars
<1>5. CASE UNCHANGED vars
  BY <1>5 DEF vars, streamVars
<1> QED BY <1>1, <1>2, <1>3, <1>4, <1>5 DEF Next

(* Only a worker that gives up writes to the dead letter stream.             *)
LEMMA DlqChange ==
    ASSUME Typed, [Next]_vars
    PROVE  dlq' = dlq \/ \E w \in Workers : pc[w] = "dlq" /\ DeadLetter(w)
<1>1. CASE \E w \in Workers : WorkerActs(w)
  BY <1>1 DEF WorkerActs, WorkerStep, GetJob, AckSkipped, AcquireLease, LeaseBusy,
              MarkRunning, ReadAttempt, StartRun, AttemptTaken, RunSucceeds, RunFails,
              MarkCompleted, Decide, MarkRetrying, AckRetried, Requeue, MarkFailed,
              DeadLetter, AckDone, CheckLease, DeleteLease, Step, At, ReadRow, WriteRow,
              Ack, Enqueue, streamVars
<1>2. CASE \/ \E w \in Workers : \/ Reads(w) \/ Claims(w) \/ HeartbeatEnds(w)
                                 \/ HeartbeatStalls(w) \/ WorkerFails(w)
           \/ \E j \in Jobs : LeaseEnds(j)
  BY <1>2 DEF Reads, ReadMessage, Deliver, Claims, ClaimMessages, ClaimNothing, Claim,
              HeartbeatEnds, HeartbeatLost, HeartbeatStalls, Stall, WorkerFails, CallFails,
              WorkerCrash, LeaseEnds, LeaseExpires, streamVars
<1>3. CASE SchedulerActs \/ SchedulerStops
  BY <1>3 DEF SchedulerActs, SchedulerStops, SchedulerStep, SchedulerFails, ListJobs,
              CheckParent, NothingRunnable, PickJob, MarkQueued, EnqueuePicked, Enqueue,
              streamVars
<1>4. CASE \E c \in Clients : Submits(c) \/ Commands(c) \/ Serves(c) \/ RequestLost(c)
  BY <1>4 DEF Submits, Commands, Serves, RequestLost, Submission, Command, RequestStep,
              RequestFails, SubmitJob, SubmitDag, CancelRead, RetryCheck, CreatedRunnable,
              ParentMet, ParentUnmet, EnqueueSubject, CancelCommit, RetryRead, RetryCommit,
              Enqueue, streamVars
<1>5. CASE UNCHANGED vars
  BY <1>5 DEF vars, streamVars
<1> QED BY <1>1, <1>2, <1>3, <1>4, <1>5 DEF Next

(* The scheduler's variables are its own.                                    *)
LEMMA SchedulerMoves ==
    ASSUME [Next]_vars
    PROVE  SchedulerActs \/ SchedulerStops \/ UNCHANGED schedVars
BY DEF Next, WorkerActs, Reads, Claims, HeartbeatEnds, HeartbeatStalls, WorkerFails,
       LeaseEnds, OfWorkers, Submits, Commands, Serves, RequestLost, OfApi, vars

(* The stream is append-only, so a worker's message keeps its job.           *)
LEMMA EntriesGrow ==
    ASSUME Typed, [Next]_vars
    PROVE  /\ Ids \subseteq Ids'
           /\ \A m \in Ids : entries'[m] = entries[m]
<1>1. ASSUME NEW j \in Jobs, Enqueue(j)
      PROVE  Ids \subseteq Ids' /\ \A m \in Ids : entries'[m] = entries[m]
  BY <1>1, EnqueueType DEF Typed, TypeOK
<1>2. ASSUME entries' = entries
      PROVE  Ids \subseteq Ids' /\ \A m \in Ids : entries'[m] = entries[m]
  BY <1>2 DEF Ids
<1>3. entries' = entries \/ \E j \in Jobs : Enqueue(j)
  BY StreamChange DEF ReadMessage, Deliver, ClaimMessages, ClaimNothing, Claim, Ack
<1> QED BY <1>1, <1>2, <1>3

(* A message is sent for the job of a message in hand, for the job that the  *)
(* scheduler has picked, or for the subject of a request.                    *)
LEMMA Senders ==
    ASSUME Typed, [Next]_vars
    PROVE  \/ entries' = entries
           \/ \E j \in Jobs :
                 /\ Enqueue(j)
                 /\ \/ \E m \in Ids : entries[m] = j
                    \/ spc = "enqueue" /\ j \in picked
                    \/ \E c \in Clients : cpc[c] = "enqueue" /\ j \in subject[c]
<1>1. CASE \E w \in Workers : WorkerActs(w)
  <2>1. PICK w \in Workers : WorkerStep(w)
    BY <1>1 DEF WorkerActs
  <2>2. CASE Requeue(w)
    <3>1. JobOf(w) \in Jobs /\ msg[w] \in Ids /\ Enqueue(JobOf(w))
      BY <2>2, JobOfType DEF Requeue, Step, At
    <3> QED BY <3>1 DEF JobOf
  <2>3. CASE ~Requeue(w)
    BY <2>1, <2>3
       DEF WorkerStep, GetJob, AckSkipped, AcquireLease, LeaseBusy, MarkRunning,
           ReadAttempt, StartRun, AttemptTaken, RunSucceeds, RunFails, MarkCompleted,
           Decide, MarkRetrying, AckRetried, MarkFailed, DeadLetter, AckDone, CheckLease,
           DeleteLease, ReadRow, WriteRow, Ack, SendToDlq, streamVars
  <2> QED BY <2>2, <2>3
<1>2. CASE \/ \E w \in Workers : \/ Reads(w) \/ Claims(w) \/ HeartbeatEnds(w)
                                 \/ HeartbeatStalls(w) \/ WorkerFails(w)
           \/ \E j \in Jobs : LeaseEnds(j)
  BY <1>2 DEF Reads, ReadMessage, Deliver, Claims, ClaimMessages, ClaimNothing, Claim,
              HeartbeatEnds, HeartbeatLost, HeartbeatStalls, Stall, WorkerFails, CallFails, WorkerCrash,
              LeaseEnds, LeaseExpires, streamVars
<1>3. CASE SchedulerActs \/ SchedulerStops
  BY <1>3 DEF SchedulerActs, SchedulerStops, SchedulerStep, SchedulerFails, ListJobs,
              CheckParent, NothingRunnable, PickJob, MarkQueued, EnqueuePicked, streamVars
<1>4. CASE \E c \in Clients : Submits(c) \/ Commands(c) \/ Serves(c) \/ RequestLost(c)
  BY <1>4 DEF Submits, Commands, Serves, RequestLost, Submission, Command, RequestStep,
              RequestFails, SubmitJob, SubmitDag, CancelRead, RetryCheck, CreatedRunnable,
              ParentMet, ParentUnmet, EnqueueSubject, CancelCommit, RetryRead, RetryCommit,
              streamVars
<1>5. CASE UNCHANGED vars
  BY <1>5 DEF vars, streamVars
<1> QED BY <1>1, <1>2, <1>3, <1>4, <1>5 DEF Next

-----------------------------------------------------------------------------
(* The jobs table *)

(* Whatever is sent, listed, picked or asked for has a row.                  *)
InTable ==
    /\ \A m \in Ids : entries[m] \in Existing
    /\ runnable \subseteq Existing /\ picked \subseteq Existing
    /\ \A c \in Clients : subject[c] \subseteq Existing

Inserted(S) ==
    /\ \A j \in S : status[j] = "ABSENT"
    /\ status' = [j \in Jobs |-> IF j \in S THEN "PENDING" ELSE status[j]]

Updated(j, target) == status' = [status EXCEPT ![j] = target]

(* A commit inserts the rows of a request or updates a row that is there.    *)
LEMMA TableWrites ==
    ASSUME Typed, InTable, [Next]_vars
    PROVE  \/ status' = status
           \/ \E S \in SUBSET Jobs : Inserted(S)
           \/ \E j \in Existing, target \in JobStatus : Updated(j, target)
<1>0. StoreTypeOK /\ ApiTypeOK
  BY DEF Typed, TypeOK
<1>1. ASSUME NEW j \in Existing, NEW target \in JobStatus, NEW old, CommitStatus(j, target, old)
      PROVE  status' = status \/ \E i \in Existing, t \in JobStatus : Updated(i, t)
  BY <1>1 DEF CommitStatus, Updated
<1>2. CASE \E w \in Workers : WorkerActs(w)
  <2>1. PICK w \in Workers : WorkerStep(w)
    BY <1>2 DEF WorkerActs
  <2>2. ASSUME NEW from, NEW to, NEW target \in JobStatus, WriteRow(w, from, target, to),
               from # "idle"
        PROVE  status' = status \/ \E i \in Existing, t \in JobStatus : Updated(i, t)
    <3>1. JobOf(w) \in Existing
      BY <2>2, JobOfType DEF WriteRow, At, InTable, JobOf
    <3> QED BY <1>1, <2>2, <3>1 DEF WriteRow
  <2>3. CASE MarkRunning(w) \/ MarkCompleted(w) \/ MarkRetrying(w) \/ MarkFailed(w)
    BY <2>2, <2>3 DEF MarkRunning, MarkCompleted, MarkRetrying, MarkFailed, ReadRow, storeVars,
                      JobStatus
  <2>4. CASE ~(MarkRunning(w) \/ MarkCompleted(w) \/ MarkRetrying(w) \/ MarkFailed(w))
    BY <2>1, <2>4 DEF WorkerStep, GetJob, AckSkipped, AcquireLease, LeaseBusy, ReadAttempt,
           StartRun, AttemptTaken, RunSucceeds, RunFails, Decide, AckRetried, Requeue,
           DeadLetter, AckDone, CheckLease, DeleteLease, InsertRun, FinishRun, storeVars
  <2> QED BY <2>3, <2>4
<1>3. CASE \/ \E w \in Workers : \/ Reads(w) \/ Claims(w) \/ HeartbeatEnds(w)
                                 \/ HeartbeatStalls(w) \/ WorkerFails(w)
           \/ \E i \in Jobs : LeaseEnds(i)
  BY <1>3 DEF Reads, ReadMessage, Claims, ClaimMessages, ClaimNothing, HeartbeatEnds,
              HeartbeatLost, HeartbeatStalls, Stall, WorkerFails, CallFails, WorkerCrash, LeaseEnds,
              LeaseExpires, storeVars
<1>4. CASE SchedulerActs \/ SchedulerStops
  <2>1. ASSUME NEW j \in Jobs, MarkQueued(j)
        PROVE  status' = status \/ \E i \in Existing, t \in JobStatus : Updated(i, t)
    BY <1>1, <2>1 DEF MarkQueued, InTable, JobStatus
  <2> QED
    BY <1>4, <2>1 DEF SchedulerActs, SchedulerStops, SchedulerStep, SchedulerFails,
              ListJobs, CheckParent, NothingRunnable, PickJob, EnqueuePicked, storeVars
<1>5. CASE \E c \in Clients : Submits(c) \/ Commands(c) \/ Serves(c) \/ RequestLost(c)
  <2>1. PICK c \in Clients : Submits(c) \/ Commands(c) \/ Serves(c) \/ RequestLost(c)
    BY <1>5
  <2>2. ASSUME NEW j \in Jobs, CreateRow(j) PROVE Inserted({j})
    BY <1>0, <2>2 DEF CreateRow, Inserted, StoreTypeOK
  <2>3. ASSUME NEW S, CreateDag(S) PROVE \E T \in SUBSET Jobs : Inserted(T)
    <3>1. Inserted(S \cap Jobs)
      BY <2>3 DEF CreateDag, Inserted
    <3> QED BY <3>1
  <2>4. CASE Submits(c)
    BY <2>2, <2>3, <2>4 DEF Submits, Submission, SubmitJob, SubmitDag
  <2>5. ASSUME NEW j \in Jobs, CancelCommit(c, j) \/ RetryCommit(c, j)
        PROVE  status' = status \/ \E i \in Existing, t \in JobStatus : Updated(i, t)
    <3>1. j \in Existing /\ {"CANCELLED", "PENDING"} \subseteq JobStatus
      BY <2>5 DEF CancelCommit, RetryCommit, InTable, JobStatus
    <3> QED BY <1>1, <2>5, <3>1 DEF CancelCommit, RetryCommit
  <2>6. CASE ~Submits(c) /\ ~\E i \in Jobs : CancelCommit(c, i) \/ RetryCommit(c, i)
    BY <2>1, <2>6
       DEF Commands, Serves, RequestLost, Command, RequestStep, RequestFails, CancelRead,
           RetryCheck, CreatedRunnable, ParentMet, ParentUnmet, EnqueueSubject, RetryRead,
           storeVars
  <2> QED BY <2>4, <2>5, <2>6
<1>6. CASE UNCHANGED vars
  BY <1>6 DEF vars, storeVars
<1> QED BY <1>2, <1>3, <1>4, <1>5, <1>6 DEF Next

LEMMA RowsStay ==
    ASSUME Typed, InTable, [Next]_vars PROVE Existing \subseteq Existing'
BY TableWrites DEF Existing, Inserted, Updated, JobStatus, Typed, TypeOK, StoreTypeOK

LEMMA InTableStep ==
    ASSUME Typed, InTable, [Next]_vars PROVE InTable'
<1>0. SchedTypeOK /\ ApiTypeOK /\ StreamTypeOK /\ Existing \subseteq Existing'
  BY RowsStay DEF Typed, TypeOK
<1>1. \A m \in Ids' : entries'[m] \in Existing'
  <2>1. CASE entries' = entries
    BY <1>0, <2>1 DEF InTable, Ids
  <2>2. ASSUME NEW j \in Existing, Enqueue(j) PROVE \A m \in Ids' : entries'[m] \in Existing'
    <3>1. entries' = Append(entries, j) /\ entries \in Seq(Jobs) /\ j \in Jobs
      BY <1>0, <2>2 DEF Enqueue, StreamTypeOK, Existing
    <3>2. ASSUME NEW m \in Ids' PROVE (m \in Ids /\ entries'[m] = entries[m]) \/ entries'[m] = j
      BY <3>1, <3>2 DEF Ids
    <3> QED BY <1>0, <2>2, <3>2 DEF InTable
  <2> QED BY <2>1, <2>2, Senders DEF InTable
<1>2. runnable' \subseteq Existing' /\ picked' \subseteq Existing'
  <2>1. CASE SchedulerActs \/ SchedulerStops
    BY <1>0, <2>1 DEF SchedulerActs, SchedulerStops, SchedulerStep, SchedulerFails, ListJobs,
           Listed, CheckParent, NothingRunnable, PickJob, MarkQueued, EnqueuePicked, Resting,
           InTable
  <2>2. CASE UNCHANGED schedVars
    BY <1>0, <2>2 DEF schedVars, InTable
  <2> QED BY <2>1, <2>2, SchedulerMoves
<1>3. ASSUME NEW c \in Clients PROVE subject'[c] \subseteq Existing'
  <2>1. CASE UNCHANGED apiVars
    BY <1>0, <2>1 DEF apiVars, InTable
  <2>2. ASSUME NEW d \in Clients, Submits(d) \/ Commands(d) \/ Serves(d) \/ RequestLost(d)
        PROVE  subject'[c] \subseteq Existing'
    <3>1. ASSUME NEW j \in Jobs, NEW enqueue \in BOOLEAN, SubmitJob(d, j, enqueue)
          PROVE  \/ subject' = subject
                 \/ subject' = [subject EXCEPT ![d] = {j}] /\ j \in Existing'
      BY <1>0, <3>1 DEF SubmitJob, CreateRow, Existing, apiVars, Typed, TypeOK, StoreTypeOK
    <3>2. ASSUME NEW j \in Jobs, CancelRead(d, j) \/ RetryCheck(d, j)
          PROVE  subject' = [subject EXCEPT ![d] = {j}] /\ j \in Existing
      BY <3>2 DEF CancelRead, RetryCheck, Existing, JobStatus
    <3>3. \/ subject' = subject
          \/ subject' = [subject EXCEPT ![d] = {}]
          \/ \E j \in Existing' : subject' = [subject EXCEPT ![d] = {j}]
      <4>1. CASE Submits(d)
        BY <3>1, <4>1 DEF Submits, Submission, SubmitDag, apiVars
      <4>2. CASE Commands(d)
        BY <1>0, <3>2, <4>2 DEF Commands, Command
      <4>3. CASE Serves(d) \/ RequestLost(d)
        BY <4>3 DEF Serves, RequestLost, RequestStep, RequestFails, CreatedRunnable, ParentMet,
                    ParentUnmet, EnqueueSubject, CancelCommit, RetryRead, RetryCommit, Answer
      <4> QED BY <2>2, <4>1, <4>2, <4>3
    <3> QED BY <1>0, <3>3 DEF InTable, ApiTypeOK
  <2>3. CASE \/ \E w \in Workers : \/ WorkerActs(w) \/ Reads(w) \/ Claims(w)
                                   \/ HeartbeatEnds(w) \/ HeartbeatStalls(w) \/ WorkerFails(w)
             \/ \E j \in Jobs : LeaseEnds(j)
             \/ SchedulerActs \/ SchedulerStops
             \/ UNCHANGED vars
    <3>1. UNCHANGED apiVars
      BY <2>3 DEF WorkerActs, Reads, Claims, HeartbeatEnds, HeartbeatStalls, WorkerFails,
                  LeaseEnds, OfWorkers, SchedulerActs, SchedulerStops, OfScheduler, vars
    <3> QED BY <2>1, <3>1
  <2> QED BY <2>2, <2>3 DEF Next
<1> QED BY <1>1, <1>2, <1>3 DEF InTable

LEMMA TableInvariant == Spec => [](Typed /\ InTable)
<1>1. Init => InTable
  BY DEF Init, StreamInit, SchedInit, ApiInit, InTable, Ids
<1>2. Typed /\ InTable /\ [Next]_vars => InTable'
  BY InTableStep
<1> QED BY <1>1, <1>2, TypedInvariant, PTL DEF Spec

RowView(s) == CASE s = "ABSENT" -> "absent" [] s \in Terminal -> "ended" [] OTHER -> "active"
TableView == [j \in Jobs |-> RowView(status[j])]

(* The jobs table is the one that the requests of Admission fill: nothing    *)
(* that is read late, delivered twice or retried writes a row that no        *)
(* request has inserted (job_manager.py:171, 255, 308-349, 363-382).         *)
THEOREM OrchestratorImplementsTable == Spec => ImplementsTable
<1> DEFINE keys == [j \in Jobs |-> "none"]  answers == [k \in {} |-> {}]
<1>1. Init => Table!Init
  BY DEF Init, StoreInit, Table!Init, Terminal
<1>2. ASSUME Typed, InTable, [Next]_vars
      PROVE  [Table!Next]_<<TableView, keys, answers>>
  <2>0. status \in [Jobs -> JobStatus \cup {"ABSENT"}]
    BY <1>2 DEF Typed, TypeOK, StoreTypeOK
  <2>1. CASE status' = status
    BY <2>1 DEF TableView
  <2>2. ASSUME NEW S \in SUBSET Jobs, Inserted(S) PROVE Table!Next
    <3>1. \A j \in Jobs : RowView(status[j])' = IF j \in S THEN "active" ELSE RowView(status[j])
      BY <2>0, <2>2 DEF Inserted, RowView, Terminal
    <3>2. \A j \in S : RowView(status[j]) = "absent"
      BY <2>2 DEF Inserted, RowView, Terminal
    <3>3. Table!Submit(S, "none")
      BY <3>1, <3>2 DEF Table!Submit, RowView
    <3> QED BY <3>3 DEF Table!Next
  <2>3. ASSUME NEW j \in Existing, NEW target \in JobStatus, Updated(j, target)
        PROVE  Table!Next \/ UNCHANGED TableView
    <3>1. /\ j \in Jobs /\ RowView(status[j]) \in {"active", "ended"}
          /\ RowView(target) \in {"active", "ended"}
      BY <2>3 DEF Existing, RowView, JobStatus
    <3>2. TableView' = [TableView EXCEPT ![j] = RowView(target)]
      BY <2>0, <2>3, <3>1 DEF TableView, Updated
    <3>3. CASE RowView(target) = RowView(status[j])
      BY <3>1, <3>2, <3>3 DEF TableView
    <3>4. CASE RowView(target) # RowView(status[j])
      <4>1. \/ Table!Turn(j, "active", "ended") \/ Table!Turn(j, "ended", "active")
        BY <3>1, <3>2, <3>4 DEF Table!Turn, TableView, RowView
      <4> QED BY <3>1, <4>1 DEF Table!Next
    <3> QED BY <3>3, <3>4
  <2> QED BY <1>2, <2>1, <2>2, <2>3, TableWrites
<1> QED
  BY <1>1, <1>2, TableInvariant, PTL
     DEF Spec, ImplementsTable, Table!Spec, Table!tableVars, TableView, RowView

-----------------------------------------------------------------------------
(* The lease *)

(* A worker inside the try or finally block still has the lease it took.     *)
LeaseKept ==
    \A w \in Workers : pc[w] \in Leased =>
        beating[w] /\ lease[JobOf(w)] = WorkerId[w]

LeaseInv == LeaseKept /\ OneExecution

(* Between the test of retry_count and the commit of the increment nobody    *)
(* else increments it, so what was read is what is there.                    *)
RetriesSeen ==
    \A w \in Workers :
        /\ pc[w] = "retry" => retries[JobOf(w)] < MaxRetries
        /\ pc[w] = "retryCommit" => /\ seen[w].retries = retries[JobOf(w)]
                                    /\ retries[JobOf(w)] < MaxRetries

RetryInv == RetryBudget /\ RetriesSeen

-----------------------------------------------------------------------------
(* What one step of a worker does to its own lease.                          *)

KeepsLease(w) ==
    /\ pc[w] \in Leased /\ pc'[w] \in Leased
    /\ msg'[w] = msg[w] /\ beating'[w] = beating[w] /\ lease' = lease

NeedsNone(w) == pc'[w] \notin Leased /\ lease' = lease

TakesLease(w) ==
    /\ pc[w] = "lease" /\ pc'[w] = "mark" /\ Acquire(JobOf(w), WorkerId[w])
    /\ msg'[w] = msg[w] /\ beating'[w]

DropsLease(w) == pc[w] = "delete" /\ pc'[w] \notin Leased /\ Delete(JobOf(w))

LEMMA LeaseEffect ==
    ASSUME Typed, NEW w \in Workers,
           \/ WorkerStep(w) \/ ReadMessage(w) \/ ClaimMessages(w) \/ ClaimNothing(w)
           \/ CallFails(w) \/ WorkerCrash(w)
    PROVE  KeepsLease(w) \/ NeedsNone(w) \/ TakesLease(w) \/ DropsLease(w)
<1> USE DEF Goto, At
<1>0. WorkerTypeOK
  BY DEF Typed, TypeOK
<1>p. /\ Marking \cup Starting \cup Completing \cup Retrying \cup Failing \cup Releasing
           \cup {"exec", "decide", "retryAck", "requeue", "dlq", "ack"} \subseteq Leased
      /\ {"idle", "fetched", "skip", "lease"} \cap Leased = {}
  BY DEF Leased, InTry, Marking, Starting, Completing, Retrying, Failing, Releasing
<1>q. {"mark", "markCommit", "start", "startCommit", "complete", "completeCommit", "retry",
       "retryCommit", "fail", "failCommit", "release", "delete"} \subseteq Leased
  BY <1>p DEF Marking, Starting, Completing, Retrying, Failing, Releasing
<1>1. ASSUME NEW from \in Leased, NEW to \in Leased, lease' = lease,
             Step(w, from, to) \/ ReadRow(w, from, to)
      PROVE  KeepsLease(w)
  BY <1>0, <1>1 DEF Step, ReadRow, KeepsLease, WorkerTypeOK
<1>2. ASSUME NEW from \in Leased, NEW to \in Leased, NEW target,
             WriteRow(w, from, target, to)
      PROVE  KeepsLease(w)
  BY <1>0, <1>2 DEF WriteRow, KeepsLease, WorkerTypeOK
<1>3. ASSUME Return(w) PROVE pc'[w] \notin Leased
  BY <1>0, <1>p, <1>3 DEF Return, WorkerTypeOK
<1>4. ASSUME Raise(w), pc[w] \in Leased, lease' = lease PROVE KeepsLease(w)
  BY <1>0, <1>p, <1>4 DEF Raise, Releasing, KeepsLease, WorkerTypeOK
<1>5. CASE GetJob(w) \/ AckSkipped(w) \/ LeaseBusy(w)
  BY <1>0, <1>p, <1>3, <1>5
     DEF GetJob, Step, AckSkipped, LeaseBusy, NeedsNone, WorkerTypeOK
<1>6. CASE AcquireLease(w)
  BY <1>0, <1>6 DEF AcquireLease, TakesLease, WorkerTypeOK
<1>7. CASE MarkRunning(w) \/ MarkCompleted(w) \/ MarkRetrying(w) \/ MarkFailed(w)
  <2>1. ASSUME NEW from \in Leased, NEW to \in Leased, ReadRow(w, from, to)
        PROVE  KeepsLease(w)
    BY <1>1, <2>1 DEF ReadRow
  <2> QED
    BY <1>p, <1>q, <1>2, <1>7, <2>1
       DEF MarkRunning, MarkCompleted, MarkRetrying, MarkFailed
<1>8. CASE ReadAttempt(w)
  BY <1>0, <1>q, <1>8 DEF ReadAttempt, KeepsLease, WorkerTypeOK
<1>9. CASE \/ StartRun(w) \/ RunSucceeds(w) \/ RunFails(w) \/ Decide(w)
           \/ AckRetried(w) \/ Requeue(w) \/ DeadLetter(w) \/ AckDone(w)
  BY <1>p, <1>q, <1>1, <1>9
     DEF StartRun, RunSucceeds, RunFails, Decide, AckRetried, Requeue, DeadLetter, AckDone
<1>10. CASE AttemptTaken(w)
  BY <1>q, <1>4, <1>10 DEF AttemptTaken
<1>11. CASE CheckLease(w)
  BY <1>q, <1>1, <1>3, <1>11 DEF CheckLease, NeedsNone
<1>12. CASE DeleteLease(w)
  BY <1>3, <1>12 DEF DeleteLease, DropsLease
<1>13. CASE ReadMessage(w) \/ ClaimMessages(w) \/ ClaimNothing(w) \/ WorkerCrash(w)
  <2>1. pc'[w] \in {"fetched", "idle"}
    BY <1>0, <1>13 DEF ReadMessage, ClaimMessages, ClaimNothing, WorkerCrash, Fetch, Forget,
                       WorkerTypeOK, workerVars
  <2> QED
    BY <1>p, <1>13, <2>1 DEF ReadMessage, ClaimMessages, ClaimNothing, WorkerCrash, NeedsNone
<1>14. CASE CallFails(w)
  BY <1>4, <1>14 DEF CallFails, Leased
<1> QED
  BY <1>5, <1>6, <1>7, <1>8, <1>9, <1>10, <1>11, <1>12, <1>13, <1>14 DEF WorkerStep

(* A leased worker has a job, and the same one after any step it keeps its   *)
(* message in.                                                               *)
LEMMA LeasedHasJob ==
    ASSUME Typed, [Next]_vars, NEW w \in Workers, pc[w] # "idle", msg'[w] = msg[w]
    PROVE  JobOf(w)' = JobOf(w)
BY JobOfType, EntriesGrow DEF JobOf

(* No step takes back a heartbeat that stopped early.                        *)
LEMMA StallsGrow ==
    ASSUME Typed, [Next]_vars
    PROVE  stalls' = stalls \/ stalls' = stalls + 1
BY DEF Next, vars, counters, WorkerActs, Reads, Claims, HeartbeatEnds, HeartbeatStalls,
       WorkerFails, LeaseEnds, SchedulerActs, SchedulerStops, Submits, Commands, Serves,
       RequestLost, Fault, Hiccup, Order

LEMMA LeaseInvStep ==
    ASSUME stalls' = 0, Typed, Typed', LeaseInv, [Next]_vars
    PROVE  LeaseInv'
<1>0. WorkerTypeOK /\ LeaseTypeOK /\ "idle" \notin Leased /\ "lease" \notin Leased
  BY DEF Typed, TypeOK, Leased, InTry, Marking, Starting, Completing, Retrying, Failing,
         Releasing
<1>1. ASSUME NEW w \in Workers,
             \A v \in Workers \ {w} : SameWorker(v),
             KeepsLease(w) \/ NeedsNone(w) \/ TakesLease(w) \/ DropsLease(w)
      PROVE  LeaseInv'
  <2>1. \A v \in Workers \ {w} : pc[v] \in Leased =>
            pc'[v] = pc[v] /\ beating'[v] = beating[v] /\ JobOf(v)' = JobOf(v)
    BY <1>0, <1>1, LeasedHasJob DEF SameWorker
  <2>2. \A v \in Workers \ {w} : pc'[v] \in Leased <=> pc[v] \in Leased
    BY <1>1 DEF SameWorker
  <2>3. CASE KeepsLease(w)
    <3>1. JobOf(w)' = JobOf(w)
      BY <1>0, <2>3, LeasedHasJob DEF KeepsLease
    <3> QED
      BY <2>1, <2>2, <2>3, <3>1
         DEF KeepsLease, LeaseInv, LeaseKept, OneExecution, Executing
  <2>4. CASE NeedsNone(w)
    BY <2>1, <2>2, <2>4 DEF NeedsNone, LeaseInv, LeaseKept, OneExecution, Executing
  <2>5. CASE TakesLease(w)
    <3>1. JobOf(w)' = JobOf(w) /\ JobOf(w) \in Jobs
      BY <1>0, <2>5, LeasedHasJob, JobOfType DEF TakesLease
    <3>2. WorkerId[w] \in HolderIds /\ \A v \in Workers : WorkerId[v] # NoHolder
      BY WorkerIdAssumption, NoHolderAssumption
    <3>3. \A v \in Workers : pc[v] \in Leased => JobOf(v) # JobOf(w)
      BY <2>5, <3>2 DEF TakesLease, Acquire, Free, LeaseInv, LeaseKept
    <3>4. lease' = [lease EXCEPT ![JobOf(w)] = WorkerId[w]]
      BY <2>5 DEF TakesLease, Acquire
    <3>5. LeaseKept'
      BY <1>0, <2>1, <2>2, <2>5, <3>1, <3>3, <3>4
         DEF TakesLease, LeaseInv, LeaseKept, LeaseTypeOK
    <3>6. OneExecution'
      BY <2>1, <2>2, <3>1, <3>3 DEF LeaseInv, OneExecution, Executing
    <3> QED BY <3>5, <3>6 DEF LeaseInv
  <2>6. CASE DropsLease(w)
    <3>1. pc[w] \in Leased
      BY <2>6 DEF DropsLease, Leased, Releasing
    <3>2. JobOf(w) \in Jobs
      BY <1>0, <3>1, JobOfType
    <3>3. \A v \in Workers \ {w} : pc[v] \in Leased => JobOf(v) # JobOf(w)
      BY <3>1, <3>2 DEF LeaseInv, OneExecution, Executing
    <3>4. lease' = [lease EXCEPT ![JobOf(w)] = NoHolder]
      BY <2>6 DEF DropsLease, Delete
    <3>5. LeaseKept'
      BY <1>0, <2>1, <2>2, <2>6, <3>3, <3>4
         DEF DropsLease, LeaseInv, LeaseKept, LeaseTypeOK
    <3>6. OneExecution'
      BY <2>1, <2>2, <2>6 DEF DropsLease, LeaseInv, OneExecution, Executing
    <3> QED BY <3>5, <3>6 DEF LeaseInv
  <2> QED BY <1>1, <2>3, <2>4, <2>5, <2>6
<1>2. CASE \E w \in Workers : WorkerActs(w) \/ Reads(w) \/ Claims(w) \/ WorkerFails(w)
  <2>1. PICK w \in Workers : \/ WorkerStep(w) \/ ReadMessage(w) \/ ClaimMessages(w) \/ ClaimNothing(w)
                             \/ CallFails(w) \/ WorkerCrash(w)
    BY <1>2 DEF WorkerActs, Reads, Claims, WorkerFails
  <2> QED BY <1>1, <2>1, LeaseEffect, OthersUntouched
<1>3. ASSUME NEW w \in Workers, HeartbeatEnds(w) PROVE LeaseInv'
  <2>1. /\ beating[w] /\ lease[JobOf(w)] # WorkerId[w]
        /\ beating' = [beating EXCEPT ![w] = FALSE]
        /\ UNCHANGED <<pc, msg, lease, entries>>
    BY <1>3 DEF HeartbeatEnds, HeartbeatLost, HeldBy, streamVars
  <2>2. pc[w] \notin Leased
    BY <2>1 DEF LeaseInv, LeaseKept
  <2> QED
    BY <1>0, <2>1, <2>2
       DEF LeaseInv, LeaseKept, OneExecution, Executing, JobOf, WorkerTypeOK
<1>4. CASE \E w \in Workers : HeartbeatStalls(w)
  BY <1>4 DEF HeartbeatStalls, Hiccup, Typed, TypeOK
<1>5. ASSUME NEW j \in Jobs, LeaseEnds(j) PROVE LeaseInv'
  <2>1. /\ \A w \in Workers : ~(beating[w] /\ Works(w, j) /\ lease[j] = WorkerId[w])
        /\ lease' = [lease EXCEPT ![j] = NoHolder]
        /\ UNCHANGED <<pc, msg, beating, entries>>
    BY <1>5 DEF LeaseEnds, LeaseExpires, Expire, HeldBy, streamVars, workerVars
  <2>2. \A w \in Workers : pc[w] \in Leased => msg[w] # 0
    BY <1>0, JobOfType DEF Ids
  <2>3. \A w \in Workers : pc[w] \in Leased => JobOf(w) # j
    BY <2>1, <2>2 DEF LeaseInv, LeaseKept, Works
  <2> QED
    BY <1>0, <2>1, <2>3
       DEF LeaseInv, LeaseKept, OneExecution, Executing, JobOf, LeaseTypeOK
<1>6. CASE \/ SchedulerActs \/ SchedulerStops
           \/ \E c \in Clients : Submits(c) \/ Commands(c) \/ Serves(c) \/ RequestLost(c)
           \/ UNCHANGED vars
  <2>1. UNCHANGED <<lease, workerVars>>
    BY <1>6 DEF SchedulerActs, SchedulerStops, OfScheduler, Submits, Commands, Serves,
                RequestLost, OfApi, vars
  <2>2. \A w \in Workers : pc[w] \in Leased => JobOf(w)' = JobOf(w)
    BY <1>0, <2>1, LeasedHasJob DEF workerVars
  <2> QED
    BY <2>1, <2>2 DEF workerVars, LeaseInv, LeaseKept, OneExecution, Executing
<1> QED
  BY <1>2, <1>3, <1>4, <1>5, <1>6 DEF Next

LEMMA LeaseInvariant == Spec => [](Typed /\ (stalls = 0 => LeaseInv))
<1>1. Init => LeaseInv
  <2>1. "idle" \notin Leased
    BY DEF Leased, InTry, Marking, Starting, Completing, Retrying, Failing, Releasing
  <2> QED
    BY <2>1 DEF Init, WorkerInit, LeaseInv, LeaseKept, OneExecution, Executing
<1>2. Typed /\ Typed' /\ (stalls = 0 => LeaseInv) /\ [Next]_vars
          => (stalls = 0 => LeaseInv)'
  <2> SUFFICES ASSUME Typed, Typed', stalls = 0 => LeaseInv, [Next]_vars, stalls' = 0
               PROVE  LeaseInv'
    OBVIOUS
  <2>1. stalls \in Nat
    BY DEF Typed, TypeOK
  <2>2. stalls = 0
    BY <2>1, StallsGrow
  <2> QED BY <2>2, LeaseInvStep
<1> QED
  BY <1>1, <1>2, TypedInvariant, PTL DEF Spec

(* At most one worker is between the acquisition and the release of a job's  *)
(* lease (lease_store.py:27-48, worker.py:60-124).                           *)
THEOREM OneExecutionPerJob == Spec => []ExclusiveExecution
<1>1. (stalls = 0 => LeaseInv) => ExclusiveExecution
  BY DEF LeaseInv, ExclusiveExecution
<1> QED
  BY <1>1, LeaseInvariant, PTL

-----------------------------------------------------------------------------
(* The lease, as KeptLease sees it *)

PlaceOf(w, j) == IF ~Executing(w, j) THEN "away"
                 ELSE IF pc[w] = "delete" THEN "deletes" ELSE "works"
Keeps(w, j) == Executing(w, j) /\ beating[w]

Places  == [j \in Jobs |-> [w \in Workers |-> PlaceOf(w, j)]]
Keepers == [j \in Jobs |-> {w \in Workers : Keeps(w, j)}]

SameLease(v, i) == PlaceOf(v, i)' = PlaceOf(v, i) /\ (Keeps(v, i)' <=> Keeps(v, i))

Only(w, j) == \A v \in Workers : \A i \in Jobs : v # w \/ i # j => SameLease(v, i)

(* The steps of KeptLease, by what they do to one worker and one job.        *)
LEMMA LeaseStepOf ==
    ASSUME NEW w \in Workers, NEW j \in Jobs, Only(w, j)
    PROVE  /\ /\ PlaceOf(w, j) = "away" /\ lease[j] = NoHolder
              /\ PlaceOf(w, j)' = "works" /\ Keeps(w, j)'
              /\ lease' = [lease EXCEPT ![j] = WorkerId[w]]
              => Lease!Next
           /\ /\ PlaceOf(w, j) = "works" /\ lease[j] = WorkerId[w] /\ lease' = lease
              /\ PlaceOf(w, j)' = "deletes" /\ (Keeps(w, j)' <=> Keeps(w, j))
              => Lease!Next
           /\ /\ PlaceOf(w, j) = "deletes" /\ lease' = [lease EXCEPT ![j] = NoHolder]
              /\ PlaceOf(w, j)' = "away" /\ ~Keeps(w, j)'
              => Lease!Next
           /\ /\ PlaceOf(w, j) # "away" /\ lease' = lease
              /\ PlaceOf(w, j)' = "away" /\ ~Keeps(w, j)'
              => Lease!Next
           /\ /\ lease' = lease /\ PlaceOf(w, j)' = PlaceOf(w, j) /\ ~Keeps(w, j)'
              => Lease!Next
<1>1. Places' = [Places EXCEPT ![j][w] = PlaceOf(w, j)'] /\ Places[j][w] = PlaceOf(w, j)
  BY DEF Only, SameLease, Places
<1>2. PlaceOf(w, j)' = PlaceOf(w, j) => Places' = Places
  BY DEF Only, SameLease, Places
<1>3. \A i \in Jobs : i # j => Keepers'[i] = Keepers[i]
  BY DEF Only, SameLease, Keepers
<1>4. /\ Keeps(w, j)' => Keepers'[j] = Keepers[j] \cup {w}
      /\ ~Keeps(w, j)' => Keepers'[j] = Keepers[j] \ {w}
      /\ (Keeps(w, j)' <=> Keeps(w, j)) => Keepers'[j] = Keepers[j]
  BY DEF Only, SameLease, Keepers
<1>5. Keepers = [i \in Jobs |-> Keepers[i]] /\ Keepers' = [i \in Jobs |-> Keepers'[i]]
  BY DEF Keepers
<1>6. /\ Keeps(w, j)' => Keepers' = [Keepers EXCEPT ![j] = Keepers[j] \cup {w}]
      /\ ~Keeps(w, j)' => Keepers' = [Keepers EXCEPT ![j] = Keepers[j] \ {w}]
      /\ (Keeps(w, j)' <=> Keeps(w, j)) => Keepers' = Keepers
  BY <1>3, <1>4, <1>5
<1>7. /\ /\ Places[j][w] = "away" /\ lease[j] = NoHolder
         /\ Places' = [Places EXCEPT ![j][w] = "works"]
         /\ lease' = [lease EXCEPT ![j] = WorkerId[w]]
         /\ Keepers' = [Keepers EXCEPT ![j] = Keepers[j] \cup {w}]
         => Lease!Take(w, j)
      /\ /\ Places[j][w] = "works" /\ lease[j] = WorkerId[w]
         /\ Places' = [Places EXCEPT ![j][w] = "deletes"] /\ UNCHANGED <<lease, Keepers>>
         => Lease!Find(w, j)
      /\ /\ Places[j][w] = "deletes"
         /\ Places' = [Places EXCEPT ![j][w] = "away"]
         /\ lease' = [lease EXCEPT ![j] = NoHolder]
         /\ Keepers' = [Keepers EXCEPT ![j] = Keepers[j] \ {w}]
         => Lease!Delete(w, j)
      /\ /\ Places[j][w] # "away"
         /\ Places' = [Places EXCEPT ![j][w] = "away"] /\ UNCHANGED lease
         /\ Keepers' = [Keepers EXCEPT ![j] = Keepers[j] \ {w}]
         => Lease!Leave(w, j)
      /\ /\ UNCHANGED <<lease, Places>>
         /\ Keepers' = [Keepers EXCEPT ![j] = Keepers[j] \ {w}]
         => Lease!LetGo(w, j)
  BY DEF Places, PlaceOf, Keepers, Keeps, Lease!Take, Lease!Find, Lease!Delete, Lease!Leave,
         Lease!LetGo, Lease!Goto, Lease!Set, Lease!Keep, Lease!Drop
<1> QED
  BY <1>1, <1>2, <1>6, <1>7 DEF Lease!Next

(* The two steps of release(), and the points before and after them.         *)
LEMMA ReleaseAt ==
    ASSUME Typed, NEW w \in Workers, WorkerStep(w) \/ CallFails(w), KeepsLease(w)
    PROVE  /\ pc[w] # "delete"
           /\ pc'[w] = "delete" => HeldBy(JobOf(w), WorkerId[w])
<1> USE DEF At, Step, ReadRow, WriteRow
<1>0. WorkerTypeOK
  BY DEF Typed, TypeOK
<1>1. ASSUME pc[w] \in {"release", "delete"} PROVE CheckLease(w) \/ DeleteLease(w)
  BY <1>1 DEF WorkerStep, CallFails, InTry, Marking, Starting, Completing, Retrying, Failing,
              GetJob, AckSkipped, AcquireLease, LeaseBusy, MarkRunning,
              ReadAttempt, StartRun, AttemptTaken, RunSucceeds, RunFails, MarkCompleted,
              Decide, MarkRetrying, AckRetried, Requeue, MarkFailed, DeadLetter, AckDone
<1>2. Return(w) => pc'[w] \notin Leased
  BY <1>0 DEF Return, Goto, WorkerTypeOK, Leased, InTry, Marking, Starting, Completing,
              Retrying, Failing, Releasing
<1>3. pc[w] # "delete"
  BY <1>1, <1>2 DEF KeepsLease, CheckLease, DeleteLease
<1>4. ASSUME pc'[w] = "delete" PROVE pc[w] = "release"
  <2>1. CASE WorkerStep(w)
    BY <1>4, <2>1, WorkerStepMoves DEF Proceeds, Drops, MovesOn, Flow
  <2>2. CASE CallFails(w)
    BY <1>0, <1>4, <2>2 DEF CallFails, Raise, Goto, WorkerTypeOK
  <2> QED BY <2>1, <2>2
<1>5. pc[w] = "release" => HeldBy(JobOf(w), WorkerId[w])
  BY <1>1, <1>2 DEF KeepsLease, CheckLease, DeleteLease
<1> QED BY <1>3, <1>4, <1>5

LEMMA LeaseStep ==
    ASSUME Typed, [Next]_vars
    PROVE  Lease!Next \/ UNCHANGED <<lease, Places, Keepers>>
<1> DEFINE Goal == Lease!Next \/ UNCHANGED <<lease, Places, Keepers>>
<1>0. /\ WorkerTypeOK /\ {"mark", "release", "delete"} \subseteq Leased
      /\ {"idle", "lease"} \cap Leased = {}
  BY DEF Typed, TypeOK, Leased, InTry, Marking, Starting, Completing, Retrying, Failing,
         Releasing
<1>1. ASSUME NEW v \in Workers, SameWorker(v) PROVE \A i \in Jobs : SameLease(v, i)
  BY <1>0, <1>1, LeasedHasJob DEF SameWorker, SameLease, PlaceOf, Keeps, Executing
<1>2. (\A v \in Workers : \A i \in Jobs : SameLease(v, i)) => UNCHANGED <<Places, Keepers>>
  BY DEF SameLease, Places, Keepers
<1>3. ASSUME NEW w \in Workers, NEW j \in Jobs, JobOf(w) = j,
             \A v \in Workers \ {w} : SameWorker(v),
             pc'[w] \in Leased => JobOf(w)' = j
      PROVE  Only(w, j)
  <2>1. \A i \in Jobs : i # j => SameLease(w, i)
    BY <1>3 DEF SameLease, PlaceOf, Keeps, Executing
  <2> QED BY <1>1, <1>3, <2>1 DEF Only
<1>4. ASSUME NEW w \in Workers, \A v \in Workers \ {w} : SameWorker(v),
             KeepsLease(w), WorkerStep(w) \/ CallFails(w)
      PROVE  Goal
  <2>1. JobOf(w)' = JobOf(w) /\ JobOf(w) \in Jobs
    BY <1>0, <1>4, LeasedHasJob, JobOfType DEF KeepsLease
  <2>2. PICK j \in Jobs : j = JobOf(w) /\ JobOf(w)' = j
    BY <2>1
  <2>3. Only(w, j) /\ pc[w] # "delete"
    BY <1>3, <1>4, <2>2, ReleaseAt
  <2>4. CASE pc'[w] = "delete"
    <3>1. lease[j] = WorkerId[w]
      BY <1>4, <2>2, <2>4, ReleaseAt DEF HeldBy
    <3>2. /\ PlaceOf(w, j) = "works" /\ PlaceOf(w, j)' = "deletes"
          /\ Keeps(w, j)' <=> Keeps(w, j)
      BY <1>4, <2>2, <2>3, <2>4 DEF KeepsLease, PlaceOf, Keeps, Executing
    <3> QED BY <1>4, <2>3, <3>1, <3>2, LeaseStepOf DEF KeepsLease
  <2>5. CASE pc'[w] # "delete"
    <3>1. SameLease(w, j)
      BY <1>4, <2>2, <2>3, <2>5 DEF KeepsLease, SameLease, PlaceOf, Keeps, Executing
    <3>2. \A v \in Workers : \A i \in Jobs : SameLease(v, i)
      BY <2>3, <3>1 DEF Only
    <3> QED BY <1>2, <1>4, <3>2 DEF KeepsLease
  <2> QED BY <2>4, <2>5
<1>5. ASSUME NEW w \in Workers, \A v \in Workers \ {w} : SameWorker(v), NeedsNone(w)
      PROVE  Goal
  <2>1. CASE pc[w] \in Leased
    <3>1. PICK j \in Jobs : j = JobOf(w)
      BY <1>0, <2>1, JobOfType
    <3>2. Only(w, j)
      BY <1>3, <1>5, <3>1 DEF NeedsNone
    <3>3. PlaceOf(w, j) # "away" /\ PlaceOf(w, j)' = "away" /\ ~Keeps(w, j)'
      BY <1>5, <2>1, <3>1 DEF NeedsNone, PlaceOf, Keeps, Executing
    <3> QED BY <1>5, <3>2, <3>3, LeaseStepOf DEF NeedsNone
  <2>2. CASE pc[w] \notin Leased
    <3>1. \A i \in Jobs : SameLease(w, i)
      BY <1>5, <2>2 DEF NeedsNone, SameLease, PlaceOf, Keeps, Executing
    <3> QED BY <1>1, <1>2, <1>5, <3>1 DEF NeedsNone
  <2> QED BY <2>1, <2>2
<1>6. ASSUME NEW w \in Workers, \A v \in Workers \ {w} : SameWorker(v), TakesLease(w)
      PROVE  Goal
  <2>1. JobOf(w)' = JobOf(w) /\ JobOf(w) \in Jobs
    BY <1>0, <1>6, LeasedHasJob, JobOfType DEF TakesLease
  <2>2. PICK j \in Jobs : j = JobOf(w) /\ JobOf(w)' = j
    BY <2>1
  <2>3. Only(w, j)
    BY <1>3, <1>6, <2>2
  <2>4. lease[j] = NoHolder /\ lease' = [lease EXCEPT ![j] = WorkerId[w]]
    BY <1>6, <2>2 DEF TakesLease, Acquire, Free
  <2>5. PlaceOf(w, j) = "away" /\ PlaceOf(w, j)' = "works" /\ Keeps(w, j)'
    BY <1>0, <1>6, <2>2 DEF TakesLease, PlaceOf, Keeps, Executing
  <2> QED BY <2>3, <2>4, <2>5, LeaseStepOf
<1>7. ASSUME NEW w \in Workers, \A v \in Workers \ {w} : SameWorker(v), DropsLease(w)
      PROVE  Goal
  <2>1. PICK j \in Jobs : j = JobOf(w)
    BY <1>0, <1>7, JobOfType DEF DropsLease
  <2>2. Only(w, j)
    BY <1>3, <1>7, <2>1 DEF DropsLease
  <2>3. PlaceOf(w, j) = "deletes" /\ PlaceOf(w, j)' = "away" /\ ~Keeps(w, j)'
    BY <1>0, <1>7, <2>1 DEF DropsLease, PlaceOf, Keeps, Executing
  <2>4. lease' = [lease EXCEPT ![j] = NoHolder]
    BY <1>7, <2>1 DEF DropsLease, Delete
  <2> QED BY <2>2, <2>3, <2>4, LeaseStepOf
<1>8. ASSUME NEW w \in Workers, HeartbeatEnds(w) \/ HeartbeatStalls(w) PROVE Goal
  <2>1. /\ beating' = [beating EXCEPT ![w] = FALSE] /\ UNCHANGED <<pc, msg, lease, entries>>
        /\ \A v \in Workers \ {w} : SameWorker(v)
    BY <1>8, OthersUntouched DEF HeartbeatEnds, HeartbeatLost, HeartbeatStalls, Stall, streamVars
  <2>2. beating'[w] = FALSE /\ JobOf(w)' = JobOf(w)
    BY <1>0, <2>1 DEF WorkerTypeOK, JobOf
  <2>3. CASE pc[w] \in Leased
    <3>1. PICK j \in Jobs : j = JobOf(w)
      BY <1>0, <2>3, JobOfType
    <3>2. Only(w, j)
      BY <1>3, <2>1, <2>2, <3>1
    <3>3. PlaceOf(w, j)' = PlaceOf(w, j) /\ ~Keeps(w, j)'
      BY <2>1, <2>2, <3>1 DEF PlaceOf, Keeps, Executing
    <3> QED BY <2>1, <3>2, <3>3, LeaseStepOf
  <2>4. CASE pc[w] \notin Leased
    <3>1. \A i \in Jobs : SameLease(w, i)
      BY <2>1, <2>4 DEF SameLease, PlaceOf, Keeps, Executing
    <3> QED BY <1>1, <1>2, <2>1, <3>1
  <2> QED BY <2>3, <2>4
<1>9. ASSUME NEW j \in Jobs, LeaseEnds(j) PROVE Goal
  <2>1. /\ \A w \in Workers : ~(beating[w] /\ Works(w, j) /\ lease[j] = WorkerId[w])
        /\ lease[j] # NoHolder /\ lease' = [lease EXCEPT ![j] = NoHolder]
        /\ \A v \in Workers : SameWorker(v)
    BY <1>9 DEF LeaseEnds, LeaseExpires, Expire, Free, HeldBy, workerVars, SameWorker
  <2>2. \A w \in Workers : Keeps(w, j) => WorkerId[w] # lease[j]
    BY <1>0, <2>1, JobOfType DEF Keeps, Executing, Works, Ids
  <2>3. UNCHANGED <<Places, Keepers>>
    BY <1>1, <1>2, <2>1
  <2>4. Lease!Expire(j)
    BY <2>1, <2>2, <2>3 DEF Lease!Expire, Lease!Set, Places, PlaceOf, Keepers, Keeps
  <2> QED BY <2>4 DEF Lease!Next
<1>10. CASE \E w \in Workers : WorkerActs(w) \/ Reads(w) \/ Claims(w) \/ WorkerFails(w)
  <2>1. PICK w \in Workers : \/ WorkerStep(w) \/ ReadMessage(w) \/ ClaimMessages(w)
                             \/ ClaimNothing(w) \/ CallFails(w) \/ WorkerCrash(w)
    BY <1>10 DEF WorkerActs, Reads, Claims, WorkerFails
  <2>2. \A v \in Workers \ {w} : SameWorker(v)
    BY <2>1, OthersUntouched
  <2>3. KeepsLease(w) => WorkerStep(w) \/ CallFails(w)
    <3>1. ASSUME ReadMessage(w) \/ ClaimMessages(w) \/ ClaimNothing(w) \/ WorkerCrash(w)
          PROVE  ~KeepsLease(w)
      BY <1>0, <3>1 DEF ReadMessage, ClaimMessages, ClaimNothing, Fetch, At, WorkerCrash, Forget,
                        Goto, KeepsLease, WorkerTypeOK
    <3> QED BY <2>1, <3>1
  <2> QED BY <1>4, <1>5, <1>6, <1>7, <2>1, <2>2, <2>3, LeaseEffect
<1>11. CASE \/ SchedulerActs \/ SchedulerStops
            \/ \E c \in Clients : Submits(c) \/ Commands(c) \/ Serves(c) \/ RequestLost(c)
            \/ UNCHANGED vars
  <2>1. UNCHANGED lease /\ \A v \in Workers : SameWorker(v)
    BY <1>11 DEF SchedulerActs, SchedulerStops, OfScheduler, Submits, Commands, Serves,
                 RequestLost, OfApi, vars, workerVars, SameWorker
  <2> QED BY <1>1, <1>2, <2>1
<1> QED
  BY <1>8, <1>9, <1>10, <1>11 DEF Next

(* The leases are those that LeaseClock implements: only a free one is       *)
(* taken, one that is kept alive does not expire, and only a worker that has *)
(* found its id in one deletes it (lease_store.py:27-48, worker.py:60-124).  *)
THEOREM OrchestratorImplementsLease == Spec => ImplementsLease
<1>1. Init => Lease!Init
  <2>1. "idle" \notin Leased
    BY DEF Leased, InTry, Marking, Starting, Completing, Retrying, Failing, Releasing
  <2> QED BY <2>1 DEF Init, WorkerInit, LeaseInit, Lease!Init, Executing
<1>2. Typed /\ [Next]_vars => [Lease!Next]_<<lease, Places, Keepers>>
  BY LeaseStep
<1> QED
  BY <1>1, <1>2, TypedInvariant, PTL
     DEF Spec, ImplementsLease, Lease!Spec, Lease!leaseVars, Places, PlaceOf, Keepers, Keeps

-----------------------------------------------------------------------------
(* The retry counter *)

(* The only ways to the two points at which RetriesSeen speaks.              *)
LEMMA RetryPoints ==
    ASSUME Typed, NEW w \in Workers, [Next]_vars
    PROVE  \/ SameWorker(w)
           \/ pc'[w] \notin {"retry", "retryCommit"}
           \/ /\ pc'[w] = "retry" /\ retries[JobOf(w)] < MaxRetries
              /\ pc[w] # "idle" /\ msg'[w] = msg[w] /\ retries' = retries
           \/ /\ pc[w] = "retry" /\ pc'[w] = "retryCommit" /\ seen'[w] = Row(JobOf(w))
              /\ msg'[w] = msg[w] /\ retries' = retries
           \/ /\ pc'[w] = pc[w] /\ msg'[w] = msg[w] /\ seen'[w] = seen[w]
<1>0. WorkerTypeOK
  BY DEF Typed, TypeOK
<1>1. CASE Stays(w)
  BY <1>1 DEF Stays
<1>2. CASE Proceeds(w)
  <2>1. CASE pc'[w] = "retry"
    <3>1. Decide(w)
      BY <1>2, <2>1, ActionAt DEF Proceeds, Flow
    <3> QED
      BY <1>0, <1>2, <2>1, <3>1 DEF Decide, Step, Goto, At, storeVars, Proceeds, WorkerTypeOK
  <2>2. CASE pc'[w] = "retryCommit"
    <3>1. pc[w] = "retry" /\ seen'[w] = Row(JobOf(w)) /\ msg'[w] = msg[w]
      BY <1>2, <2>2 DEF Proceeds, Flow, HasRead
    <3>2. retries' = retries
      BY <1>0, <2>2, <3>1, RetriesChange DEF WriteRow, At, Goto, WorkerTypeOK
    <3> QED BY <2>2, <3>1, <3>2
  <2> QED BY <2>1, <2>2
<1>3. CASE Drops(w) \/ MovesOn(w) \/ Fetches(w)
  BY <1>3 DEF Drops, MovesOn, Fetches
<1> QED BY <1>1, <1>2, <1>3, WorkerMoves

LEMMA RetryInvStep ==
    ASSUME Typed, LeaseInv, RetryInv, [Next]_vars
    PROVE  RetryInv'
<1>0. WorkerTypeOK /\ StoreTypeOK /\ MaxRetries \in Nat
  BY MaxRetriesAssumption DEF Typed, TypeOK
<1>p. {"retry", "retryCommit"} \subseteq Leased /\ "idle" \notin Leased
  BY DEF Leased, InTry, Marking, Starting, Completing, Retrying, Failing, Releasing
<1>1. ASSUME NEW v \in Workers, pc'[v] = pc[v], msg'[v] = msg[v], pc[v] # "idle"
      PROVE  JobOf(v)' = JobOf(v) /\ JobOf(v) \in Jobs
  BY <1>1, LeasedHasJob, JobOfType
<1>2. CASE retries' = retries
  <2>1. ASSUME NEW w \in Workers
        PROVE  /\ pc'[w] = "retry" => retries'[JobOf(w)'] < MaxRetries
               /\ pc'[w] = "retryCommit" => /\ (seen'[w]).retries = retries'[JobOf(w)']
                                            /\ retries'[JobOf(w)'] < MaxRetries
    <3>1. CASE /\ pc'[w] = pc[w] /\ msg'[w] = msg[w] /\ seen'[w] = seen[w]
      <4>1. CASE pc[w] \in {"retry", "retryCommit"}
        <5>1. JobOf(w)' = JobOf(w)
          BY <1>1, <3>1, <4>1
        <5> QED BY <1>2, <3>1, <5>1 DEF RetryInv, RetriesSeen
      <4> QED BY <3>1, <4>1
    <3>2. CASE /\ pc'[w] = "retry" /\ retries[JobOf(w)] < MaxRetries
               /\ pc[w] # "idle" /\ msg'[w] = msg[w]
      BY <1>2, <3>2, LeasedHasJob
    <3>3. CASE /\ pc[w] = "retry" /\ pc'[w] = "retryCommit" /\ seen'[w] = Row(JobOf(w))
               /\ msg'[w] = msg[w]
      <4>1. JobOf(w)' = JobOf(w)
        BY <3>3, LeasedHasJob
      <4>2. (seen'[w]).retries = retries[JobOf(w)]
        BY <3>3 DEF Row
      <4> QED BY <1>2, <3>3, <4>1, <4>2 DEF RetryInv, RetriesSeen
    <3> QED BY <3>1, <3>2, <3>3, RetryPoints DEF SameWorker
  <2>2. RetriesSeen'
    BY <2>1 DEF RetriesSeen
  <2> QED BY <1>2, <2>2 DEF RetryInv, RetryBudget
<1>3. ASSUME NEW u \in Workers, WriteRow(u, "retryCommit", "RETRYING", "retryAck")
      PROVE  RetryInv'
  <2>1. /\ pc[u] = "retryCommit" /\ pc' = [pc EXCEPT ![u] = "retryAck"]
        /\ retries' = [retries EXCEPT ![JobOf(u)] = seen[u].retries + 1]
        /\ seen' = [seen EXCEPT ![u] = NoRow]
        /\ UNCHANGED <<msg, entries>>
    BY <1>3 DEF WriteRow, CommitStatus, At, Goto, streamVars
  <2>2. JobOf(u) \in Jobs /\ seen[u].retries + 1 <= MaxRetries
    BY <1>0, <2>1, JobOfType DEF RetryInv, RetriesSeen, StoreTypeOK
  <2>3. \A v \in Workers \ {u} : pc[v] \in {"retry", "retryCommit"} =>
            JobOf(v) # JobOf(u) /\ JobOf(v)' = JobOf(v)
    BY <1>p, <2>1, <2>2 DEF LeaseInv, OneExecution, Executing, JobOf
  <2>4. \A v \in Workers \ {u} : pc'[v] = pc[v] /\ seen'[v] = seen[v]
    BY <1>0, <2>1 DEF WorkerTypeOK
  <2>5. pc'[u] = "retryAck"
    BY <1>0, <2>1 DEF WorkerTypeOK
  <2>6. \A v \in Workers \ {u} : pc[v] \in {"retry", "retryCommit"} =>
            retries'[JobOf(v)'] = retries[JobOf(v)]
    BY <1>0, <2>1, <2>2, <2>3, JobOfType DEF StoreTypeOK
  <2>7. RetriesSeen'
    BY <2>4, <2>5, <2>6 DEF RetryInv, RetriesSeen
  <2>8. RetryBudget'
    BY <1>0, <2>1, <2>2 DEF RetryInv, RetryBudget, StoreTypeOK
  <2> QED BY <2>7, <2>8 DEF RetryInv
<1> QED BY <1>2, <1>3, RetriesChange

(* No job is retried more than MAX_JOB_RETRIES times on its own account,     *)
(* although the limit is tested on one read of the row and the increment     *)
(* made on another (job_manager.py:502-510 and 339-340).                     *)
THEOREM RetriesBounded ==
    ASSUME MaxStalls = 0
    PROVE  Spec => []RetryBudget
<1>1. Init => RetryInv
  BY MaxRetriesAssumption
     DEF Init, StoreInit, WorkerInit, RetryInv, RetryBudget, RetriesSeen
<1>2. Typed /\ LeaseInv /\ RetryInv /\ [Next]_vars => RetryInv'
  BY RetryInvStep
<1>3. RetryInv => RetryBudget
  BY DEF RetryInv
<1>4. Typed /\ (stalls = 0 => LeaseInv) => LeaseInv
  BY DEF Typed, TypeOK
<1> QED
  BY <1>1, <1>2, <1>3, <1>4, LeaseInvariant, PTL DEF Spec

-----------------------------------------------------------------------------
(* The stream as a queue                                                     *)

(* The stream is only trimmed from the front, and never to fewer than        *)
(* JOB_STREAM_MAXLEN messages.                                               *)
TrimInv ==
    /\ Len(entries) <= MaxMsgs
    /\ trimmed = 0 \/ Len(entries) - trimmed >= StreamMaxLen

Unsettled(m) == cursor < m \/ m \in pending

(* Whatever has not been acknowledged is among the last JOB_STREAM_MAXLEN    *)
(* messages; the workers keep up with the senders.                           *)
BacklogFits == \A m \in Ids : Unsettled(m) => Len(entries) - m < StreamMaxLen

NothingTrimmed == \A m \in Ids : Unsettled(m) => trimmed < m

LEMMA TrimInvStep ==
    ASSUME Typed, TrimInv, [Next]_vars
    PROVE  TrimInv'
<1>0. entries \in Seq(Jobs) /\ trimmed \in Nat /\ StreamMaxLen \in Nat /\ MaxMsgs \in Nat
  BY StreamAssumption DEF Typed, TypeOK, StreamTypeOK
<1>1. ASSUME NEW j \in Jobs, Enqueue(j) PROVE TrimInv'
  <2>1. /\ Len(entries) \in Nat /\ Len(entries) < MaxMsgs
        /\ Len(entries') = Len(entries) + 1
    BY <1>0, <1>1 DEF Enqueue
  <2> QED BY <1>0, <1>1, <2>1 DEF Enqueue, TrimInv
<1>2. CASE UNCHANGED <<entries, trimmed>>
  BY <1>2 DEF TrimInv
<1>3. UNCHANGED <<entries, trimmed>> \/ \E j \in Jobs : Enqueue(j)
  BY StreamChange DEF ReadMessage, Deliver, ClaimMessages, ClaimNothing, Claim, Ack
<1> QED BY <1>1, <1>2, <1>3

LEMMA TrimInvariant == Spec => [](Typed /\ TrimInv)
<1>1. Init => TrimInv
  BY StreamAssumption DEF Init, StreamInit, TrimInv
<1>2. Typed /\ TrimInv /\ [Next]_vars => TrimInv'
  BY TrimInvStep
<1> QED
  BY <1>1, <1>2, TypedInvariant, PTL DEF Spec

LEMMA NothingTrimmedHolds ==
    ASSUME Typed, TrimInv, BacklogFits
    PROVE  NothingTrimmed
<1>1. Len(entries) \in Nat /\ trimmed \in Nat /\ StreamMaxLen \in Nat
  BY StreamAssumption DEF Typed, TypeOK, StreamTypeOK
<1> QED BY <1>1 DEF TrimInv, BacklogFits, NothingTrimmed, Ids

(* A stream that never reaches JOB_STREAM_MAXLEN is not trimmed at all.      *)
LEMMA SmallStreamsFit ==
    ASSUME MaxMsgs <= StreamMaxLen
    PROVE  Spec => []BacklogFits
<1>1. ASSUME Typed, TrimInv PROVE BacklogFits
  <2>1. Len(entries) \in Nat /\ StreamMaxLen \in Nat /\ MaxMsgs \in Nat
    BY <1>1, StreamAssumption DEF Typed, TypeOK, StreamTypeOK
  <2> QED BY <1>1, <2>1 DEF TrimInv, BacklogFits, Ids
<1> QED
  BY <1>1, TrimInvariant, PTL

(* What the queue sees of the stream and of the workers.                     *)
InFlight == {m \in pending : trimmed < m}
Hands == [w \in Workers |-> Held(w)]

QueueMoves == [Queue!Next]_<<Len(entries), trimmed, Undelivered, InFlight, Hands>>

(* A step of one worker only changes what that worker has in hand.           *)
LEMMA OneHandMoves ==
    ASSUME NEW w \in Workers, \A v \in Workers \ {w} : SameWorker(v)
    PROVE  Hands' = [Hands EXCEPT ![w] = Held(w)']
<1>1. \A v \in Workers \ {w} : Held(v)' = Held(v)
  BY DEF SameWorker, Held, InHand
<1> QED BY <1>1 DEF Hands

LEMMA PutView ==
    ASSUME Typed, NEW j \in Jobs, Enqueue(j), Hands' = Hands
    PROVE  Queue!Put
<1> DEFINE m == Len(entries) + 1
<1>0. /\ entries \in Seq(Jobs) /\ Len(entries) \in Nat /\ StreamMaxLen \in Nat
      /\ cursor \in Nat /\ cursor <= Len(entries)
      /\ trimmed \in Nat /\ trimmed <= Len(entries) /\ pending \subseteq Nat
  BY StreamAssumption DEF Typed, TypeOK, StreamTypeOK
<1>1. /\ Len(entries) < MaxMsgs /\ Len(entries') = m
      /\ cursor' = cursor /\ pending' = pending
  BY <1>0 DEF Enqueue
<1>2. /\ trimmed' \in 0..m /\ trimmed <= trimmed'
      /\ \/ trimmed' = trimmed
         \/ trimmed' > trimmed /\ m - trimmed' >= StreamMaxLen
  BY <1>0 DEF Enqueue
<1>3. Undelivered' = {n \in Undelivered \cup {m} : trimmed' < n}
  BY <1>0, <1>1, <1>2 DEF Undelivered, Ids
<1>4. InFlight' = {n \in InFlight : trimmed' < n}
  <2>1. ASSUME NEW n \in pending, trimmed' < n PROVE trimmed < n
    <3>1. n \in Nat /\ trimmed' \in Nat
      BY <1>0, <1>2
    <3> QED BY <1>0, <1>2, <2>1, <3>1
  <2> QED BY <1>1, <2>1 DEF InFlight
<1> QED BY <1>1, <1>2, <1>3, <1>4 DEF Queue!Put, Queue!Drop, InFlight, Hands

(* A worker acknowledges the message it has in hand, or only loses some.     *)
LEMMA WorkerActsView ==
    ASSUME Typed, NEW w \in Workers, WorkerActs(w)
    PROVE  \/ Queue!Next
           \/ UNCHANGED <<Len(entries), trimmed, Undelivered, InFlight, Hands>>
<1>1. /\ WorkerStep(w) /\ pc[w] # "idle" /\ Held(w)' \subseteq Held(w)
  <2>1. Proceeds(w) \/ Drops(w) \/ MovesOn(w)
    BY WorkerStepMoves DEF WorkerActs
  <2> QED BY <2>1 DEF WorkerActs, Proceeds, Flow, Drops, MovesOn, Held, InHand
<1>2. \A v \in Workers \ {w} : SameWorker(v)
  BY <1>1, OthersUntouched
<1>3. Hands' = [Hands EXCEPT ![w] = Held(w)'] /\ Hands[w] = Held(w)
  BY <1>2, OneHandMoves DEF Hands
<1>4. CASE Requeue(w)
  <2>1. /\ Enqueue(JobOf(w)) /\ pc[w] = "requeue" /\ pc'[w] = "release"
        /\ UNCHANGED <<msg, batch>>
    BY <1>4 DEF Requeue, Step, At, Goto, Typed, TypeOK, WorkerTypeOK
  <2>2. JobOf(w) \in Jobs
    BY <2>1, JobOfType
  <2>3. Hands' = Hands
    BY <1>3, <2>1 DEF Hands, Held, InHand
  <2> QED BY <2>1, <2>2, <2>3, PutView DEF Queue!Next
<1>5. CASE AckSkipped(w) \/ AckRetried(w) \/ AckDone(w)
  <2>1. Ack(msg[w]) /\ msg[w] \in Held(w)
    BY <1>1, <1>5 DEF AckSkipped, AckRetried, AckDone, Held, InHand
  <2>2. /\ UNCHANGED <<Len(entries), trimmed, Undelivered>>
        /\ InFlight' = InFlight \ {msg[w]}
    BY <2>1 DEF Ack, Undelivered, Ids, InFlight
  <2>3. Queue!Settle(w)
    BY <1>1, <1>3, <2>1, <2>2 DEF Queue!Settle, Queue!Keeps, InFlight, Hands
  <2> QED BY <2>3 DEF Queue!Next
<1>6. CASE ~(Requeue(w) \/ AckSkipped(w) \/ AckRetried(w) \/ AckDone(w))
  <2>1. UNCHANGED <<entries, trimmed, cursor, pending>>
    BY <1>1, <1>6
       DEF WorkerStep, GetJob, AcquireLease, LeaseBusy, MarkRunning,
           ReadAttempt, StartRun, AttemptTaken, RunSucceeds, RunFails, MarkCompleted,
           Decide, MarkRetrying, MarkFailed, DeadLetter, CheckLease,
           DeleteLease, ReadRow, WriteRow, SendToDlq, streamVars
  <2>2. UNCHANGED <<Len(entries), trimmed, Undelivered, InFlight>>
    BY <2>1 DEF Undelivered, Ids, InFlight
  <2>3. Queue!PutDown(w)
    BY <1>1, <1>3, <2>2 DEF Queue!PutDown, Queue!Keeps, InFlight, Hands
  <2> QED BY <2>3 DEF Queue!Next
<1> QED BY <1>4, <1>5, <1>6

LEMMA WorkerFailsView ==
    ASSUME Typed, NEW w \in Workers, WorkerFails(w)
    PROVE  Queue!Next
<1>1. /\ CallFails(w) \/ WorkerCrash(w)
      /\ UNCHANGED <<entries, trimmed, cursor, pending>>
  BY DEF WorkerFails, CallFails, WorkerCrash, streamVars
<1>2. Held(w)' \subseteq Held(w)
  BY <1>1 DEF CallFails, WorkerCrash, Raise, Forget, Goto, At, InTry, Marking, Starting,
              Completing, Retrying, Failing, Held, InHand, Typed, TypeOK, WorkerTypeOK
<1>3. \A v \in Workers \ {w} : SameWorker(v)
  BY <1>1, OthersUntouched
<1>4. Hands' = [Hands EXCEPT ![w] = Held(w)'] /\ Hands[w] = Held(w)
  BY <1>3, OneHandMoves DEF Hands
<1>5. UNCHANGED <<Len(entries), trimmed, Undelivered, InFlight>>
  BY <1>1 DEF Undelivered, Ids, InFlight
<1>6. Queue!PutDown(w)
  BY <1>2, <1>4, <1>5 DEF Queue!PutDown, Queue!Keeps, InFlight, Hands
<1> QED BY <1>6 DEF Queue!Next

LEMMA TakeView ==
    ASSUME Typed, NEW w \in Workers, ReadMessage(w)
    PROVE  Queue!Take(w)
<1>1. PICK m \in Ids : Deliver(m) /\ Fetch(w, m, {})
  BY DEF ReadMessage
<1>2. /\ Held(w) = {} /\ Held(w)' = {m}
  <2>1. pc[w] = "idle" /\ pc'[w] = "fetched" /\ msg'[w] = m /\ batch'[w] = {}
    BY <1>1 DEF Fetch, At, Goto, Typed, TypeOK, WorkerTypeOK
  <2> QED BY <2>1 DEF Held, InHand
<1>3. \A v \in Workers \ {w} : SameWorker(v)
  BY OthersUntouched
<1>4. Hands' = [Hands EXCEPT ![w] = {m}] /\ Hands[w] = {}
  BY <1>2, <1>3, OneHandMoves DEF Hands
<1>5. /\ m \in Undelivered /\ \A n \in Undelivered : m <= n
      /\ cursor' = m /\ pending' = pending \cup {m} /\ UNCHANGED <<entries, trimmed>>
  BY <1>1 DEF Deliver
<1>6. Undelivered' = Undelivered \ {m}
  <2>1. Ids' = Ids /\ Ids \subseteq Nat /\ cursor \in Nat
    BY <1>5 DEF Ids, Typed, TypeOK, StreamTypeOK
  <2>2. \A n \in Ids : m < n <=> cursor < n /\ m <= n /\ n # m
    BY <1>5, <2>1 DEF Undelivered
  <2>3. Undelivered' = {n \in Ids : m < n /\ trimmed < n}
    BY <1>5, <2>1 DEF Undelivered
  <2> QED BY <1>5, <2>2, <2>3 DEF Undelivered
<1>7. InFlight' = InFlight \cup {m}
  BY <1>5 DEF InFlight, Undelivered
<1> QED BY <1>4, <1>5, <1>6, <1>7 DEF Queue!Take, InFlight, Hands

LEMMA RetakeView ==
    ASSUME Typed, NEW w \in Workers, ClaimMessages(w)
    PROVE  Queue!Retake(w)
<1>1. PICK S \in SUBSET Idle : \E first \in S : Claim(S) /\ Fetch(w, first, S \ {first})
  BY DEF ClaimMessages
<1>2. PICK first \in S : Claim(S) /\ Fetch(w, first, S \ {first})
  BY <1>1
<1>3. /\ Held(w) = {} /\ Held(w)' = S
  BY <1>2 DEF Fetch, At, Goto, Held, InHand, Typed, TypeOK, WorkerTypeOK
<1>4. \A v \in Workers \ {w} : SameWorker(v)
  BY OthersUntouched
<1>5. Hands' = [Hands EXCEPT ![w] = S] /\ Hands[w] = {}
  BY <1>3, <1>4, OneHandMoves DEF Hands
<1>6. /\ S \subseteq InFlight
      /\ UNCHANGED <<Len(entries), trimmed, Undelivered, InFlight>>
  BY <1>2 DEF Claim, InFlight, Undelivered, Ids
<1>7. ClaimBusy \/ \A v \in Workers : S \cap Hands[v] = {}
  BY <1>1 DEF Idle, Hands, Held
<1> QED BY <1>5, <1>6, <1>7 DEF Queue!Retake, InFlight, Hands

LEMMA QueueStep ==
    ASSUME Typed, [Next]_vars
    PROVE  QueueMoves
<1> DEFINE Still == UNCHANGED <<Len(entries), trimmed, Undelivered, InFlight, Hands>>
<1> SUFFICES Queue!Next \/ Still
  BY DEF QueueMoves
<1>1. ASSUME UNCHANGED <<entries, trimmed, cursor, pending>>, UNCHANGED <<pc, msg, batch>>
      PROVE  Still
  BY <1>1 DEF Undelivered, Ids, InFlight, Hands, Held, InHand
<1>2. ASSUME NEW w \in Workers,
             \/ WorkerActs(w) \/ Reads(w) \/ Claims(w)
             \/ HeartbeatEnds(w) \/ HeartbeatStalls(w) \/ WorkerFails(w)
      PROVE  Queue!Next \/ Still
  <2>1. CASE ReadMessage(w) \/ ClaimMessages(w)
    BY <2>1, TakeView, RetakeView DEF Queue!Next
  <2>2. CASE ClaimNothing(w)
    BY <2>2 DEF ClaimNothing, Claim, workerVars, Undelivered, Ids, InFlight, Hands, Held,
                InHand
  <2>3. CASE HeartbeatEnds(w) \/ HeartbeatStalls(w)
    BY <1>1, <2>3 DEF HeartbeatEnds, HeartbeatLost, HeartbeatStalls, Stall, streamVars
  <2> QED
    BY <1>2, <2>1, <2>2, <2>3, WorkerActsView, WorkerFailsView DEF Reads, Claims
<1>3. CASE UNCHANGED workerVars
  <2>1. CASE \E j \in Jobs : Enqueue(j)
    <3>1. Hands' = Hands
      BY <1>3 DEF workerVars, Hands, Held, InHand
    <3> QED BY <2>1, <3>1, PutView DEF Queue!Next
  <2>2. CASE UNCHANGED <<entries, trimmed, cursor, pending>>
    BY <1>1, <1>3, <2>2 DEF workerVars
  <2>3. CASE \E w \in Workers : ReadMessage(w) \/ ClaimMessages(w) \/ ClaimNothing(w)
    BY <2>3, TakeView, RetakeView, <1>3
       DEF Queue!Next, ClaimNothing, Claim, workerVars, Undelivered, Ids, InFlight, Hands,
           Held, InHand
  <2>4. CASE \E w \in Workers : WorkerActs(w)
    BY <2>4, WorkerActsView
  <2> QED BY <2>1, <2>2, <2>3, <2>4, StreamChange
<1>4. CASE \E j \in Jobs : LeaseEnds(j)
  BY <1>3, <1>4 DEF LeaseEnds, LeaseExpires
<1>5. CASE \/ SchedulerActs \/ SchedulerStops
           \/ \E c \in Clients : Submits(c) \/ Commands(c) \/ Serves(c) \/ RequestLost(c)
  BY <1>3, <1>5 DEF SchedulerActs, SchedulerStops, OfScheduler, Submits, Commands, Serves,
                    RequestLost, OfApi
<1>6. CASE UNCHANGED vars
  BY <1>3, <1>6 DEF vars
<1> QED BY <1>2, <1>4, <1>5, <1>6 DEF Next

(* The stream with its workers implements WorkQueue (stream_queue.py:50-125, *)
(* worker.py:34-124): with any number of workers that crash, read, reclaim   *)
(* and acknowledge the same messages, a message stays in flight until one    *)
(* that has it in hand acknowledges it or JOB_STREAM_MAXLEN newer ones have  *)
(* followed.                                                                 *)
THEOREM StreamImplementsQueue == Spec => AtLeastOnce
<1>1. Init => Queue!Init
  BY DEF Init, StreamInit, WorkerInit, Queue!Init, Undelivered, Ids, Held
<1>2. Typed /\ [Next]_vars => [Queue!Next]_Queue!queueVars
  BY QueueStep DEF QueueMoves, Queue!queueVars, InFlight, Hands
<1> QED
  BY <1>1, <1>2, TypedInvariant, PTL DEF Spec, AtLeastOnce, Queue!Spec

(* Without trimming, what is pending is what is in flight.                   *)
LEMMA UntrimmedView ==
    ASSUME StreamTypeOK, NothingTrimmed
    PROVE  {m \in pending : trimmed < m} = pending
<1>1. pending \subseteq Ids
  BY DEF StreamTypeOK, Ids
<1> QED BY <1>1 DEF NothingTrimmed, Unsettled

-----------------------------------------------------------------------------
(* Messages in hand                                                          *)

(* The points between the acknowledgement of the message in hand and the end *)
(* of _process_message.                                                      *)
Acked == {"requeue"} \cup Releasing

(* No two workers have one message in hand; what a worker has yet to process *)
(* is delivered and pending, and so is what it has not acknowledged yet.     *)
HandsApart == \A v, w \in Workers : v # w => Held(v) \cap Held(w) = {}

HandsInv ==
    /\ HandsApart
    /\ \A w \in Workers : Held(w) \subseteq 1..cursor
    /\ \A w \in Workers : pc[w] # "idle" =>
          /\ msg[w] \notin batch[w] /\ batch[w] \subseteq pending
          /\ pc[w] \notin Acked => msg[w] \in pending

(* What is pending stays so until the worker that has it acknowledges it.    *)
LEMMA PendingKept ==
    ASSUME Typed, NothingTrimmed, [Next]_vars, NEW m \in pending
    PROVE  \/ m \in pending'
           \/ \E u \in Workers : /\ WorkerActs(u) /\ msg[u] = m
                                 /\ pc[u] \in {"skip", "retryAck", "ack"}
<1>1. {n \in pending : trimmed < n} = pending
  BY UntrimmedView DEF Typed, TypeOK
<1>2. ASSUME NEW u \in Workers, ReadMessage(u) \/ ClaimMessages(u) \/ ClaimNothing(u)
      PROVE  pending \subseteq pending'
  BY <1>1, <1>2 DEF ReadMessage, Deliver, ClaimMessages, ClaimNothing, Claim
<1> QED BY <1>2, StreamChange DEF Enqueue, Ack

LEMMA CursorGrows ==
    ASSUME Typed, [Next]_vars
    PROVE  cursor \in Nat /\ cursor' \in Nat /\ cursor <= cursor'
<1>1. cursor \in Nat /\ Ids \subseteq Nat
  BY DEF Typed, TypeOK, StreamTypeOK, Ids
<1> QED
  BY <1>1, StreamChange DEF Enqueue, ReadMessage, Deliver, Undelivered, ClaimMessages,
                            ClaimNothing, Claim, Ack

(* A worker gets messages by a read, of one that nobody had, or by a claim   *)
(* of some that nobody has.                                                  *)
LEMMA FetchEffect ==
    ASSUME ClaimBusy = FALSE, Typed, NothingTrimmed, HandsInv, [Next]_vars,
           NEW w \in Workers, Fetches(w)
    PROVE  /\ Held(w)' \subseteq pending' /\ Held(w)' \subseteq 1..cursor'
           /\ \A v \in Workers \ {w} : /\ SameWorker(v) /\ Held(v)' = Held(v)
                                       /\ Held(w)' \cap Held(v) = {}
           /\ msg'[w] \notin batch'[w]
           /\ Held(w)' = {msg'[w]} \cup batch'[w]
<1>0. /\ WorkerTypeOK /\ pc'[w] = "fetched"
      /\ Held(w)' = {msg'[w]} \cup batch'[w]
  BY DEF Fetches, Typed, TypeOK, Held, InHand
<1>1. ASSUME NEW v \in Workers \ {w}
      PROVE  SameWorker(v) /\ Held(v)' = Held(v)
  <2>1. SameWorker(v)
    BY OthersUntouched DEF Fetches
  <2> QED BY <2>1 DEF SameWorker, Held, InHand
<1>2. CASE ReadMessage(w)
  <2>1. PICK m \in Ids : Deliver(m) /\ Fetch(w, m, {})
    BY <1>2 DEF ReadMessage
  <2>2. msg'[w] = m /\ batch'[w] = {}
    BY <1>0, <2>1 DEF Fetch, WorkerTypeOK
  <2>3. m \in pending' /\ cursor' = m /\ cursor < m /\ m \in Nat /\ cursor \in Nat
    BY <2>1 DEF Deliver, Undelivered, Ids, Typed, TypeOK, StreamTypeOK
  <2>4. \A v \in Workers : m \notin Held(v)
    BY <2>3 DEF HandsInv
  <2> QED BY <1>0, <1>1, <2>2, <2>3, <2>4
<1>3. CASE ClaimMessages(w)
  <2>1. PICK S \in SUBSET Idle : \E first \in S : Claim(S) /\ Fetch(w, first, S \ {first})
    BY <1>3 DEF ClaimMessages
  <2>2. PICK first \in S : Claim(S) /\ Fetch(w, first, S \ {first})
    BY <2>1
  <2>3. msg'[w] = first /\ batch'[w] = S \ {first} /\ Held(w)' = S
    BY <1>0, <2>2 DEF Fetch, WorkerTypeOK
  <2>4. S \subseteq pending' /\ S \subseteq 1..cursor'
    BY <2>2 DEF Claim, Typed, TypeOK, StreamTypeOK
  <2>5. \A v \in Workers : S \cap Held(v) = {}
    BY <2>1 DEF Idle, Held
  <2> QED BY <1>0, <1>1, <2>3, <2>4, <2>5
<1> QED BY <1>2, <1>3 DEF Fetches

(* Otherwise it only loses messages, the acknowledged one first.             *)
LEMMA HandShrinks ==
    ASSUME Typed, HandsInv, [Next]_vars, NEW w \in Workers, ~Fetches(w)
    PROVE  /\ Held(w)' \subseteq Held(w)
           /\ pc'[w] # "idle" =>
                 /\ pc[w] # "idle" /\ batch'[w] \subseteq batch[w]
                 /\ msg'[w] \in {msg[w]} \cup batch[w] /\ msg'[w] \notin batch'[w]
                 /\ pc'[w] \notin Acked =>
                       \/ msg'[w] \in batch[w]
                       \/ /\ msg'[w] = msg[w] /\ pc[w] \notin Acked
                          /\ WorkerActs(w) => pc[w] \notin {"skip", "retryAck", "ack"}
<1> USE DEF Acked, Releasing
<1>1. CASE Stays(w) /\ ~WorkerActs(w)
  BY <1>1 DEF Stays, Held, InHand, HandsInv
<1>2. CASE Proceeds(w)
  <2>1. /\ pc[w] # "idle" /\ pc'[w] # "idle" /\ msg'[w] = msg[w] /\ batch'[w] = batch[w]
        /\ pc'[w] \notin Acked => pc[w] \notin Acked \cup {"skip", "retryAck", "ack"}
    BY <1>2 DEF Proceeds, Flow
  <2> QED BY <2>1 DEF Held, InHand, HandsInv
<1>3. CASE Drops(w)
  BY <1>3 DEF Drops, Held, InHand, HandsInv
<1>4. CASE MovesOn(w)
  BY <1>4 DEF MovesOn, Held, InHand, HandsInv
<1>5. ASSUME WorkerActs(w) PROVE Proceeds(w) \/ Drops(w) \/ MovesOn(w)
  BY <1>5, WorkerStepMoves DEF WorkerActs
<1> QED BY <1>1, <1>2, <1>3, <1>4, <1>5, WorkerMoves

LEMMA HandsInvStep ==
    ASSUME ClaimBusy = FALSE, Typed, Typed', NothingTrimmed, HandsInv, [Next]_vars
    PROVE  HandsInv'
<1>1. HandsApart'
  <2>1. SUFFICES ASSUME NEW v \in Workers, NEW w \in Workers, v # w
                 PROVE  Held(v)' \cap Held(w)' = {}
    BY DEF HandsApart
  <2>2. Held(v) \cap Held(w) = {}
    BY <2>1 DEF HandsInv, HandsApart
  <2>3. CASE Fetches(v)
    <3>1. Held(w)' = Held(w) /\ Held(v)' \cap Held(w) = {}
      BY <2>1, <2>3, FetchEffect
    <3> QED BY <3>1
  <2>4. CASE Fetches(w)
    <3>1. Held(v)' = Held(v) /\ Held(w)' \cap Held(v) = {}
      BY <2>1, <2>4, FetchEffect
    <3> QED BY <3>1
  <2>5. CASE ~Fetches(v) /\ ~Fetches(w)
    <3>1. Held(v)' \subseteq Held(v) /\ Held(w)' \subseteq Held(w)
      BY <2>5, HandShrinks
    <3> QED BY <2>2, <3>1
  <2> QED BY <2>3, <2>4, <2>5
<1>2. ASSUME NEW w \in Workers PROVE Held(w)' \subseteq 1..cursor'
  <2>1. CASE Fetches(w)
    BY <2>1, FetchEffect
  <2>2. CASE ~Fetches(w)
    <3>1. Held(w)' \subseteq Held(w) /\ Held(w) \subseteq 1..cursor
      BY <2>2, HandShrinks DEF HandsInv
    <3>2. 1..cursor \subseteq 1..cursor'
      BY CursorGrows
    <3> QED BY <3>1, <3>2
  <2> QED BY <2>1, <2>2
<1>3. ASSUME NEW w \in Workers, pc'[w] # "idle"
      PROVE  /\ msg'[w] \notin batch'[w] /\ batch'[w] \subseteq pending'
             /\ pc'[w] \notin Acked => msg'[w] \in pending'
  <2>1. CASE Fetches(w)
    BY <2>1, FetchEffect
  <2>2. CASE ~Fetches(w)
    <3>1. /\ pc[w] # "idle" /\ Held(w) = {msg[w]} \cup batch[w]
          /\ msg[w] \notin batch[w] /\ batch[w] \subseteq pending
          /\ pc[w] \notin Acked => msg[w] \in pending
      BY <1>3, <2>2, HandShrinks DEF HandsInv, Held, InHand
    <3>2. ASSUME NEW m \in Held(w), m \in pending, m \notin pending'
          PROVE  WorkerActs(w) /\ msg[w] = m /\ pc[w] \in {"skip", "retryAck", "ack"}
      <4>1. PICK u \in Workers : /\ WorkerActs(u) /\ msg[u] = m
                                 /\ pc[u] \in {"skip", "retryAck", "ack"}
        BY <3>2, PendingKept
      <4>2. m \in Held(u)
        BY <4>1 DEF Held, InHand
      <4>3. u = w
        BY <3>2, <4>2 DEF HandsInv, HandsApart
      <4> QED BY <4>1, <4>3
    <3>3. batch[w] \subseteq pending'
      BY <3>1, <3>2
    <3>4. batch'[w] \subseteq batch[w] /\ msg'[w] \notin batch'[w]
      BY <1>3, <2>2, HandShrinks
    <3>5. ASSUME pc'[w] \notin Acked PROVE msg'[w] \in pending'
      <4>1. CASE msg'[w] \in batch[w]
        BY <3>3, <4>1
      <4>2. CASE /\ msg'[w] = msg[w] /\ pc[w] \notin Acked
                 /\ WorkerActs(w) => pc[w] \notin {"skip", "retryAck", "ack"}
        BY <3>1, <3>2, <4>2
      <4> QED BY <1>3, <2>2, <3>5, <4>1, <4>2, HandShrinks
    <3> QED BY <3>3, <3>4, <3>5
  <2> QED BY <2>1, <2>2
<1> QED BY <1>1, <1>2, <1>3 DEF HandsInv

-----------------------------------------------------------------------------
(* The status of a job while it is executed                                  *)

Decided == {"COMPLETED", "FAILED"}

(* From the commit of RUNNING to the commit that ends the attempt.           *)
Executes == {"exec", "decide"} \cup Starting \cup Completing \cup Retrying \cup Failing

(* The row of a job that is being executed is not decided by anybody else,   *)
(* so that the commit to come does change it: a commit writes nothing when   *)
(* the row was read with the same status.                                    *)
StatusOpen ==
    \A w \in Workers :
        /\ pc[w] \in Executes => status[JobOf(w)] \notin Decided
        /\ pc[w] \in {"completeCommit", "failCommit"} => seen[w].status \notin Decided
        /\ pc[w] = "markCommit" /\ status[JobOf(w)] \in Decided => seen[w].status \in Decided

(* While a worker executes a job, only that worker decides it.               *)
LEMMA DecidedByOne ==
    ASSUME Typed, LeaseInv, [Next]_vars, NEW w \in Workers,
           pc[w] \in Leased, status'[JobOf(w)] \in Decided, status[JobOf(w)] \notin Decided
    PROVE  pc[w] \in {"completeCommit", "failCommit"} /\ pc'[w] \in {"ack", "dlq"}
<1>0. JobOf(w) \in Jobs /\ WorkerTypeOK
  BY JobOfType DEF Typed, TypeOK, Leased, InTry, Marking, Starting, Completing, Retrying,
                   Failing, Releasing
<1>1. PICK u \in Workers : Writes(u, JobOf(w), status'[JobOf(w)])
  BY <1>0, StatusChange DEF Decided
<1>2. /\ JobOf(u) = JobOf(w) /\ pc[u] \in {"completeCommit", "failCommit"}
      /\ pc'[u] \in {"ack", "dlq"}
  BY <1>0, <1>1 DEF Writes, WriteRow, At, Goto, WorkerTypeOK, Decided
<1>3. pc[u] \in Leased
  BY <1>2 DEF Leased, InTry, Completing, Failing
<1>4. u = w
  BY <1>0, <1>2, <1>3 DEF LeaseInv, OneExecution, Executing
<1> QED BY <1>2, <1>4

LEMMA StatusOpenStep ==
    ASSUME Typed, LeaseInv, StatusOpen, [Next]_vars
    PROVE  StatusOpen'
<1> USE DEF Executes, Starting, Completing, Retrying, Failing
<1>0. StoreTypeOK
  BY DEF Typed, TypeOK
<1> DEFINE OpenAt(w, i) ==
        /\ pc[w] \in Executes => status[i] \notin Decided
        /\ pc[w] \in {"completeCommit", "failCommit"} => seen[w].status \notin Decided
        /\ pc[w] = "markCommit" /\ status[i] \in Decided => seen[w].status \in Decided
<1>1. SUFFICES ASSUME NEW w \in Workers, pc'[w] \in Executes \cup {"markCommit"},
                      NEW j \in Jobs, j = JobOf(w),
                      pc[w] \in Executes \cup Marking, Stays(w) \/ Proceeds(w)
               PROVE  OpenAt(w, j)'
  <2>1. SUFFICES ASSUME NEW w \in Workers, pc'[w] \in Executes \cup {"markCommit"}
                 PROVE  OpenAt(w, JobOf(w))'
    BY DEF StatusOpen
  <2>2. Stays(w) \/ Proceeds(w)
    BY <2>1, WorkerMoves DEF Drops, MovesOn, Fetches
  <2>3. pc[w] \in Executes \cup Marking /\ msg'[w] = msg[w]
    BY <2>1, <2>2 DEF Stays, Proceeds, Flow, Marking
  <2>4. pc[w] # "idle"
    BY <2>3 DEF Marking
  <2>5. JobOf(w) \in Jobs /\ JobOf(w)' = JobOf(w)
    BY <2>3, <2>4, JobOfType, LeasedHasJob
  <2>6. OpenAt(w, JobOf(w))' <=> \A i \in Jobs : i = JobOf(w) => OpenAt(w, i)'
    BY <2>5
  <2> QED BY <2>1, <2>2, <2>3, <2>6
<1>2. pc[w] \in Leased
  BY <1>1 DEF Leased, InTry, Marking
<1>3. status'[j] \in Decided => status[j] \in Decided
  BY <1>1, <1>2, DecidedByOne
<1>4. pc'[w] \in Executes => status'[j] \notin Decided
  <2>1. CASE pc[w] \in Executes
    BY <1>1, <1>3, <2>1 DEF StatusOpen
  <2>2. CASE pc[w] = "markCommit" /\ pc'[w] = "start"
    <3>1. WriteRow(w, "markCommit", "RUNNING", "start")
      BY <1>1, <2>2, WriteAt DEF Proceeds, Stays
    <3>2. status' = IF "RUNNING" = seen[w].status THEN status
                    ELSE [status EXCEPT ![j] = "RUNNING"]
      BY <1>1, <3>1 DEF WriteRow, CommitStatus
    <3> QED BY <1>0, <1>1, <2>2, <3>2 DEF StatusOpen, Decided, StoreTypeOK
  <2> QED BY <1>1, <2>1, <2>2 DEF Stays, Proceeds, Flow, Marking
<1>5. ASSUME pc'[w] \in {"completeCommit", "failCommit"}
      PROVE  (seen'[w]).status \notin Decided
  <2>1. CASE Stays(w)
    BY <1>5, <2>1 DEF Stays, StatusOpen
  <2>2. CASE Proceeds(w)
    <3>1. pc[w] \in {"complete", "fail"} /\ seen'[w] = Row(j)
      BY <1>1, <1>5, <2>2 DEF Proceeds, Flow, HasRead
    <3> QED BY <1>1, <3>1 DEF StatusOpen, Row
  <2> QED BY <1>1, <2>1, <2>2
<1>6. ASSUME pc'[w] = "markCommit", status'[j] \in Decided
      PROVE  (seen'[w]).status \in Decided
  <2>1. CASE Stays(w)
    BY <1>1, <1>3, <1>6, <2>1 DEF Stays, StatusOpen
  <2>2. CASE Proceeds(w)
    <3>1. seen'[w] = Row(j)
      BY <1>1, <1>6, <2>2 DEF Proceeds, HasRead
    <3> QED BY <1>3, <1>6, <3>1 DEF Row
  <2> QED BY <1>1, <2>1, <2>2
<1> QED BY <1>4, <1>5, <1>6

-----------------------------------------------------------------------------
(* Jobs under way                                                            *)

OnePicked == \A i, j \in picked : i = j

(* A worker that will acknowledge m next, and not send it again.             *)
Doomed(m) == \E w \in Workers : msg[w] = m /\ pc[w] \in {"skip", "dlq", "ack"}

Alive(m) == cursor < m \/ (m \in pending /\ ~Doomed(m))

(* The ways in which a job is on its way to an execution.                    *)
Carried(j) ==
    \/ spc = "enqueue" /\ j \in picked
    \/ \E m \in Ids : entries[m] = j /\ Alive(m)
    \/ \E w \in Workers : pc[w] = "requeue" /\ JobOf(w) = j

UnderWay == {"RUNNING", "RETRYING"}
AllCarried == \A j \in Jobs : status[j] \in UnderWay => Carried(j)

LEMMA OnePickedStep == ASSUME OnePicked, [Next]_vars PROVE OnePicked'
<1>1. CASE SchedulerActs \/ SchedulerStops
  BY <1>1 DEF OnePicked, SchedulerActs, SchedulerStops, SchedulerStep, SchedulerFails, Resting,
              ListJobs, CheckParent, NothingRunnable, PickJob, MarkQueued, EnqueuePicked
<1>2. CASE UNCHANGED schedVars
  BY <1>2 DEF OnePicked, schedVars
<1> QED BY <1>1, <1>2, SchedulerMoves

(* A message that was just sent waits to be delivered.                       *)
LEMMA SentIsCarried ==
    ASSUME Typed, Typed', NEW j \in Jobs, Enqueue(j)
    PROVE  Carried(j)'
<1>1. /\ entries \in Seq(Jobs) /\ entries' = Append(entries, j)
      /\ cursor' = cursor /\ cursor \in Nat /\ cursor <= Len(entries)
  BY DEF Typed, TypeOK, StreamTypeOK, Enqueue
<1>2. Len(entries) + 1 \in Ids' /\ entries'[Len(entries) + 1] = j /\ cursor' < Len(entries) + 1
  BY <1>1 DEF Ids
<1>3. PICK m \in Ids' : entries'[m] = j /\ cursor' < m
  BY <1>2
<1>4. Alive(m)'
  BY <1>3 DEF Alive
<1> QED BY <1>3, <1>4 DEF Carried

(* The commits of a worker that put its job under way leave it with a        *)
(* message that it does not acknowledge before it sends another.             *)
LEMMA MarkedIsCarried ==
    ASSUME ClaimBusy = FALSE, Typed, Typed', NothingTrimmed, HandsInv, HandsInv', [Next]_vars,
           NEW w \in Workers, NEW target, NEW to,
           \/ WriteRow(w, "markCommit", target, to) /\ to = "start"
           \/ WriteRow(w, "retryCommit", target, to) /\ to = "retryAck"
    PROVE  Carried(JobOf(w))'
<1>0. WorkerTypeOK
  BY DEF Typed, TypeOK
<1>1. pc'[w] \in {"start", "retryAck"} /\ msg'[w] = msg[w]
  BY <1>0 DEF WriteRow, At, Goto, WorkerTypeOK
<1>2. msg'[w] \in pending' /\ msg'[w] \in Held(w)'
  BY <1>1 DEF HandsInv, Acked, Releasing, Held, InHand
<1>3. \A v \in Workers : pc'[v] \in {"skip", "dlq", "ack"} => msg'[v] # msg'[w]
  <2>1. SUFFICES ASSUME NEW v \in Workers, pc'[v] \in {"skip", "dlq", "ack"},
                        msg'[v] = msg'[w]
                 PROVE  FALSE
    OBVIOUS
  <2>2. msg'[v] \in Held(v)' /\ v # w
    BY <1>1, <2>1 DEF Held, InHand
  <2> QED BY <1>2, <2>1, <2>2 DEF HandsInv, HandsApart
<1>4. msg'[w] \in Ids'
  <2>1. pending' \subseteq 1..cursor' /\ cursor' \in 0..Len(entries')
    BY DEF Typed, TypeOK, StreamTypeOK
  <2>2. Len(entries') \in Nat
    BY DEF Typed, TypeOK, StreamTypeOK
  <2>3. msg'[w] \in 1..cursor'
    BY <1>2, <2>1
  <2> QED BY <2>1, <2>2, <2>3 DEF Ids
<1>5. PICK m \in Ids' : m = msg'[w]
  BY <1>4
<1>6. Alive(m)'
  BY <1>2, <1>3, <1>5 DEF Alive, Doomed
<1>7. entries'[m] = JobOf(w)'
  BY <1>5 DEF JobOf
<1> QED BY <1>6, <1>7 DEF Carried

(* A message that is alive stays so, is given back to its job, or the job is *)
(* no longer under way.                                                      *)
LEMMA AliveKept ==
    ASSUME ClaimBusy = FALSE, Typed, Typed', NothingTrimmed, HandsInv, StatusOpen, [Next]_vars,
           NEW m \in Ids, Alive(m),
           status[entries[m]] \in UnderWay, status'[entries[m]] \in UnderWay
    PROVE  \/ Alive(m)'
           \/ \E w \in Workers : pc'[w] = "requeue" /\ JobOf(w)' = entries[m]
<1>0. WorkerTypeOK /\ StoreTypeOK /\ m \in Nat /\ m \in Ids' /\ entries[m] \in Jobs
  <2>1. WorkerTypeOK /\ StoreTypeOK /\ StreamTypeOK
    BY DEF Typed, TypeOK
  <2>2. m \in Nat /\ entries[m] \in Jobs
    BY <2>1 DEF StreamTypeOK, Ids
  <2>3. m \in Ids'
    BY EntriesGrow
  <2> QED BY <2>1, <2>2, <2>3
<1>1. ~Doomed(m)
  <2>1. SUFFICES ASSUME NEW w \in Workers, msg[w] = m, pc[w] \in {"skip", "dlq", "ack"},
                        cursor < m
                 PROVE  FALSE
    BY DEF Alive, Doomed
  <2>2. m \in 1..cursor
    BY <2>1 DEF HandsInv, Held, InHand
  <2> QED BY <1>0, <2>1, <2>2, CursorGrows
<1>2. ASSUME NEW w \in Workers, msg'[w] = m, pc'[w] \in {"skip", "dlq", "ack"} PROVE FALSE
  <2>1. msg[w] = m /\ pc[w] # "idle" /\ JobOf(w) = entries[m] /\ Proceeds(w)
    <3>1. Stays(w) \/ Proceeds(w)
      BY <1>2, WorkerMoves DEF Drops, MovesOn, Fetches
    <3>2. ~Stays(w)
      BY <1>1, <1>2 DEF Stays, Doomed
    <3> QED BY <1>2, <3>1, <3>2 DEF Proceeds, Flow, JobOf
  <2>2. CASE pc[w] = "fetched"
    <3>1. GetJob(w)
      BY <2>1, <2>2, ActionAt DEF Proceeds
    <3>2. pc'[w] = "lease"
      BY <1>0, <2>1, <2>2, <3>1 DEF GetJob, Step, Goto, WorkerTypeOK, UnderWay, Terminal
    <3> QED BY <1>2, <3>2
  <2>3. CASE pc[w] \in {"completeCommit", "failCommit"}
    <3>1. \E target \in Decided, to \in {"ack", "dlq"} : WriteRow(w, pc[w], target, to)
      BY <2>1, <2>3, WriteAt DEF Proceeds, Decided
    <3>2. PICK target \in Decided :
              status' = IF target = seen[w].status THEN status
                        ELSE [status EXCEPT ![entries[m]] = target]
      BY <2>1, <3>1 DEF WriteRow, CommitStatus
    <3>3. seen[w].status \notin Decided
      BY <2>3 DEF StatusOpen
    <3>4. status'[entries[m]] = target
      BY <1>0, <3>2, <3>3 DEF StoreTypeOK
    <3> QED BY <3>4 DEF UnderWay, Decided
  <2>4. CASE pc[w] = "dlq"
    BY <1>1, <2>1, <2>4 DEF Doomed
  <2> QED BY <1>2, <2>1, <2>2, <2>3, <2>4 DEF Proceeds, Flow
<1>3. CASE cursor < m
  <2>1. cursor' < m \/ m \in pending'
    <3>1. cursor' = cursor \/ \E n \in Ids : Deliver(n)
      BY StreamChange DEF Enqueue, ReadMessage, ClaimMessages, ClaimNothing, Claim, Ack
    <3>2. ASSUME NEW n \in Ids, Deliver(n) PROVE cursor' < m \/ m \in pending'
      <4>1. m \in Undelivered
        BY <1>3 DEF NothingTrimmed, Unsettled, Undelivered
      <4>2. n <= m /\ cursor' = n /\ n \in pending' /\ n \in Nat
        BY <3>2, <4>1 DEF Deliver, Ids
      <4> QED BY <1>0, <4>2
    <3> QED BY <1>3, <3>1, <3>2
  <2> QED BY <1>0, <1>2, <2>1 DEF Alive, Doomed
<1>4. CASE m \in pending
  <2>1. CASE m \in pending'
    BY <1>0, <1>2, <2>1 DEF Alive, Doomed
  <2>2. CASE m \notin pending'
    <3>1. PICK u \in Workers : /\ WorkerActs(u) /\ msg[u] = m
                               /\ pc[u] \in {"skip", "retryAck", "ack"}
      BY <1>4, <2>2, PendingKept
    <3>2. pc[u] = "retryAck"
      BY <1>1, <3>1 DEF Doomed
    <3>3. AckRetried(u)
      BY <3>1, <3>2, ActionAt DEF WorkerActs
    <3>4. pc'[u] = "requeue" /\ JobOf(u)' = entries[m]
      BY <1>0, <3>1, <3>3 DEF AckRetried, Step, Goto, WorkerTypeOK, Ack, JobOf
    <3> QED BY <3>4
  <2> QED BY <2>1, <2>2
<1> QED BY <1>3, <1>4 DEF Alive

(* What carries a job is replaced by something else that carries it before   *)
(* it goes.                                                                  *)
LEMMA AllCarriedStep ==
    ASSUME ClaimBusy = FALSE, "requeue" \notin WorkerFaults, "enqueue" \notin SchedFaults,
           Typed, Typed', NothingTrimmed, HandsInv, HandsInv', StatusOpen, OnePicked,
           AllCarried, [Next]_vars
    PROVE  AllCarried'
<1>0. /\ WorkerTypeOK /\ StoreTypeOK
      /\ entries \in Seq(Jobs)
  BY DEF Typed, TypeOK, StreamTypeOK
<1>1. SUFFICES ASSUME NEW j \in Jobs, status'[j] \in UnderWay
               PROVE  Carried(j)'
  BY DEF AllCarried
<1>2. CASE status'[j] # status[j]
  <2>1. CASE MarkQueued(j)
    BY <2>1 DEF MarkQueued, Carried
  <2>2. ASSUME NEW w \in Workers, WorkerActs(w), Writes(w, j, status'[j])
        PROVE  Carried(j)'
    <3>1. /\ JobOf(w) = j
          /\ \/ WriteRow(w, "markCommit", "RUNNING", "start")
             \/ WriteRow(w, "retryCommit", "RETRYING", "retryAck")
      BY <1>1, <2>2 DEF Writes, UnderWay
    <3>2. pc[w] # "idle" /\ msg'[w] = msg[w]
      BY <3>1 DEF WriteRow, At
    <3>3. JobOf(w)' = j
      BY <3>1, <3>2, LeasedHasJob
    <3>4. Carried(JobOf(w))'
      BY <3>1, MarkedIsCarried
    <3> QED BY <3>3, <3>4 DEF Carried
  <2> QED BY <1>1, <1>2, <2>1, <2>2, StatusChange DEF UnderWay
<1>3. CASE status'[j] = status[j] /\ spc = "enqueue" /\ j \in picked
  <2>1. CASE UNCHANGED schedVars
    BY <1>3, <2>1 DEF schedVars, Carried
  <2>2. CASE SchedulerActs
    <3>1. PICK i \in Jobs : EnqueuePicked(i)
      BY <1>3, <2>2 DEF SchedulerActs, SchedulerStep, ListJobs, CheckParent, NothingRunnable,
                        PickJob, MarkQueued
    <3>2. i = j
      BY <1>3, <3>1 DEF EnqueuePicked, OnePicked
    <3>3. Enqueue(j)
      BY <3>1, <3>2 DEF EnqueuePicked
    <3> QED BY <3>3, SentIsCarried
  <2>3. ~SchedulerStops
    BY <1>3 DEF SchedulerStops
  <2> QED BY <2>1, <2>2, <2>3, SchedulerMoves
<1>4. ASSUME status'[j] = status[j], NEW m \in Ids, entries[m] = j, Alive(m)
      PROVE  Carried(j)'
  <2>1. \/ Alive(m)'
        \/ \E w \in Workers : pc'[w] = "requeue" /\ JobOf(w)' = j
    BY <1>1, <1>4, AliveKept
  <2>2. m \in Ids' /\ entries'[m] = j
    BY <1>4, EntriesGrow
  <2> QED BY <2>1, <2>2 DEF Carried
<1>5. ASSUME NEW w \in Workers, pc[w] = "requeue", JobOf(w) = j
      PROVE  Carried(j)'
  <2>1. CASE Stays(w)
    <3>1. pc'[w] = "requeue" /\ JobOf(w)' = j
      BY <1>5, <2>1, LeasedHasJob DEF Stays
    <3> QED BY <3>1 DEF Carried
  <2>2. CASE WorkerActs(w)
    <3>1. Enqueue(j)
      BY <1>5, <2>2, ActionAt DEF WorkerActs, Requeue
    <3> QED BY <3>1, SentIsCarried
  <2>3. ~WorkerFails(w) /\ ~Fetches(w)
    BY <1>5 DEF WorkerFails, Fetches
  <2> QED BY <2>1, <2>2, <2>3, WorkerMoves
<1>6. CASE status'[j] = status[j]
  <2>1. Carried(j)
    BY <1>1, <1>6 DEF AllCarried
  <2> QED BY <1>3, <1>4, <1>5, <1>6, <2>1 DEF Carried
<1> QED BY <1>2, <1>6

-----------------------------------------------------------------------------
(* No job is lost                                                            *)

LossInv == HandsInv /\ StatusOpen /\ OnePicked /\ AllCarried

(* The hypotheses are those under which the code keeps its jobs: no lease    *)
(* lapses under a worker that goes on, no process fails between the commit   *)
(* of a status and the XADD that follows it, and no message is trimmed that  *)
(* is still needed.                                                          *)
LEMMA LossInvStep ==
    ASSUME ClaimBusy = FALSE, "requeue" \notin WorkerFaults, "enqueue" \notin SchedFaults,
           Typed, Typed', NothingTrimmed, LeaseInv, LossInv, [Next]_vars
    PROVE  LossInv'
<1>1. HandsInv'
  BY HandsInvStep DEF LossInv
<1>2. StatusOpen'
  BY StatusOpenStep DEF LossInv
<1>3. OnePicked'
  BY OnePickedStep DEF LossInv
<1>4. AllCarried'
  BY <1>1, AllCarriedStep DEF LossInv
<1> QED BY <1>1, <1>2, <1>3, <1>4 DEF LossInv

LEMMA InitLossInv == Init => LossInv
<1> SUFFICES ASSUME Init PROVE LossInv
  OBVIOUS
<1>1. /\ \A w \in Workers : pc[w] = "idle"
      /\ \A j \in Jobs : status[j] = "ABSENT"
      /\ picked = {}
  BY DEF Init, WorkerInit, StoreInit, SchedInit
<1>2. HandsInv
  BY <1>1 DEF HandsInv, HandsApart, Held
<1>3. StatusOpen
  BY <1>1 DEF StatusOpen, Executes, Starting, Completing, Retrying, Failing
<1>4. OnePicked /\ AllCarried
  BY <1>1 DEF OnePicked, AllCarried, UnderWay
<1> QED BY <1>2, <1>3, <1>4 DEF LossInv

LEMMA CarriedIsNotLost ==
    ASSUME Typed, NothingTrimmed, AllCarried
    PROVE  NoJobLost
<1>1. SUFFICES ASSUME NEW j \in Jobs, Carried(j)
               PROVE  \/ Outstanding(j)
                      \/ spc = "enqueue" /\ j \in picked
                      \/ \E w \in Workers : Works(w, j) /\ pc[w] \in InTry
  BY DEF NoJobLost, AllCarried, UnderWay
<1>2. ASSUME NEW m \in Ids, entries[m] = j, Alive(m) PROVE Outstanding(j)
  BY <1>2 DEF Outstanding, Undelivered, Alive, NothingTrimmed, Unsettled
<1>3. ASSUME NEW w \in Workers, pc[w] = "requeue", JobOf(w) = j
      PROVE  Works(w, j) /\ pc[w] \in InTry
  <2>1. msg[w] \in Ids
    BY <1>3, JobOfType
  <2> QED BY <1>3, <2>1 DEF Works, InTry, Ids
<1> QED BY <1>1, <1>2, <1>3 DEF Carried

(* A job that the table says is under way has a message or a worker, however *)
(* deliveries, redeliveries, crashes, cancellations and retries interleave   *)
(* (job_manager.py:253-306 and 502-514, worker.py:76-124).                   *)
THEOREM JobsAreKept ==
    ASSUME ClaimBusy = FALSE, MaxStalls = 0,
           "requeue" \notin WorkerFaults, "enqueue" \notin SchedFaults
    PROVE  Spec /\ []BacklogFits => []NoJobLost
<1>1. Typed /\ (stalls = 0 => LeaseInv) => LeaseInv
  BY DEF Typed, TypeOK
<1>2. Typed /\ TrimInv /\ BacklogFits => NothingTrimmed
  BY NothingTrimmedHolds
<1>3. Typed /\ Typed' /\ NothingTrimmed /\ LeaseInv /\ LossInv /\ [Next]_vars => LossInv'
  BY LossInvStep
<1>4. Typed /\ NothingTrimmed /\ LossInv => NoJobLost
  BY CarriedIsNotLost DEF LossInv
<1> QED
  BY <1>1, <1>2, <1>3, <1>4, InitLossInv, LeaseInvariant, TrimInvariant, PTL DEF Spec

=============================================================================
