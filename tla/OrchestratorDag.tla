--------------------------- MODULE OrchestratorDag --------------------------
(* The run history and what is derived from it: Orchestrator implements      *)
(* DagExecution, and the retry counter and the dead letter stream agree with *)
(* the failed runs.  Nothing is assumed of heartbeats, so these results also *)
(* hold while two workers execute the same job.                              *)
EXTENDS OrchestratorProofs, FiniteSetTheorems

(* Each worker that runs an attempt has a runs row of its own, still open.   *)
AttemptOpen ==
    \A w \in Workers : pc[w] = "exec" =>
        /\ att[w] \in DOMAIN runs[JobOf(w)]
        /\ runs[JobOf(w)][att[w]] = "RUNNING"

AttemptsApart ==
    \A v, w \in Workers :
        pc[v] = "exec" /\ pc[w] = "exec" /\ JobOf(v) = JobOf(w) /\ att[v] = att[w] => v = w

RunsInv == AttemptOpen /\ AttemptsApart

(* Whatever was checked before a message is sent stays true afterwards.      *)
EntriesReady == \A m \in Ids : DepsSucceeded(entries[m])

CompletingBacked ==
    \A w \in Workers : pc[w] \in Completing => Succeeded(JobOf(w))

SchedulerReady ==
    /\ spc = "check" => \A j \in runnable : \A p \in Parents[j] :
                            <<j, p>> \in unread \/ Succeeded(p)
    /\ spc \in {"commit", "enqueue"} => \A j \in picked : DepsSucceeded(j)

ApiReady ==
    \A c \in Clients : \A j \in subject[c] :
        /\ cpc[c] \in {"created", "retryDeps"} =>
               \A p \in Parents[j] : p \in toRead[c] \/ Succeeded(p)
        /\ cpc[c] \in {"retryCommit", "enqueue"} => DepsSucceeded(j)

DagInv ==
    /\ RunsInv /\ EntriesReady /\ CompletedHasRun /\ CompletingBacked
    /\ SchedulerReady /\ ApiReady /\ DependencyGate

(* What a step may do to the runs table.                                     *)
HistoryKept ==
    \A j \in Jobs : \A n \in DOMAIN runs[j] :
        /\ n \in DOMAIN runs'[j]
        /\ runs[j][n] # "RUNNING" => runs'[j][n] = runs[j][n]

-----------------------------------------------------------------------------
(* The runs table is only written by three statements of a worker.           *)

LEMMA RunsChange ==
    ASSUME Typed, [Next]_vars
    PROVE  \/ runs' = runs
           \/ \E w \in Workers : StartRun(w) \/ RunSucceeds(w) \/ RunFails(w)
<1>1. CASE \E w \in Workers : WorkerActs(w)
  BY <1>1 DEF WorkerActs, WorkerStep, GetJob, AckSkipped, AcquireLease, LeaseBusy,
              MarkRunning, ReadAttempt, AttemptTaken, MarkCompleted, Decide, MarkRetrying,
              AckRetried, Requeue, MarkFailed, DeadLetter, AckDone, CheckLease, DeleteLease,
              ReadRow, WriteRow, CommitStatus, storeVars
<1>2. CASE \/ \E w \in Workers : \/ Reads(w) \/ Claims(w) \/ HeartbeatEnds(w)
                                 \/ HeartbeatStalls(w) \/ WorkerFails(w)
           \/ \E j \in Jobs : LeaseEnds(j)
  BY <1>2 DEF Reads, ReadMessage, Claims, ClaimMessages, ClaimNothing, HeartbeatEnds,
              HeartbeatLost, HeartbeatStalls, Stall, WorkerFails, CallFails, WorkerCrash, LeaseEnds,
              LeaseExpires, storeVars
<1>3. CASE SchedulerActs \/ SchedulerStops
  BY <1>3 DEF SchedulerActs, SchedulerStops, SchedulerStep, SchedulerFails, ListJobs,
              CheckParent, NothingRunnable, PickJob, MarkQueued, EnqueuePicked, CommitStatus,
              storeVars
<1>4. CASE \E c \in Clients : Submits(c) \/ Commands(c) \/ Serves(c) \/ RequestLost(c)
  BY <1>4 DEF Submits, Commands, Serves, RequestLost, Submission, Command, RequestStep,
              RequestFails, SubmitJob, SubmitDag, CreateRow, CreateDag, CancelRead,
              RetryCheck, CreatedRunnable, ParentMet, ParentUnmet, EnqueueSubject,
              CancelCommit, RetryRead, RetryCommit, CommitStatus, storeVars
<1>5. CASE UNCHANGED vars
  BY <1>5 DEF vars, storeVars
<1> QED BY <1>1, <1>2, <1>3, <1>4, <1>5 DEF Next

LEMMA HistoryStep ==
    ASSUME Typed, RunsInv, [Next]_vars
    PROVE  HistoryKept
<1>0. runs \in [Jobs -> Seq(RunStatus)]
  BY DEF Typed, TypeOK, StoreTypeOK
<1>1. CASE runs' = runs
  BY <1>1 DEF HistoryKept
<1>2. ASSUME NEW w \in Workers, StartRun(w) PROVE HistoryKept
  <2>1. JobOf(w) \in Jobs /\ runs' = [runs EXCEPT ![JobOf(w)] = Append(@, "RUNNING")]
    BY <1>2, JobOfType DEF StartRun, Step, At, InsertRun
  <2> QED
    BY <1>0, <2>1 DEF HistoryKept, RunStatus
<1>3. ASSUME NEW w \in Workers, RunSucceeds(w) \/ RunFails(w) PROVE HistoryKept
  <2>1. PICK r \in RunStatus : /\ pc[w] = "exec" /\ JobOf(w) \in Jobs
                               /\ runs' = [runs EXCEPT ![JobOf(w)][att[w]] = r]
    BY <1>3, JobOfType DEF RunSucceeds, RunFails, Step, At, FinishRun, RunStatus
  <2>2. att[w] \in DOMAIN runs[JobOf(w)] /\ runs[JobOf(w)][att[w]] = "RUNNING"
    BY <2>1 DEF RunsInv, AttemptOpen
  <2> QED
    BY <1>0, <2>1, <2>2 DEF HistoryKept
<1> QED BY <1>1, <1>2, <1>3, RunsChange

LEMMA SuccessKept ==
    ASSUME HistoryKept, NEW j \in Jobs, Succeeded(j)
    PROVE  Succeeded(j)'
BY DEF HistoryKept, Succeeded

LEMMA DepsKept ==
    ASSUME HistoryKept, NEW j \in Jobs, DepsSucceeded(j)
    PROVE  DepsSucceeded(j)'
BY SuccessKept, ParentsAssumption DEF DepsSucceeded

(* A worker arrives at "exec" by its insert, and at the points of the        *)
(* completion after a run of its own succeeded.                              *)
LEMMA ExecPoints ==
    ASSUME Typed, NEW w \in Workers, [Next]_vars
    PROVE  \/ pc'[w] \notin {"exec"} \cup Completing
           \/ StartRun(w) /\ pc'[w] = "exec"
           \/ RunSucceeds(w) /\ pc'[w] = "complete"
           \/ /\ pc[w] \in Completing /\ pc'[w] \in Completing /\ msg'[w] = msg[w]
           \/ /\ pc'[w] = pc[w] /\ msg'[w] = msg[w] /\ att'[w] = att[w]
<1>0. WorkerTypeOK
  BY DEF Typed, TypeOK
<1>1. CASE Stays(w)
  BY <1>1 DEF Stays
<1>2. CASE Proceeds(w)
  <2>1. CASE pc'[w] = "exec"
    BY <1>2, <2>1, ActionAt DEF Proceeds, Flow
  <2>2. CASE pc'[w] = "complete"
    <3>1. pc[w] = "exec"
      BY <1>2, <2>2 DEF Proceeds, Flow
    <3>2. RunSucceeds(w) \/ RunFails(w)
      BY <1>2, <3>1, ActionAt DEF Proceeds
    <3>3. RunFails(w) => pc'[w] = "decide"
      BY <1>0, <3>1 DEF RunFails, Step, Goto, WorkerTypeOK
    <3> QED BY <2>2, <3>2, <3>3
  <2>3. CASE pc'[w] = "completeCommit"
    BY <1>2, <2>3 DEF Proceeds, Flow, Completing
  <2> QED BY <2>1, <2>2, <2>3 DEF Completing
<1>3. CASE Drops(w) \/ MovesOn(w) \/ Fetches(w)
  BY <1>3 DEF Drops, MovesOn, Fetches, Completing
<1> QED BY <1>1, <1>2, <1>3, WorkerMoves

LEMMA SameJob ==
    ASSUME Typed, [Next]_vars, NEW w \in Workers, pc[w] # "idle", msg'[w] = msg[w]
    PROVE  JobOf(w)' = JobOf(w)
BY JobOfType, EntriesGrow DEF JobOf

-----------------------------------------------------------------------------
(* The runs *)

LEMMA StartRunEffect ==
    ASSUME Typed, NEW w \in Workers, StartRun(w)
    PROVE  /\ JobOf(w) \in Jobs /\ pc[w] = "startCommit" /\ pc' = [pc EXCEPT ![w] = "exec"]
           /\ runs' = [runs EXCEPT ![JobOf(w)] = Append(@, "RUNNING")]
           /\ att[w] = Len(runs[JobOf(w)]) + 1
           /\ UNCHANGED <<status, msg, att, entries>>
BY JobOfType DEF StartRun, Step, At, Goto, InsertRun, AttemptIsFree, streamVars

LEMMA FinishEffect ==
    ASSUME Typed, NEW w \in Workers, RunSucceeds(w) \/ RunFails(w)
    PROVE  /\ JobOf(w) \in Jobs /\ pc[w] = "exec"
           /\ \/ /\ RunSucceeds(w) /\ pc' = [pc EXCEPT ![w] = "complete"]
                 /\ runs' = [runs EXCEPT ![JobOf(w)][att[w]] = "COMPLETED"]
              \/ /\ RunFails(w) /\ pc' = [pc EXCEPT ![w] = "decide"]
                 /\ runs' = [runs EXCEPT ![JobOf(w)][att[w]] = "FAILED"]
           /\ UNCHANGED <<status, msg, att, entries>>
BY JobOfType DEF RunSucceeds, RunFails, Step, At, Goto, FinishRun, streamVars

(* The row of a worker that goes on executing is not touched by the others.  *)
LEMMA AttemptKept ==
    ASSUME Typed, RunsInv, [Next]_vars, NEW w \in Workers,
           pc[w] = "exec", pc'[w] = "exec"
    PROVE  /\ att[w] \in DOMAIN runs'[JobOf(w)]
           /\ runs'[JobOf(w)][att[w]] = "RUNNING"
<1>0. /\ runs \in [Jobs -> Seq(RunStatus)] /\ WorkerTypeOK /\ JobOf(w) \in Jobs
      /\ att[w] \in DOMAIN runs[JobOf(w)] /\ runs[JobOf(w)][att[w]] = "RUNNING"
  BY JobOfType DEF Typed, TypeOK, StoreTypeOK, RunsInv, AttemptOpen
<1>1. CASE runs' = runs
  BY <1>0, <1>1
<1>2. ASSUME NEW u \in Workers, StartRun(u)
      PROVE  att[w] \in DOMAIN runs'[JobOf(w)] /\ runs'[JobOf(w)][att[w]] = "RUNNING"
  <2>1. JobOf(u) \in Jobs /\ runs' = [runs EXCEPT ![JobOf(u)] = Append(@, "RUNNING")]
    BY <1>2, StartRunEffect
  <2> QED BY <1>0, <2>1 DEF RunStatus
<1>3. ASSUME NEW u \in Workers, RunSucceeds(u) \/ RunFails(u)
      PROVE  att[w] \in DOMAIN runs'[JobOf(w)] /\ runs'[JobOf(w)][att[w]] = "RUNNING"
  <2>1. /\ JobOf(u) \in Jobs /\ pc[u] = "exec" /\ pc'[u] # "exec"
        /\ \E r \in RunStatus : runs' = [runs EXCEPT ![JobOf(u)][att[u]] = r]
    BY <1>0, <1>3, FinishEffect DEF RunStatus, WorkerTypeOK
  <2>2. u # w
    BY <2>1
  <2>3. JobOf(u) # JobOf(w) \/ att[u] # att[w]
    BY <2>1, <2>2 DEF RunsInv, AttemptsApart
  <2> QED BY <1>0, <2>1, <2>3
<1> QED BY <1>1, <1>2, <1>3, RunsChange

LEMMA RunsInvStep ==
    ASSUME Typed, RunsInv, [Next]_vars
    PROVE  RunsInv'
<1>0. /\ runs \in [Jobs -> Seq(RunStatus)] /\ WorkerTypeOK /\ "exec" \notin Completing
  BY DEF Typed, TypeOK, StoreTypeOK, Completing
<1>1. ASSUME NEW w \in Workers, pc'[w] = "exec"
      PROVE  \/ /\ StartRun(w) /\ JobOf(w)' = JobOf(w) /\ att'[w] = att[w]
             \/ /\ pc[w] = "exec" /\ JobOf(w)' = JobOf(w) /\ att'[w] = att[w]
  BY <1>0, <1>1, ExecPoints, SameJob, StartRunEffect DEF JobOf
<1>2. AttemptOpen'
  <2>1. SUFFICES ASSUME NEW w \in Workers, pc'[w] = "exec"
                 PROVE  /\ att'[w] \in DOMAIN runs'[JobOf(w)']
                        /\ runs'[JobOf(w)'][att'[w]] = "RUNNING"
    BY DEF AttemptOpen
  <2>2. CASE StartRun(w)
    BY <1>0, <1>1, <2>1, <2>2, StartRunEffect DEF RunStatus, JobOf
  <2>3. CASE pc[w] = "exec"
    <3>1. JobOf(w)' = JobOf(w) /\ att'[w] = att[w]
      BY <1>1, <2>1
    <3> QED BY <2>1, <2>3, <3>1, AttemptKept
  <2> QED BY <1>1, <2>1, <2>2, <2>3
<1>3. AttemptsApart'
  <2>1. SUFFICES ASSUME NEW v \in Workers, NEW w \in Workers, v # w,
                        pc'[v] = "exec", pc'[w] = "exec",
                        JobOf(v)' = JobOf(w)', att'[v] = att'[w]
                 PROVE  FALSE
    BY DEF AttemptsApart
  <2>2. JobOf(v) = JobOf(w) /\ att[v] = att[w]
    BY <1>1, <2>1
  <2>3. ASSUME NEW a \in Workers, NEW b \in Workers, StartRun(a), pc[b] = "exec"
        PROVE  JobOf(a) # JobOf(b) \/ att[a] # att[b]
    BY <1>0, <2>3, StartRunEffect, JobOfType DEF RunsInv, AttemptOpen
  <2>4. ~(StartRun(v) /\ StartRun(w))
    BY <1>0, <2>1, StartRunEffect DEF WorkerTypeOK
  <2> QED
    BY <1>1, <2>1, <2>2, <2>3, <2>4 DEF RunsInv, AttemptsApart
<1> QED BY <1>2, <1>3 DEF RunsInv

-----------------------------------------------------------------------------
(* The messages *)

(* A message is only ever sent for a job whose parents have all succeeded.   *)
LEMMA SendersReady ==
    ASSUME Typed, DagInv, [Next]_vars
    PROVE  \/ entries' = entries
           \/ \E j \in Jobs : Enqueue(j) /\ DepsSucceeded(j)
BY Senders DEF DagInv, EntriesReady, SchedulerReady, ApiReady

LEMMA EntriesReadyStep ==
    ASSUME Typed, DagInv, HistoryKept, [Next]_vars
    PROVE  EntriesReady'
<1>0. /\ entries \in Seq(Jobs) /\ EntriesReady
      /\ \A m \in Ids : entries[m] \in Jobs
  BY DEF Typed, TypeOK, StreamTypeOK, DagInv, Ids
<1>1. CASE entries' = entries
  BY <1>0, <1>1, DepsKept DEF EntriesReady, Ids
<1>2. ASSUME NEW j \in Jobs, Enqueue(j), DepsSucceeded(j) PROVE EntriesReady'
  <2>1. entries' = Append(entries, j)
    BY <1>2 DEF Enqueue
  <2>2. SUFFICES ASSUME NEW m \in Ids'
                 PROVE  DepsSucceeded(entries[m])'
    BY DEF EntriesReady
  <2>3. (m \in Ids /\ entries'[m] = entries[m]) \/ entries'[m] = j
    BY <1>0, <2>1 DEF Ids
  <2>4. PICK k \in Jobs : k = entries'[m] /\ DepsSucceeded(k)
    BY <1>0, <1>2, <2>3 DEF EntriesReady
  <2>5. DepsSucceeded(k)'
    BY <2>4, DepsKept
  <2> QED BY <2>4, <2>5 DEF DepsSucceeded
<1> QED BY <1>1, <1>2, SendersReady

-----------------------------------------------------------------------------
(* The status column *)

LEMMA CompletedHasRunStep ==
    ASSUME Typed, DagInv, HistoryKept, [Next]_vars
    PROVE  CompletedHasRun'
<1>1. SUFFICES ASSUME NEW j \in Jobs, status'[j] = "COMPLETED"
               PROVE  Succeeded(j)'
  BY DEF CompletedHasRun
<1>2. status[j] = "COMPLETED" \/ \E w \in Workers : pc[w] = "completeCommit" /\ JobOf(w) = j
  BY <1>1, StatusChange DEF Writes, WriteRow, At
<1>3. Succeeded(j)
  BY <1>2 DEF DagInv, CompletedHasRun, CompletingBacked, Completing
<1> QED BY <1>3, SuccessKept

LEMMA CompletingBackedStep ==
    ASSUME Typed, DagInv, HistoryKept, [Next]_vars
    PROVE  CompletingBacked'
<1>0. /\ runs \in [Jobs -> Seq(RunStatus)] /\ "exec" \notin Completing
      /\ "idle" \notin Completing
  BY DEF Typed, TypeOK, StoreTypeOK, Completing
<1>1. SUFFICES ASSUME NEW w \in Workers, pc'[w] \in Completing
               PROVE  Succeeded(JobOf(w))'
  BY DEF CompletingBacked
<1>2. PICK k \in Jobs : k = JobOf(w)' /\ Succeeded(k)'
  <2>1. CASE RunSucceeds(w)
    <3>1. /\ JobOf(w) \in Jobs /\ pc[w] = "exec" /\ JobOf(w)' = JobOf(w)
          /\ runs' = [runs EXCEPT ![JobOf(w)][att[w]] = "COMPLETED"]
      BY <1>0, <2>1, FinishEffect DEF JobOf, RunSucceeds, FinishRun, Step, streamVars
    <3>2. att[w] \in DOMAIN runs[JobOf(w)]
      BY <3>1 DEF DagInv, RunsInv, AttemptOpen
    <3>3. runs'[JobOf(w)][att[w]] = "COMPLETED" /\ att[w] \in DOMAIN runs'[JobOf(w)]
      BY <1>0, <3>1, <3>2
    <3> QED BY <3>1, <3>3 DEF Succeeded
  <2>2. CASE pc[w] \in Completing /\ msg'[w] = msg[w]
    <3>1. JobOf(w) \in Jobs /\ JobOf(w)' = JobOf(w) /\ Succeeded(JobOf(w))
      BY <1>0, <2>2, JobOfType, SameJob DEF DagInv, CompletingBacked
    <3>2. PICK k \in Jobs : k = JobOf(w) /\ Succeeded(k)
      BY <3>1
    <3> QED BY <3>1, <3>2, SuccessKept
  <2> QED BY <1>0, <1>1, <2>1, <2>2, ExecPoints
<1> QED BY <1>2 DEF Succeeded

LEMMA DependencyGateStep ==
    ASSUME Typed, DagInv, HistoryKept, [Next]_vars
    PROVE  DependencyGate'
<1>0. runs \in [Jobs -> Seq(RunStatus)]
  BY DEF Typed, TypeOK, StoreTypeOK
<1>1. SUFFICES ASSUME NEW j \in Jobs, Started(j)' PROVE DepsSucceeded(j)'
  BY DEF DependencyGate
<1>2. DepsSucceeded(j)
  <2>1. CASE Started(j)
    BY <2>1 DEF DagInv, DependencyGate
  <2>2. CASE ~Started(j)
    <3>1. PICK w \in Workers : StartRun(w) \/ RunSucceeds(w) \/ RunFails(w)
      BY <1>1, <2>2, RunsChange DEF Started
    <3>2. CASE StartRun(w)
      <4>1. JobOf(w) = j
        BY <1>0, <1>1, <2>2, <3>2, StartRunEffect DEF Started
      <4>2. msg[w] \in Ids
        BY <3>2, JobOfType, StartRunEffect
      <4> QED BY <4>1, <4>2 DEF DagInv, EntriesReady, JobOf
    <3>3. CASE RunSucceeds(w) \/ RunFails(w)
      BY <1>0, <1>1, <2>2, <3>3, FinishEffect DEF Started
    <3> QED BY <3>1, <3>2, <3>3
  <2> QED BY <2>1, <2>2
<1> QED BY <1>2, DepsKept

-----------------------------------------------------------------------------
(* The scheduler and the requests carry on what they have checked.           *)

LEMMA SchedulerReadyStep ==
    ASSUME Typed, DagInv, HistoryKept, [Next]_vars
    PROVE  SchedulerReady'
<1>0. /\ SchedTypeOK /\ SchedulerReady /\ CompletedHasRun
      /\ \A j \in Jobs : Parents[j] \subseteq Jobs
  BY ParentsAssumption DEF Typed, TypeOK, DagInv
<1>1. CASE UNCHANGED schedVars
  <2>1. ASSUME NEW j \in Jobs, DepsSucceeded(j) PROVE DepsSucceeded(j)'
    BY <2>1, DepsKept
  <2>2. ASSUME NEW p \in Jobs, Succeeded(p) PROVE Succeeded(p)'
    BY <2>2, SuccessKept
  <2> QED BY <1>0, <1>1, <2>1, <2>2 DEF schedVars, SchedulerReady, SchedTypeOK
<1>2. CASE SchedulerActs \/ SchedulerStops
  <2>1. CASE ListJobs
    BY <1>0, <2>1 DEF ListJobs, Listed, Existing, SchedulerReady
  <2>2. ASSUME NEW j \in Jobs, NEW p \in Jobs, CheckParent(j, p) PROVE SchedulerReady'
    <3>1. UNCHANGED <<spc, picked, runs>> /\ spc' = "check"
      BY <2>2 DEF CheckParent, storeVars
    <3>2. ASSUME NEW i \in runnable', NEW q \in Parents[i]
          PROVE  <<i, q>> \in unread' \/ Succeeded(q)'
      <4>1. i \in runnable /\ i \in Jobs /\ q \in Jobs
        BY <1>0, <2>2, <3>2 DEF CheckParent, SchedTypeOK
      <4>2. <<i, q>> \in unread \/ Succeeded(q)
        BY <1>0, <3>1, <3>2, <4>1 DEF SchedulerReady
      <4>3. CASE Succeeded(q)
        BY <4>1, <4>3, SuccessKept
      <4>4. CASE <<i, q>> \in unread
        <5>1. CASE status[p] = "COMPLETED"
          <6>1. Succeeded(p)'
            BY <1>0, <5>1, SuccessKept DEF CompletedHasRun
          <6>2. unread' = unread \ {<<j, p>>}
            BY <2>2, <5>1 DEF CheckParent
          <6> QED BY <4>4, <6>1, <6>2
        <5>2. CASE status[p] # "COMPLETED"
          <6>1. /\ unread' = {e \in unread : e[1] # j}
                /\ runnable' = runnable \ {j}
            BY <2>2, <5>2 DEF CheckParent
          <6> QED BY <3>2, <4>4, <6>1
        <5> QED BY <5>1, <5>2
      <4> QED BY <4>2, <4>3, <4>4
    <3> QED BY <3>1, <3>2 DEF SchedulerReady
  <2>3. CASE NothingRunnable \/ SchedulerFails \/ \E j \in Jobs : EnqueuePicked(j)
    BY <2>3 DEF NothingRunnable, SchedulerFails, EnqueuePicked, Resting, SchedulerReady
  <2>4. ASSUME NEW j \in Jobs, PickJob(j) PROVE SchedulerReady'
    <3>1. DepsSucceeded(j)
      BY <1>0, <2>4 DEF PickJob, SchedulerReady, DepsSucceeded
    <3>2. DepsSucceeded(j)'
      BY <3>1, DepsKept
    <3> QED BY <2>4, <3>2 DEF PickJob, SchedulerReady
  <2>5. ASSUME NEW j \in Jobs, MarkQueued(j) PROVE SchedulerReady'
    <3>1. ASSUME NEW i \in Jobs, DepsSucceeded(i) PROVE DepsSucceeded(i)'
      BY <3>1, DepsKept
    <3> QED BY <1>0, <2>5, <3>1 DEF MarkQueued, SchedulerReady, SchedTypeOK
  <2> QED
    BY <1>2, <2>1, <2>2, <2>3, <2>4, <2>5 DEF SchedulerActs, SchedulerStops, SchedulerStep
<1> QED BY <1>1, <1>2, SchedulerMoves

LEMMA ApiReadyStep ==
    ASSUME Typed, DagInv, HistoryKept, [Next]_vars
    PROVE  ApiReady'
<1>0. /\ ApiTypeOK /\ ApiReady /\ CompletedHasRun
      /\ \A j \in Jobs : Parents[j] \subseteq Jobs
  BY ParentsAssumption DEF Typed, TypeOK, DagInv
<1>a. ASSUME NEW j \in Jobs, DepsSucceeded(j) PROVE DepsSucceeded(j)'
  BY <1>a, DepsKept
<1>b. ASSUME NEW p \in Jobs, Succeeded(p) PROVE Succeeded(p)'
  BY <1>b, SuccessKept
<1> DEFINE Ready(c) == \A j \in subject[c] :
               /\ cpc[c] \in {"created", "retryDeps"} =>
                      \A p \in Parents[j] : p \in toRead[c] \/ Succeeded(p)
               /\ cpc[c] \in {"retryCommit", "enqueue"} => DepsSucceeded(j)
<1>c. ASSUME NEW c \in Clients, cpc'[c] = cpc[c], subject'[c] = subject[c],
             toRead'[c] = toRead[c]
      PROVE  Ready(c)'
  <2>1. Ready(c) /\ subject[c] \subseteq Jobs
    BY <1>0 DEF ApiReady, ApiTypeOK
  <2> QED BY <1>0, <1>a, <1>b, <1>c, <2>1
<1>1. ASSUME NEW d \in Clients, Submits(d) \/ Commands(d) \/ Serves(d) \/ RequestLost(d),
             NEW c \in Clients
      PROVE  Ready(c)'
  <2>0. CASE c # d
    <3>1. cpc'[c] = cpc[c] /\ subject'[c] = subject[c] /\ toRead'[c] = toRead[c]
      BY <1>0, <1>1, <2>0
         DEF Submits, Commands, Serves, RequestLost, Submission, Command, RequestStep,
             RequestFails, SubmitJob, SubmitDag, CancelRead, RetryCheck, CreatedRunnable,
             ParentMet, ParentUnmet, EnqueueSubject, CancelCommit, RetryRead, RetryCommit,
             Answer, Continue, apiVars, ApiTypeOK
    <3> QED BY <1>c, <3>1
  <2>1. CASE c = d
    <3>0. Ready(c) /\ subject[c] \subseteq Jobs
      BY <1>0 DEF ApiReady, ApiTypeOK
    <3>1. ASSUME Answer(c) PROVE Ready(c)'
      BY <1>0, <3>1 DEF Answer, ApiTypeOK
    <3>2. ASSUME NEW j \in Jobs, NEW enqueue \in BOOLEAN, SubmitJob(c, j, enqueue)
          PROVE  Ready(c)'
      <4>1. CASE enqueue
        BY <1>0, <3>2, <4>1 DEF SubmitJob, Continue, ApiTypeOK
      <4>2. CASE ~enqueue
        BY <1>c, <3>2, <4>2 DEF SubmitJob, apiVars
      <4> QED BY <4>1, <4>2
    <3>3. ASSUME NEW S, SubmitDag(c, S) PROVE Ready(c)'
      BY <1>c, <3>3 DEF SubmitDag, apiVars
    <3>4. ASSUME NEW j \in Jobs, CancelRead(c, j) PROVE Ready(c)'
      BY <1>0, <3>4 DEF CancelRead, Continue, ApiTypeOK
    <3>5. ASSUME NEW j \in Jobs, RetryCheck(c, j) PROVE Ready(c)'
      BY <1>0, <3>5 DEF RetryCheck, Continue, ApiTypeOK
    <3>6. CASE CreatedRunnable(c)
      <4>1. cpc[c] = "created" /\ cpc'[c] = "enqueue" /\ subject'[c] = subject[c]
        BY <1>0, <3>6 DEF CreatedRunnable, Continue, ApiTypeOK
      <4>2. \A j \in subject[c] : DepsSucceeded(j)
        BY <3>0, <3>6, <4>1 DEF CreatedRunnable, DepsSucceeded
      <4> QED BY <1>a, <3>0, <4>1, <4>2
    <3>7. ASSUME NEW p \in Jobs, NEW from \in {"created", "retryDeps"}, ParentMet(c, from, p)
          PROVE  Ready(c)'
      <4>1. /\ cpc' = cpc /\ subject' = subject /\ toRead'[c] = toRead[c] \ {p}
            /\ cpc[c] \in {"created", "retryDeps"} /\ Succeeded(p)
        BY <1>0, <3>7 DEF ParentMet, ApiTypeOK, CompletedHasRun
      <4> QED BY <1>0, <1>b, <3>0, <4>1
    <3>8. ASSUME NEW j \in Jobs, RetryRead(c, j) PROVE Ready(c)'
      <4>1. cpc[c] = "retryDeps" /\ cpc'[c] = "retryCommit" /\ subject'[c] = subject[c]
        BY <1>0, <3>8 DEF RetryRead, Continue, ApiTypeOK
      <4>2. \A i \in subject[c] : DepsSucceeded(i)
        BY <3>0, <3>8, <4>1 DEF RetryRead, DepsSucceeded
      <4> QED BY <1>a, <3>0, <4>1, <4>2
    <3>9. ASSUME NEW j \in Jobs, RetryCommit(c, j) PROVE Ready(c)'
      <4>1. cpc[c] = "retryCommit" /\ cpc'[c] = "enqueue" /\ subject'[c] = subject[c]
        BY <1>0, <3>9 DEF RetryCommit, Continue, ApiTypeOK
      <4> QED BY <1>a, <3>0, <4>1
    <3>10. ASSUME \/ \E p \in Jobs, from \in {"created", "retryDeps"} : ParentUnmet(c, from, p)
                  \/ \E j \in Jobs : EnqueueSubject(c, j) \/ CancelCommit(c, j)
                  \/ RequestFails(c)
           PROVE  Answer(c)
      BY <3>10 DEF ParentUnmet, EnqueueSubject, CancelCommit, RequestFails
    <3> QED
      BY <1>1, <2>1, <3>1, <3>2, <3>3, <3>4, <3>5, <3>6, <3>7, <3>8, <3>9, <3>10
         DEF Submits, Commands, Serves, RequestLost, Submission, Command, RequestStep
  <2> QED BY <2>0, <2>1
<1>2. CASE \E d \in Clients : Submits(d) \/ Commands(d) \/ Serves(d) \/ RequestLost(d)
  BY <1>1, <1>2 DEF ApiReady
<1>3. CASE \/ \E w \in Workers : \/ WorkerActs(w) \/ Reads(w) \/ Claims(w)
                                 \/ HeartbeatEnds(w) \/ HeartbeatStalls(w) \/ WorkerFails(w)
           \/ \E j \in Jobs : LeaseEnds(j)
           \/ SchedulerActs \/ SchedulerStops
           \/ UNCHANGED vars
  <2>1. UNCHANGED apiVars
    BY <1>3 DEF WorkerActs, Reads, Claims, HeartbeatEnds, HeartbeatStalls, WorkerFails,
                LeaseEnds, OfWorkers, SchedulerActs, SchedulerStops, OfScheduler, vars
  <2> QED BY <1>c, <2>1 DEF apiVars, ApiReady
<1> QED BY <1>2, <1>3 DEF Next

-----------------------------------------------------------------------------
(* Theorems *)

LEMMA DagInvariant == Spec => [](Typed /\ DagInv)
<1>1. Init => DagInv
  <2>1. SUFFICES ASSUME Init PROVE DagInv
    OBVIOUS
  <2>2. RunsInv /\ CompletingBacked
    BY <2>1 DEF Init, WorkerInit, RunsInv, AttemptOpen, AttemptsApart, CompletingBacked,
                Completing
  <2>3. EntriesReady /\ CompletedHasRun /\ DependencyGate
    BY <2>1 DEF Init, StoreInit, StreamInit, EntriesReady, Ids, CompletedHasRun,
                DependencyGate, Started
  <2>4. SchedulerReady /\ ApiReady
    BY <2>1 DEF Init, SchedInit, ApiInit, SchedulerReady, ApiReady
  <2> QED BY <2>2, <2>3, <2>4 DEF DagInv
<1>2. Typed /\ DagInv /\ [Next]_vars => DagInv'
  <2>1. SUFFICES ASSUME Typed, DagInv, [Next]_vars PROVE DagInv'
    OBVIOUS
  <2>2. RunsInv' /\ HistoryKept
    BY <2>1, RunsInvStep, HistoryStep DEF DagInv
  <2> QED
    BY <2>1, <2>2, EntriesReadyStep, CompletedHasRunStep, CompletingBackedStep,
       SchedulerReadyStep, ApiReadyStep, DependencyGateStep DEF DagInv
<1> QED
  BY <1>1, <1>2, TypedInvariant, PTL DEF Spec

(* COMPLETED in the jobs table is always backed by a run that succeeded.     *)
THEOREM CompletedIsBacked == Spec => []CompletedHasRun
<1>1. DagInv => CompletedHasRun
  BY DEF DagInv
<1> QED
  BY <1>1, DagInvariant, PTL

(* A job only runs after its parents have succeeded, although the worker     *)
(* takes every message on trust (worker.py:34-78).                           *)
THEOREM StartsAfterParents == Spec => []DependencyGate
<1>1. DagInv => DependencyGate
  BY DEF DagInv
<1> QED
  BY <1>1, DagInvariant, PTL

(* A run that has ended keeps its result and no attempt disappears, even     *)
(* with two workers on one job (job_manager.py:417-431, run.py:32).          *)
THEOREM HistoryIsKept == Spec => [][HistoryKept]_vars
<1>1. Typed /\ DagInv /\ [Next]_vars => [HistoryKept]_vars
  BY HistoryStep DEF DagInv
<1> QED
  BY <1>1, DagInvariant, PTL DEF Spec

(* The runs table is the history that RunHistory promises: start_run adds    *)
(* the next attempt, finish_run closes an open one (job_manager.py:410-487). *)
THEOREM OrchestratorImplementsHistory == Spec => ImplementsHistory
<1>1. Init => History!Init
  BY DEF Init, StoreInit, History!Init
<1>2. ASSUME Typed, DagInv, [Next]_vars
      PROVE  [History!Next]_runs
  <2>1. ASSUME NEW w \in Workers, StartRun(w) PROVE History!Next
    BY <1>2, <2>1, StartRunEffect DEF History!Next, History!Start
  <2>2. ASSUME NEW w \in Workers, RunSucceeds(w) \/ RunFails(w) PROVE History!Next
    <3>1. /\ JobOf(w) \in Jobs
          /\ \E result \in {"COMPLETED", "FAILED"} :
                 runs' = [runs EXCEPT ![JobOf(w)][att[w]] = result]
          /\ att[w] \in DOMAIN runs[JobOf(w)] /\ runs[JobOf(w)][att[w]] = "RUNNING"
      BY <1>2, <2>2, FinishEffect DEF DagInv, RunsInv, AttemptOpen
    <3> QED BY <3>1 DEF History!Next, History!Finish
  <2> QED BY <1>2, <2>1, <2>2, RunsChange
<1> QED
  BY <1>1, <1>2, DagInvariant, PTL DEF Spec, ImplementsHistory, History!Spec

(* Jobs start in the order of their dependencies: DagExecution is            *)
(* implemented, with the jobs that have a run as the started ones.           *)
THEOREM OrchestratorImplementsDag == Spec => ImplementsDag
<1> DEFINE started == {j \in Jobs : Started(j)}
           succeeded == {j \in Jobs : Succeeded(j)}
<1>1. Init => Dag!Init
  BY DEF Init, StoreInit, Dag!Init, Started, Succeeded
<1>2. ASSUME Typed, DagInv, [Next]_vars
      PROVE  [Dag!Next]_<<started, succeeded>>
  <2>0. /\ runs \in [Jobs -> Seq(RunStatus)] /\ HistoryKept
        /\ \A j \in Jobs : Parents[j] \subseteq Jobs
    BY <1>2, HistoryStep, ParentsAssumption DEF Typed, TypeOK, StoreTypeOK, DagInv
  <2>1. CASE runs' = runs
    BY <2>1 DEF Started, Succeeded
  <2>2. ASSUME NEW w \in Workers, StartRun(w) PROVE Dag!Start(JobOf(w))
    <3>1. /\ JobOf(w) \in Jobs
          /\ runs' = [runs EXCEPT ![JobOf(w)] = Append(@, "RUNNING")]
      BY <1>2, <2>2, StartRunEffect
    <3>2. DepsSucceeded(JobOf(w))
      BY <1>2, <2>2, JobOfType, StartRunEffect DEF DagInv, EntriesReady, JobOf
    <3>3. \A j \in Jobs : Succeeded(j)' <=> Succeeded(j)
      BY <2>0, <3>1 DEF Succeeded
    <3>4. \A j \in Jobs : Started(j)' <=> Started(j) \/ j = JobOf(w)
      BY <2>0, <3>1 DEF Started
    <3>5. Parents[JobOf(w)] \subseteq succeeded
      BY <2>0, <3>1, <3>2 DEF DepsSucceeded
    <3> QED BY <3>1, <3>3, <3>4, <3>5 DEF Dag!Start
  <2>3. ASSUME NEW w \in Workers, RunSucceeds(w) \/ RunFails(w)
        PROVE  Dag!Succeed(JobOf(w)) \/ UNCHANGED <<started, succeeded>>
    <3>1. /\ JobOf(w) \in Jobs /\ att[w] \in DOMAIN runs[JobOf(w)]
          /\ runs[JobOf(w)][att[w]] = "RUNNING"
          /\ \/ runs' = [runs EXCEPT ![JobOf(w)][att[w]] = "COMPLETED"]
             \/ runs' = [runs EXCEPT ![JobOf(w)][att[w]] = "FAILED"]
      BY <1>2, <2>3, FinishEffect DEF DagInv, RunsInv, AttemptOpen
    <3>2. \A j \in Jobs : (Started(j)' <=> Started(j)) /\ Started(JobOf(w))
      BY <2>0, <3>1 DEF Started
    <3>3. CASE runs' = [runs EXCEPT ![JobOf(w)][att[w]] = "COMPLETED"]
      <4>1. \A j \in Jobs : Succeeded(j)' <=> Succeeded(j) \/ j = JobOf(w)
        BY <2>0, <3>1, <3>3 DEF Succeeded
      <4> QED BY <3>1, <3>2, <4>1 DEF Dag!Succeed
    <3>4. CASE runs' = [runs EXCEPT ![JobOf(w)][att[w]] = "FAILED"]
      <4>1. \A j \in Jobs : Succeeded(j)' <=> Succeeded(j)
        BY <2>0, <3>1, <3>4 DEF Succeeded
      <4> QED BY <3>2, <4>1
    <3> QED BY <3>1, <3>3, <3>4
  <2>4. \A w \in Workers : StartRun(w) \/ RunSucceeds(w) \/ RunFails(w) => JobOf(w) \in Jobs
    BY <1>2, StartRunEffect, FinishEffect
  <2> QED
    BY <1>2, <2>1, <2>2, <2>3, <2>4, RunsChange DEF Dag!Next
<1> QED
  BY <1>1, <1>2, DagInvariant, PTL DEF Spec, ImplementsDag, Dag!Spec

(* Jobs that depend on each other, which create_dag accepts                  *)
(* (job_manager.py:194-203), are never started: each of them would have to   *)
(* wait for a parent of the cycle to succeed.                                *)
THEOREM CyclesNeverStart ==
    ASSUME NEW S \in SUBSET Jobs, \A j \in S : Parents[j] \cap S # {}
    PROVE  Spec => [](\A j \in S : ~Started(j))
<1> DEFINE started == {j \in Jobs : Started(j)}
           succeeded == {j \in Jobs : Succeeded(j)}
           Waiting == \A j \in S : ~Started(j)
<1>1. Dag!Init => Waiting
  BY DEF Dag!Init
<1>2. ASSUME Waiting, [Dag!Next]_<<started, succeeded>>
      PROVE  Waiting'
  <2>1. \A j \in Jobs : Succeeded(j) => Started(j)
    BY DEF Succeeded, Started
  <2>2. ASSUME NEW j \in Jobs, Dag!Start(j) PROVE started' = started \cup {j} /\ j \notin S
    <3>1. Parents[j] \subseteq succeeded /\ started' = started \cup {j}
      BY <2>2 DEF Dag!Start
    <3> QED BY <1>2, <2>1, <3>1
  <2>3. ASSUME NEW j \in Jobs, Dag!Succeed(j) PROVE started' = started
    BY <2>3 DEF Dag!Succeed
  <2>4. \/ started' = started
        \/ \E j \in Jobs \ S : started' = started \cup {j}
    BY <1>2, <2>2, <2>3 DEF Dag!Next
  <2>5. \A j \in Jobs : (Started(j))' <=> j \in started'
    OBVIOUS
  <2> QED BY <1>2, <2>4, <2>5
<1> QED
  BY <1>1, <1>2, OrchestratorImplementsDag, PTL DEF ImplementsDag, Dag!Spec

-----------------------------------------------------------------------------
(* The failed runs, the retry counter and the dead letters                   *)

(* From finish_run to the commit of the increment, a failed run of a worker  *)
(* is not counted yet.                                                       *)
Uncounting == {"decide"} \cup Retrying
Uncounted(j) == {att[w] : w \in {v \in Workers : pc[v] \in Uncounting /\ JobOf(v) = j}}
Counted(j) == Attempts(j, "FAILED") \ Uncounted(j)

FailedOpen ==
    \A w \in Workers : pc[w] \in Uncounting => att[w] \in Attempts(JobOf(w), "FAILED")

FailedApart ==
    \A v, w \in Workers :
        /\ pc[v] \in Uncounting /\ pc[w] \in Uncounting
        /\ JobOf(v) = JobOf(w) /\ att[v] = att[w]
        => v = w

(* The counter, and a reading of it that is about to be written back, never  *)
(* exceed the failed runs that are counted already.                          *)
RetriesCounted == \A j \in Jobs : retries[j] <= Cardinality(Counted(j))

SeenCounted ==
    \A w \in Workers : pc[w] = "retryCommit" =>
        seen[w].retries <= Cardinality(Counted(JobOf(w)))

Exhausted(j) == Cardinality(Attempts(j, "FAILED")) > MaxRetries

GivingUp == Failing \cup {"dlq"}
GivesUp == \A w \in Workers : pc[w] \in GivingUp => Exhausted(JobOf(w))

FailInv == FailedOpen /\ FailedApart /\ RetriesCounted /\ SeenCounted /\ GivesUp

LEMMA AttemptsFinite ==
    ASSUME NEW s \in Seq(RunStatus), NEW T \in SUBSET DOMAIN s
    PROVE  IsFiniteSet(T) /\ Cardinality(T) \in Nat
<1>1. DOMAIN s = 1..Len(s) /\ Len(s) \in Nat
  OBVIOUS
<1>2. IsFiniteSet(1..Len(s))
  BY <1>1, FS_Interval
<1>3. IsFiniteSet(T)
  BY <1>1, <1>2, FS_Subset
<1> QED BY <1>3, FS_CardinalityType

LEMMA FailedFinite ==
    ASSUME StoreTypeOK, NEW j \in Jobs
    PROVE  /\ IsFiniteSet(Attempts(j, "FAILED")) /\ Cardinality(Attempts(j, "FAILED")) \in Nat
           /\ IsFiniteSet(Counted(j)) /\ Cardinality(Counted(j)) \in Nat
BY AttemptsFinite DEF StoreTypeOK, Attempts, Counted

LEMMA FailedKept ==
    ASSUME HistoryKept, NEW j \in Jobs
    PROVE  Attempts(j, "FAILED") \subseteq Attempts(j, "FAILED")'
BY DEF HistoryKept, Attempts

LEMMA ExhaustedKept ==
    ASSUME StoreTypeOK, StoreTypeOK', HistoryKept, NEW j \in Jobs, Exhausted(j)
    PROVE  Exhausted(j)'
<1>1. IsFiniteSet(Attempts(j, "FAILED")') /\ Cardinality(Attempts(j, "FAILED")') \in Nat
  BY AttemptsFinite DEF StoreTypeOK, Attempts
<1>2. Cardinality(Attempts(j, "FAILED")) <= Cardinality(Attempts(j, "FAILED")')
  BY <1>1, FailedKept, FS_Subset
<1> QED BY <1>1, <1>2, FailedFinite, MaxRetriesAssumption DEF Exhausted

(* The ways to the points between a failed run and its consequences.         *)
LEMMA FailurePoints ==
    ASSUME Typed, NEW w \in Workers, [Next]_vars, pc'[w] \in Uncounting \cup GivingUp
    PROVE  /\ JobOf(w) \in Jobs /\ JobOf(w)' = JobOf(w) /\ att'[w] = att[w]
           /\ \/ RunFails(w) /\ pc'[w] = "decide"
              \/ pc[w] = "decide" /\ pc'[w] = "fail" /\ retries[JobOf(w)] >= MaxRetries
              \/ pc[w] \in Uncounting /\ pc'[w] \in Uncounting
              \/ pc[w] \in GivingUp /\ pc'[w] \in GivingUp
           /\ pc'[w] = "retryCommit" => \/ pc[w] = "retry" /\ seen'[w] = Row(JobOf(w))
                                        \/ pc[w] = "retryCommit" /\ seen'[w] = seen[w]
<1> USE DEF Uncounting, GivingUp, Retrying, Failing
<1>0. WorkerTypeOK /\ StoreTypeOK /\ MaxRetries \in Nat
  BY MaxRetriesAssumption DEF Typed, TypeOK
<1>1. ASSUME msg'[w] = msg[w], pc[w] # "idle"
      PROVE  JobOf(w) \in Jobs /\ JobOf(w)' = JobOf(w)
  BY <1>1, SameJob, JobOfType
<1>2. CASE Stays(w)
  BY <1>1, <1>2 DEF Stays
<1>3. CASE Proceeds(w)
  <2>1. /\ pc[w] \in {"exec", "decide", "retry", "fail", "failCommit"}
        /\ JobOf(w) \in Jobs /\ JobOf(w)' = JobOf(w) /\ att'[w] = att[w]
    BY <1>1, <1>3 DEF Proceeds, Flow
  <2>2. CASE pc[w] = "exec"
    <3>1. RunFails(w) \/ RunSucceeds(w)
      BY <1>3, <2>2, ActionAt DEF Proceeds
    <3>2. RunSucceeds(w) => pc'[w] = "complete"
      BY <1>0, <3>1 DEF RunSucceeds, Step, Goto, WorkerTypeOK
    <3>3. RunFails(w) => pc'[w] = "decide"
      BY <1>0, <3>1 DEF RunFails, Step, Goto, WorkerTypeOK
    <3> QED BY <2>1, <3>1, <3>2, <3>3
  <2>3. CASE pc[w] = "decide"
    <3>1. Decide(w)
      BY <1>3, <2>3, ActionAt DEF Proceeds
    <3>2. \/ pc'[w] = "retry"
          \/ pc'[w] = "fail" /\ ~(retries[JobOf(w)] < MaxRetries)
      BY <1>0, <3>1 DEF Decide, Step, Goto, WorkerTypeOK
    <3>3. retries[JobOf(w)] \in Nat
      BY <1>0, <2>1 DEF StoreTypeOK
    <3> QED BY <1>0, <2>1, <2>3, <3>2, <3>3
  <2>4. CASE pc[w] \in {"retry", "fail", "failCommit"}
    BY <1>3, <2>1, <2>4 DEF Proceeds, Flow, HasRead
  <2> QED BY <2>1, <2>2, <2>3, <2>4
<1>4. CASE Drops(w) \/ MovesOn(w) \/ Fetches(w)
  BY <1>4 DEF Drops, MovesOn, Fetches
<1> QED BY <1>2, <1>3, <1>4, WorkerMoves

(* What is counted stays counted: a run that fails now was not failed before. *)
LEMMA CountedKept ==
    ASSUME Typed, Typed', RunsInv, HistoryKept, [Next]_vars, NEW j \in Jobs
    PROVE  /\ Counted(j) \subseteq Counted(j)'
           /\ Cardinality(Counted(j)) <= Cardinality(Counted(j))'
<1>1. Counted(j) \subseteq Counted(j)'
  <2>1. SUFFICES ASSUME NEW n \in Counted(j), n \in Uncounted(j)' PROVE FALSE
    BY FailedKept DEF Counted
  <2>2. PICK w \in Workers : pc'[w] \in Uncounting /\ JobOf(w)' = j /\ n = att'[w]
    BY <2>1 DEF Uncounted
  <2>3. /\ JobOf(w) = j /\ n = att[w]
        /\ RunFails(w) \/ pc[w] \in Uncounting
    BY <2>2, FailurePoints DEF Uncounting, GivingUp, Retrying, Failing
  <2>4. pc[w] \notin Uncounting
    BY <2>1, <2>3 DEF Counted, Uncounted
  <2>5. runs[j][n] = "RUNNING"
    BY <2>3, <2>4 DEF RunFails, Step, At, RunsInv, AttemptOpen
  <2> QED BY <2>1, <2>5 DEF Counted, Attempts
<1>2. IsFiniteSet(Counted(j)')
  BY AttemptsFinite DEF Typed, TypeOK, StoreTypeOK, Attempts, Counted
<1>3. Cardinality(Counted(j)) <= Cardinality(Counted(j)')
  BY <1>1, <1>2, FS_Subset
<1> QED BY <1>1, <1>3

LEMMA FailInvStep ==
    ASSUME Typed, Typed', RunsInv, HistoryKept, FailInv, [Next]_vars
    PROVE  FailInv'
<1> USE DEF Uncounting, GivingUp, Retrying, Failing
<1>0. /\ StoreTypeOK /\ StoreTypeOK' /\ WorkerTypeOK /\ MaxRetries \in Nat
      /\ \A j \in Jobs : /\ Cardinality(Counted(j)) \in Nat
                         /\ Cardinality(Counted(j)') \in Nat
                         /\ Cardinality(Counted(j)) <= Cardinality(Counted(j)')
  <2>1. StoreTypeOK /\ StoreTypeOK' /\ WorkerTypeOK
    BY DEF Typed, TypeOK
  <2>2. \A j \in Jobs : Cardinality(Counted(j)') \in Nat
    BY <2>1, AttemptsFinite DEF StoreTypeOK, Attempts, Counted
  <2> QED BY <2>1, <2>2, FailedFinite, CountedKept, MaxRetriesAssumption
<1>a. ASSUME NEW w \in Workers, NEW j \in Jobs, j = JobOf(w), RunFails(w)
      PROVE  /\ pc[w] = "exec" /\ runs[j][att[w]] = "RUNNING"
             /\ att[w] \in Attempts(j, "FAILED")'
  <2>1. pc[w] = "exec" /\ runs' = [runs EXCEPT ![j][att[w]] = "FAILED"]
    BY <1>a DEF RunFails, Step, At, FinishRun
  <2>2. att[w] \in DOMAIN runs[j] /\ runs[j][att[w]] = "RUNNING"
    BY <1>a, <2>1 DEF RunsInv, AttemptOpen
  <2>3. runs'[j] = [runs[j] EXCEPT ![att[w]] = "FAILED"]
    BY <1>0, <2>1 DEF StoreTypeOK
  <2> QED BY <2>1, <2>2, <2>3 DEF Attempts
<1>1. FailedOpen'
  <2>1. SUFFICES ASSUME NEW w \in Workers, NEW j \in Jobs, j = JobOf(w),
                        JobOf(w)' = j, att'[w] = att[w], pc'[w] \in Uncounting
                 PROVE  att[w] \in Attempts(j, "FAILED")'
    BY FailurePoints DEF FailedOpen, Attempts
  <2>2. CASE RunFails(w)
    BY <1>a, <2>1, <2>2
  <2>3. CASE pc[w] \in Uncounting
    <3>1. att[w] \in Attempts(j, "FAILED")
      BY <2>1, <2>3 DEF FailInv, FailedOpen
    <3> QED BY <3>1, FailedKept
  <2> QED BY <2>1, <2>2, <2>3, FailurePoints
<1>2. FailedApart'
  <2>1. SUFFICES ASSUME NEW v \in Workers, NEW w \in Workers, v # w,
                        pc'[v] \in Uncounting, pc'[w] \in Uncounting,
                        JobOf(v)' = JobOf(w)', att'[v] = att'[w]
                 PROVE  FALSE
    BY DEF FailedApart
  <2>2. JobOf(v) = JobOf(w) /\ att[v] = att[w]
    BY <2>1, FailurePoints
  <2>3. ASSUME NEW a \in Workers, NEW b \in Workers, RunFails(a), pc[b] \in Uncounting,
               JobOf(a) \in Jobs
        PROVE  JobOf(a) # JobOf(b) \/ att[a] # att[b]
    <3>1. runs[JobOf(a)][att[a]] = "RUNNING"
      BY <1>a, <2>3
    <3>2. runs[JobOf(b)][att[b]] = "FAILED"
      BY <2>3 DEF FailInv, FailedOpen, Attempts
    <3> QED BY <3>1, <3>2
  <2>4. ~(RunFails(v) /\ RunFails(w))
    BY <1>0, <2>1 DEF RunFails, Step, At, Goto, WorkerTypeOK
  <2> QED
    BY <2>1, <2>2, <2>3, <2>4, FailurePoints DEF FailInv, FailedApart
<1>3. RetriesCounted'
  <2>1. CASE retries' = retries
    BY <1>0, <2>1 DEF FailInv, RetriesCounted, StoreTypeOK
  <2>2. ASSUME NEW u \in Workers, NEW j \in Jobs, j = JobOf(u),
               WriteRow(u, "retryCommit", "RETRYING", "retryAck")
        PROVE  RetriesCounted'
    <3>1. /\ pc[u] = "retryCommit" /\ pc' = [pc EXCEPT ![u] = "retryAck"]
          /\ retries' = [retries EXCEPT ![j] = seen[u].retries + 1]
      BY <2>2 DEF WriteRow, CommitStatus, At, Goto
    <3>2. /\ seen[u].retries \in Nat /\ seen[u].retries <= Cardinality(Counted(j))
          /\ att[u] \in Attempts(j, "FAILED") /\ att[u] \notin Counted(j)
      BY <1>0, <2>2, <3>1
         DEF FailInv, SeenCounted, FailedOpen, Counted, Uncounted, WorkerTypeOK, RowType
    <3>3. att[u] \notin Uncounted(j)'
      <4>1. SUFFICES ASSUME NEW v \in Workers, pc'[v] \in Uncounting,
                            JobOf(v)' = j, att'[v] = att[u]
                     PROVE  FALSE
        BY DEF Uncounted
      <4>2. v # u /\ pc[v] = pc'[v]
        BY <1>0, <3>1, <4>1 DEF WorkerTypeOK
      <4>3. JobOf(v) = JobOf(u) /\ att[v] = att[u]
        BY <2>2, <4>1, FailurePoints
      <4> QED BY <3>1, <4>1, <4>2, <4>3 DEF FailInv, FailedApart
    <3>4. att[u] \in Counted(j)' /\ Counted(j) \subseteq Counted(j)'
      BY <3>2, <3>3, FailedKept, CountedKept DEF Counted
    <3>5. Cardinality(Counted(j)) + 1 <= Cardinality(Counted(j)')
      <4>1. IsFiniteSet(Counted(j)) /\ IsFiniteSet(Counted(j)')
        BY <1>0, FailedFinite, AttemptsFinite DEF StoreTypeOK, Attempts, Counted
      <4>2. Cardinality(Counted(j) \cup {att[u]}) = Cardinality(Counted(j)) + 1
        BY <3>2, <4>1, FS_AddElement
      <4> QED BY <3>4, <4>1, <4>2, FS_Subset
    <3>6. ASSUME NEW i \in Jobs PROVE retries'[i] <= Cardinality(Counted(i)')
      <4>1. retries[i] \in Nat /\ retries[i] <= Cardinality(Counted(i))
        BY <1>0 DEF FailInv, RetriesCounted, StoreTypeOK
      <4>2. retries'[i] = IF i = j THEN seen[u].retries + 1 ELSE retries[i]
        BY <1>0, <3>1 DEF StoreTypeOK
      <4> QED BY <1>0, <3>2, <3>5, <4>1, <4>2
    <3> QED BY <3>6 DEF RetriesCounted
  <2>3. \A u \in Workers : WriteRow(u, "retryCommit", "RETRYING", "retryAck") => JobOf(u) \in Jobs
    BY JobOfType DEF WriteRow, At
  <2> QED BY <2>1, <2>2, <2>3, RetriesChange
<1>4. SeenCounted'
  <2>1. SUFFICES ASSUME NEW w \in Workers, NEW j \in Jobs, j = JobOf(w),
                        JobOf(w)' = j, pc'[w] = "retryCommit"
                 PROVE  (seen'[w]).retries <= Cardinality(Counted(j)')
    BY FailurePoints DEF SeenCounted
  <2>2. (seen'[w]).retries \in Nat /\ (seen'[w]).retries <= Cardinality(Counted(j))
    <3>1. CASE pc[w] = "retry" /\ seen'[w] = Row(JobOf(w))
      BY <1>0, <2>1, <3>1 DEF FailInv, RetriesCounted, Row, StoreTypeOK
    <3>2. CASE pc[w] = "retryCommit" /\ seen'[w] = seen[w]
      BY <1>0, <2>1, <3>2 DEF FailInv, SeenCounted, WorkerTypeOK, RowType
    <3> QED BY <2>1, <3>1, <3>2, FailurePoints
  <2> QED BY <1>0, <2>2
<1>5. GivesUp'
  <2>1. SUFFICES ASSUME NEW w \in Workers, NEW j \in Jobs, j = JobOf(w),
                        JobOf(w)' = j, pc'[w] \in GivingUp
                 PROVE  Exhausted(j)'
    BY FailurePoints DEF GivesUp
  <2>2. Exhausted(j)
    <3>1. CASE pc[w] \in GivingUp
      BY <2>1, <3>1 DEF FailInv, GivesUp
    <3>2. CASE pc[w] = "decide" /\ retries[j] >= MaxRetries
      <4>1. /\ retries[j] \in Nat /\ MaxRetries <= Cardinality(Counted(j))
            /\ att[w] \in Attempts(j, "FAILED") /\ att[w] \notin Counted(j)
        <5>1. retries[j] \in Nat /\ retries[j] <= Cardinality(Counted(j))
          BY <1>0 DEF FailInv, RetriesCounted, StoreTypeOK
        <5>2. att[w] \in Attempts(j, "FAILED") /\ att[w] \notin Counted(j)
          BY <2>1, <3>2 DEF FailInv, FailedOpen, Counted, Uncounted
        <5>3. Cardinality(Counted(j)) \in Nat
          BY <1>0
        <5> QED BY <1>0, <3>2, <5>1, <5>2, <5>3
      <4>2. Cardinality(Counted(j) \cup {att[w]}) = Cardinality(Counted(j)) + 1
        BY <1>0, <4>1, FailedFinite, FS_AddElement
      <4>3. Counted(j) \cup {att[w]} \subseteq Attempts(j, "FAILED")
        BY <4>1 DEF Counted
      <4>4. Cardinality(Counted(j)) + 1 <= Cardinality(Attempts(j, "FAILED"))
        <5>1. Cardinality(Counted(j) \cup {att[w]}) <= Cardinality(Attempts(j, "FAILED"))
          BY <1>0, <4>3, FailedFinite, FS_Subset
        <5> QED BY <4>2, <5>1
      <4> QED BY <1>0, <4>1, <4>4, FailedFinite DEF Exhausted
    <3> QED BY <2>1, <3>1, <3>2, FailurePoints
  <2> QED BY <1>0, <2>2, ExhaustedKept
<1> QED BY <1>1, <1>2, <1>3, <1>4, <1>5 DEF FailInv

LEMMA FailInvariant == Spec => [](Typed /\ DagInv /\ FailInv)
<1>1. Init => FailInv
  <2>1. SUFFICES ASSUME Init PROVE FailInv
    OBVIOUS
  <2>2. FailedOpen /\ FailedApart /\ SeenCounted /\ GivesUp
    BY <2>1 DEF Init, WorkerInit, FailedOpen, FailedApart, SeenCounted, GivesUp, Uncounting,
                GivingUp, Retrying, Failing
  <2>3. RetriesCounted
    <3>1. SUFFICES ASSUME NEW j \in Jobs PROVE retries[j] <= Cardinality(Counted(j))
      BY DEF RetriesCounted
    <3>2. StoreTypeOK /\ retries[j] = 0
      BY <2>1, InitTyped DEF Init, StoreInit, Typed, TypeOK
    <3>3. Cardinality(Counted(j)) \in Nat
      BY <3>2, FailedFinite
    <3> QED BY <3>2, <3>3
  <2> QED BY <2>2, <2>3 DEF FailInv
<1>2. Typed /\ Typed' /\ DagInv /\ FailInv /\ [Next]_vars => FailInv'
  BY HistoryStep, FailInvStep DEF DagInv
<1> QED
  BY <1>1, <1>2, DagInvariant, PTL DEF Spec

(* Every counted retry stands for a failed run of its own, although the      *)
(* counter is read, compared and written back in three sessions              *)
(* (job_manager.py:485-510 and 331-347).  Nothing is assumed of heartbeats:  *)
(* two workers on one job can only lose increments, never invent them.       *)
THEOREM RetriesAreBacked == Spec => []RetriesAreFailures
<1>1. Typed /\ FailInv => RetriesAreFailures
  <2>1. SUFFICES ASSUME Typed, FailInv, NEW j \in Jobs
                 PROVE  retries[j] <= Cardinality(Attempts(j, "FAILED"))
    BY DEF RetriesAreFailures
  <2>2. StoreTypeOK /\ retries[j] \in Nat /\ retries[j] <= Cardinality(Counted(j))
    BY <2>1 DEF Typed, TypeOK, StoreTypeOK, FailInv, RetriesCounted
  <2>3. Counted(j) \subseteq Attempts(j, "FAILED")
    BY DEF Counted
  <2>4. Cardinality(Counted(j)) <= Cardinality(Attempts(j, "FAILED"))
    BY <2>2, <2>3, FailedFinite, FS_Subset
  <2> QED BY <2>2, <2>4, FailedFinite
<1> QED
  BY <1>1, FailInvariant, PTL

-----------------------------------------------------------------------------
(* The dead letter stream *)

Recorded(j) == \E r \in dlq : r.job = j
AtDlq(j) == \E w \in Workers : pc[w] = "dlq" /\ JobOf(w) = j

DeadExhausted == \A j \in Jobs : Recorded(j) => Exhausted(j)
FailedRecorded == \A j \in Jobs : status[j] = "FAILED" => Recorded(j) \/ AtDlq(j)

LEMMA DeadExhaustedStep ==
    ASSUME Typed, Typed', HistoryKept, FailInv, DeadExhausted, [Next]_vars
    PROVE  DeadExhausted'
<1>1. SUFFICES ASSUME NEW j \in Jobs, Recorded(j)' PROVE Exhausted(j)'
  BY DEF DeadExhausted
<1>2. Recorded(j) \/ AtDlq(j)
  BY <1>1, DlqChange DEF Recorded, AtDlq, DeadLetter, SendToDlq
<1>3. Exhausted(j)
  BY <1>2 DEF DeadExhausted, FailInv, GivesUp, GivingUp, AtDlq
<1> QED BY <1>3, ExhaustedKept DEF Typed, TypeOK

LEMMA DeadInvariant == Spec => [](FailInv /\ DeadExhausted)
<1>1. Init => DeadExhausted
  BY DEF Init, StreamInit, DeadExhausted, Recorded
<1>2. Typed /\ Typed' /\ DagInv /\ FailInv /\ DeadExhausted /\ [Next]_vars => DeadExhausted'
  BY HistoryStep, DeadExhaustedStep DEF DagInv
<1> QED
  BY <1>1, <1>2, FailInvariant, PTL DEF Spec

(* What is written stays written, and what is about to be is written next.   *)
LEMMA FailedRecordedStep ==
    ASSUME "dlq" \notin WorkerFaults, Typed, FailedRecorded, [Next]_vars
    PROVE  FailedRecorded'
<1>0. WorkerTypeOK /\ dlq \subseteq DlqRecord
  BY DEF Typed, TypeOK, StreamTypeOK
<1>1. SUFFICES ASSUME NEW j \in Jobs, status'[j] = "FAILED"
               PROVE  Recorded(j)' \/ AtDlq(j)'
  BY DEF FailedRecorded
<1>2. CASE \E w \in Workers : WorkerActs(w) /\ Writes(w, j, "FAILED")
  <2>1. PICK w \in Workers : JobOf(w) = j /\ WriteRow(w, "failCommit", "FAILED", "dlq")
    BY <1>2 DEF Writes
  <2>2. pc'[w] = "dlq" /\ JobOf(w)' = j
    BY <1>0, <2>1 DEF WriteRow, Goto, WorkerTypeOK, JobOf, streamVars
  <2> QED BY <2>2 DEF AtDlq
<1>3. CASE Recorded(j)
  BY <1>3, DlqChange DEF Recorded, DeadLetter, SendToDlq
<1>4. CASE AtDlq(j)
  <2>1. PICK w \in Workers : pc[w] = "dlq" /\ JobOf(w) = j
    BY <1>4 DEF AtDlq
  <2>2. Stays(w) \/ WorkerStep(w)
    BY <2>1, WorkerMoves DEF WorkerFails, Fetches, WorkerActs
  <2>3. CASE Stays(w)
    <3>1. pc'[w] = "dlq" /\ JobOf(w)' = j
      BY <2>1, <2>3, SameJob DEF Stays
    <3> QED BY <3>1 DEF AtDlq
  <2>4. CASE WorkerStep(w)
    <3>1. dlq' = dlq \cup {[job |-> j, source |-> msg[w]]}
      BY <2>1, <2>4, ActionAt DEF DeadLetter, SendToDlq
    <3>2. [job |-> j, source |-> msg[w]] \in dlq' /\ [job |-> j, source |-> msg[w]].job = j
      BY <3>1
    <3> QED BY <3>2 DEF Recorded
  <2> QED BY <2>2, <2>3, <2>4
<1>5. CASE status[j] # "FAILED"
  BY <1>1, <1>2, <1>5, StatusChange
<1> QED BY <1>3, <1>4, <1>5 DEF FailedRecorded

(* A job only reaches the dead letter stream once it has failed more often   *)
(* than it may be retried (job_manager.py:502-514), whatever fails.          *)
THEOREM DeadLettersAreExhausted ==
    Spec => [](\A j \in Jobs : Recorded(j) => Cardinality(Attempts(j, "FAILED")) > MaxRetries)
<1>1. DeadExhausted => \A j \in Jobs : Recorded(j) => Cardinality(Attempts(j, "FAILED")) > MaxRetries
  BY DEF DeadExhausted, Exhausted
<1> QED
  BY <1>1, DeadInvariant, PTL

(* FAILED and the dead letter stream go together, except between the commit  *)
(* and the XADD of one worker, provided that XADD does not fail: nothing     *)
(* repeats it (job_manager.py:512-514, worker.py:60-124).                    *)
THEOREM DeadLettersAreComplete ==
    ASSUME "dlq" \notin WorkerFaults
    PROVE  Spec => []DeadLettersMatch
<1>1. Init => FailedRecorded
  BY DEF Init, StoreInit, FailedRecorded
<1>2. Typed /\ FailedRecorded /\ [Next]_vars => FailedRecorded'
  BY FailedRecordedStep
<1>3. FailInv /\ DeadExhausted /\ FailedRecorded => DeadLettersMatch
  BY DEF FailInv, GivesUp, GivingUp, DeadExhausted, FailedRecorded, Recorded, AtDlq,
         DeadLettersMatch, Exhausted
<1> QED
  BY <1>1, <1>2, <1>3, TypedInvariant, DeadInvariant, PTL DEF Spec

=============================================================================
