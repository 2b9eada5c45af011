---------------------------- MODULE Orchestrator ----------------------------
(* The whole system: the API and the scheduler (one process), the workers,   *)
(* and the tables, the stream and the leases through which they interact.    *)
EXTENDS Worker, Scheduler, Api

CONSTANTS
    MaxFaults,      \* bound: failed calls and crashes
    MaxStalls,      \* bound: heartbeats that stop while their worker goes on
    MaxCommands,    \* bound: cancel and retry requests
    WorkerFaults,   \* points of a worker at which a call may fail
    SchedFaults     \* points of the scheduler at which a call may fail

ASSUME BoundsAssumption ==
    /\ MaxFaults \in Nat /\ MaxStalls \in Nat /\ MaxCommands \in Nat
    /\ WorkerFaults \subseteq Points
    /\ SchedFaults \subseteq {"check", "commit", "enqueue"}

VARIABLES faults, stalls, commands

counters == <<faults, stalls, commands>>
vars == <<storeVars, streamVars, lease, workerVars, schedVars, apiVars, counters>>

TypeOK ==
    /\ StoreTypeOK /\ StreamTypeOK /\ LeaseTypeOK
    /\ WorkerTypeOK /\ SchedTypeOK /\ ApiTypeOK
    /\ faults \in 0..MaxFaults
    /\ stalls \in 0..MaxStalls
    /\ commands \in 0..MaxCommands

Init ==
    /\ StoreInit /\ StreamInit /\ LeaseInit
    /\ WorkerInit /\ SchedInit /\ ApiInit
    /\ faults = 0 /\ stalls = 0 /\ commands = 0

-----------------------------------------------------------------------------

Fault   == faults < MaxFaults /\ faults' = faults + 1 /\ UNCHANGED <<stalls, commands>>
Hiccup  == stalls < MaxStalls /\ stalls' = stalls + 1 /\ UNCHANGED <<faults, commands>>
Order   == commands < MaxCommands /\ commands' = commands + 1 /\ UNCHANGED <<faults, stalls>>

OfWorkers == UNCHANGED <<schedVars, apiVars>>
OfScheduler == UNCHANGED <<lease, workerVars, apiVars>>
OfApi == UNCHANGED <<lease, workerVars, schedVars>>

WorkerActs(w) == WorkerStep(w) /\ OfWorkers /\ UNCHANGED counters
Reads(w)  == ReadMessage(w) /\ OfWorkers /\ UNCHANGED counters
Claims(w) == (ClaimMessages(w) \/ ClaimNothing(w)) /\ OfWorkers /\ UNCHANGED counters
LeaseEnds(j) == LeaseExpires(j) /\ OfWorkers /\ UNCHANGED counters
HeartbeatEnds(w) == HeartbeatLost(w) /\ OfWorkers /\ UNCHANGED counters
HeartbeatStalls(w) == Stall(w) /\ OfWorkers /\ Hiccup

WorkerFails(w) ==
    /\ pc[w] \in WorkerFaults
    /\ CallFails(w) \/ WorkerCrash(w)
    /\ OfWorkers /\ Fault

SchedulerActs == SchedulerStep /\ OfScheduler /\ UNCHANGED counters
SchedulerStops == spc \in SchedFaults /\ SchedulerFails /\ OfScheduler /\ Fault

Submits(c) == Submission(c) /\ OfApi /\ UNCHANGED counters
Commands(c) == Command(c) /\ OfApi /\ Order
Serves(c) == RequestStep(c) /\ OfApi /\ UNCHANGED counters
RequestLost(c) == RequestFails(c) /\ OfApi /\ Fault

Next ==
    \/ \E w \in Workers : \/ WorkerActs(w) \/ Reads(w) \/ Claims(w)
                          \/ HeartbeatEnds(w) \/ HeartbeatStalls(w)
                          \/ WorkerFails(w)
    \/ \E j \in Jobs : LeaseEnds(j)
    \/ SchedulerActs \/ SchedulerStops
    \/ \E c \in Clients : Submits(c) \/ Commands(c) \/ Serves(c) \/ RequestLost(c)

Spec == Init /\ [][Next]_vars

-----------------------------------------------------------------------------
(* Fairness.  A process that can make its next call makes it; a claim of the  *)
(* operating system and of the network, not of the code.  run_worker's loop   *)
(* reads once in each iteration and claims in every fifth, so a worker that   *)
(* returns to the loop again and again does both again and again; a claim     *)
(* takes the idle messages with the lowest ids and 10 of them at a time, so   *)
(* no idle message is passed over for ever while fewer than 10 are pending.   *)
ClaimsMessage(w, m) == Claims(w) /\ m \in pending /\ (msg[w])' = m

Fairness ==
    /\ \A w \in Workers : /\ WF_vars(WorkerActs(w))
                          /\ SF_vars(Reads(w))
                          /\ WF_vars(HeartbeatEnds(w))
    /\ \A m \in 1..MaxMsgs : SF_vars(\E w \in Workers : ClaimsMessage(w, m))
    /\ \A j \in Jobs : WF_vars(LeaseEnds(j))
    /\ WF_vars(SchedulerActs)
    /\ \A c \in Clients : WF_vars(Serves(c))

FairSpec == Spec /\ Fairness

(* The scheduler and the workers go on.  Requests may stop half-way, lost    *)
(* heartbeats run on, leases stay, and nobody claims anything.               *)
LoopsRun ==
    /\ Spec
    /\ WF_vars(SchedulerActs)
    /\ \A w \in Workers : WF_vars(WorkerActs(w)) /\ SF_vars(Reads(w))

-----------------------------------------------------------------------------
(* Safety *)

Executing(w, j) == pc[w] \in Leased /\ JobOf(w) = j

(* Two workers are never between the acquisition and the release of the      *)
(* lease of one job, as long as no heartbeat stops early (worker.py:60-124). *)
OneExecution ==
    \A v, w \in Workers : \A j \in Jobs :
        Executing(v, j) /\ Executing(w, j) => v = w

ExclusiveExecution == stalls = 0 => OneExecution

(* A job only has runs if each of its parents has a run that succeeded, even *)
(* though the worker never looks at dependencies itself (worker.py:34-78).   *)
DependencyGate == \A j \in Jobs : Started(j) => DepsSucceeded(j)

(* COMPLETED is backed by a run that succeeded, whatever overwrote what.     *)
CompletedHasRun == \A j \in Jobs : status[j] = "COMPLETED" => Succeeded(j)

(* The retry counter stays within MAX_JOB_RETRIES although the test in       *)
(* handle_execution_failure and the increment read the row separately.       *)
RetryBudget == \A j \in Jobs : retries[j] <= MaxRetries

(* Every counted retry stands for a failed run of its own.                   *)
RetriesAreFailures ==
    \A j \in Jobs : retries[j] <= Cardinality(Attempts(j, "FAILED"))

(* FAILED and the dead letter stream are only reached once all the attempts  *)
(* are used up, and never without each other, except between the commit and  *)
(* the XADD of one worker (job_manager.py:512-514).                          *)
DeadLettersMatch ==
    \A j \in Jobs :
        LET dead == \E r \in dlq : r.job = j
            at == \E w \in Workers : pc[w] = "dlq" /\ JobOf(w) = j
        IN  /\ status[j] = "FAILED" => dead \/ at
            /\ dead \/ at => Cardinality(Attempts(j, "FAILED")) > MaxRetries

(* A job the table says is under way is on its way to a worker, with one, or *)
(* about to be enqueued; otherwise nothing would ever run it again.          *)
NoJobLost ==
    \A j \in Jobs : status[j] \in {"RUNNING", "RETRYING"} =>
        \/ Outstanding(j)
        \/ spc = "enqueue" /\ j \in picked
        \/ \E w \in Workers : Works(w, j) /\ pc[w] \in InTry

History == INSTANCE RunHistory WITH history <- runs

(* A run gets one result, however many workers execute its job at once, and  *)
(* no attempt disappears (job_manager.py:417-442, run.py:32).                *)
ImplementsHistory == History!Spec

Table == INSTANCE JobTable WITH
    Batches <- SUBSET Jobs,
    Keys <- {}, NoKey <- "none",
    rows <- [j \in Jobs |-> CASE status[j] = "ABSENT"   -> "absent"
                              [] status[j] \in Terminal -> "ended"
                              [] OTHER                  -> "active"],
    keyOf <- [j \in Jobs |-> "none"],
    named <- [k \in {} |-> {}]

(* The jobs table of the whole system is the one that Admission fills: the   *)
(* rows of a request appear in one commit, none disappears, and whatever is  *)
(* read late or delivered twice, nothing is written for a job without a row  *)
(* (job_manager.py:171, 255, 278-349).                                        *)
ImplementsTable == Table!Spec

Lease == INSTANCE KeptLease WITH
    IdOf <- WorkerId,
    key <- lease,
    at <- [j \in Jobs |-> [w \in Workers |->
              IF ~Executing(w, j) THEN "away"
              ELSE IF pc[w] = "delete" THEN "deletes" ELSE "works"]],
    keeps <- [j \in Jobs |-> {w \in Workers : Executing(w, j) /\ beating[w]}]

(* The leases are those that LeaseClock implements with its clock and the    *)
(* renewals of the heartbeat (lease_store.py:27-48).                         *)
ImplementsLease == Lease!Spec

(* A job that has ended is not cancelled: "Job ... cannot be cancelled from  *)
(* status ..." (job_manager.py:368).                                         *)
CancelGuarded ==
    [][\A j \in Jobs : status[j] # "CANCELLED" /\ status'[j] = "CANCELLED"
                           => status[j] \notin Terminal]_vars

(* The workflow as its owner sees it.                                        *)
Dag == INSTANCE DagExecution WITH
    started   <- {j \in Jobs : Started(j)},
    succeeded <- {j \in Jobs : Succeeded(j)}

(* The orchestrator implements the workflow: whatever is delivered twice,    *)
(* overwritten or retried, jobs start in the order of their dependencies.    *)
ImplementsDag == Dag!Spec

Queue == INSTANCE WorkQueue WITH
    Capacity <- StreamMaxLen,
    Shared   <- ClaimBusy,
    put      <- Len(entries),
    dropped  <- trimmed,
    waiting  <- Undelivered,
    inflight <- {m \in pending : trimmed < m},
    hands    <- [w \in Workers |-> Held(w)]

(* The stream and the workers that read it are a bounded queue with delivery *)
(* at least once (REAL_WORLD_BUILD_PLAN.md:116): whatever crashes, a message *)
(* is only acknowledged by a worker that has it in hand, and it is lost only *)
(* when JOB_STREAM_MAXLEN newer ones exist, though then it may be unread or  *)
(* in a worker's hands (stream_queue.py:56-125).                              *)
AtLeastOnce == Queue!Spec

-----------------------------------------------------------------------------
(* Liveness *)

Blocked(j) == \E p \in Parents[j] : status[p] \in {"FAILED", "CANCELLED"}

(* Every job ends, and ends again after each retry, unless a parent that did *)
(* not succeed keeps it from starting.                                       *)
EventuallySettled ==
    \A j \in Jobs : status[j] # "ABSENT" ~> status[j] \in Terminal \/ Blocked(j)

(* The scheduler gets to every PENDING job whose parents are COMPLETED, as   *)
(* FR-05 asks ("must periodically poll for `PENDING` jobs"), unless a late   *)
(* cancellation of a parent blocks the job after all, or it is not among the *)
(* rows that the listing is cut to, ended ones included (scheduler.py:47).   *)
PendingIsScheduled ==
    \A j \in Jobs :
        status[j] = "PENDING" /\ (\A p \in Parents[j] : status[p] = "COMPLETED")
            ~> status[j] # "PENDING" \/ Blocked(j) \/ j \notin Listed

(* Every delivered message is acknowledged in the end, by the worker that    *)
(* read it or by one that reclaimed it.                                      *)
EveryMessageAcked == \A m \in 1..MaxMsgs : m \in pending ~> m \notin pending

=============================================================================
