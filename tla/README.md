# TLA+ models of the autonomous AI job orchestrator

The orchestrator takes jobs and workflows over HTTP, keeps them in PostgreSQL, lets a
scheduler pick the runnable ones, hands them to workers through a Redis stream, and retries
or dead-letters the ones that fail. This directory holds TLA+ models of those parts, the TLC
configurations that check them on small instances, and theorems about them that TLAPS proves
for every number of jobs, workers and clients.

Paths below are relative to `src/src/`, the Python package, unless they name a document of
the repository.

## 1. Inventory

| Part | Source | State | Operations | What makes it correct |
|---|---|---|---|---|
| Job store | `orchestrator/job_manager.py`, `db/models/*.py` | rows of `jobs`, `dependencies`, `runs` | create, read, status update, start and finish of a run | history of runs is never lost; COMPLETED and `retry_count` agree with it |
| Job stream | `db/stream_queue.py` | Redis stream, consumer group (cursor, pending list), dead letter stream | XADD with MAXLEN, XREADGROUP, XAUTOCLAIM, XACK | at-least-once delivery in order, of all but what MAXLEN drops |
| Job lease | `db/lease_store.py` | one key with an expiry per job | acquire (SET NX EX), renew, release (GET, DEL) | two workers never hold one job |
| Worker | `orchestrator/worker.py` | local variables of `_process_message`, a heartbeat thread | read, reclaim, execute, ack, retry, dead-letter | every message is acknowledged in the end; a job under way is never forgotten |
| Scheduler | `orchestrator/scheduler.py` | the lists of one loop iteration | list, check parents, pick, mark RUNNING, enqueue | reaches every PENDING job whose parents are COMPLETED |
| Job API | `api/routes.py`, `job_manager.py` | local variables of a request | create, create DAG, cancel, retry | respects dependencies and terminal states |
| Admission | `auth/deps.py`, `tenancy/*.py`, `job_manager.py` | Redis counters with an expiry, idempotency keys | rate limit, key lookup, quota, transaction | one job per key; bounded overrun of limit and quota |
| Run execution | `orchestrator/runners/*.py`, `orchestrator/executors/*.py` | child process, its result file | spawn, wait, time out, kill, read the result | success only if the job succeeded; a timeout is final and always ends |
| Run output | `storage/*.py`, `JobManager.finish_run` | log files, `runs.log_ref` | spill, commit, read | a committed reference resolves to the output of that run |
| Autoscaler | `orchestrator/autoscaler.py` | `_below_since`; the running containers | measure, scale up, scale down | fleet bounded; up fast, down slow; settles |
| EDF heuristic, RL agent | `scheduler.py`, `rl_engine/` | network weights | pick a runnable job | nobody with a deadline starves; the agent's window reaches everybody |
| Training, benchmark | `train_model.py`, `benchmark.py` (next to the package), `rl_engine/environment.py` | one batch of jobs, simulated time | decide, execute, reward; three strategies | the reward is what the benchmark measures; each strategy is the best at something |
| Authentication, admin | `auth/`, `api/admin_routes.py`, `api/auth_routes.py`, `db/audit.py` | rows of `api_keys`, `service_accounts`, `audit_log`; access tokens | validate, create, revoke, exchange for a token | what is revoked stays out; tenants apart; the audit log is complete |
| Startup, configuration, secrets | `main.py`, `core/config.py`, `core/secrets.py` | settings of a process | hydrate, validate, create the group, import the bootstrap key | no unsafe production; replicas come up; the bootstrap key only enters an empty table |
| GET routes, dashboard, health, migrations, logging, demo tasks | `api/routes.py`, `dashboard/`, `api/health.py`, `core/logging_config.py`, `alembic/`, `tasks/` | none of their own | pure input and output | not applicable |

### How the parts interact

- The API process also runs the scheduler as an asyncio task (`main.py`). Workers and the
  autoscaler are processes of their own, usually containers.
- All of them share the tables and the stream; only workers use the leases. There are no
  direct calls between processes.
- `JobManager` opens a session for each method: it reads a row, assigns attributes and
  commits. Under READ COMMITTED, and without `SELECT ... FOR UPDATE`, a commit of another
  process can fall between the two. SQLAlchemy writes the attributes that differ from what it
  read, and `retry_count` as an absolute number. In the models a read and the write that
  uses it are therefore two steps, and the write takes the row as it was read.
- PostgreSQL and Redis change together in several places (commit, then XADD; XACK, then
  XADD). Nothing makes such a pair atomic, and a process can stop in between.

### What is hard here

Interleavings of any two processes between any two calls; a message that is reclaimed while
its first reader still works; two messages for one job (`create_job` and the scheduler
each send one); a heartbeat that dies while its worker goes on; a status read before the
lease and used after it; crashes in the middle of two-part changes; the stream and the
scheduler's listing at their limits; a child process that races its timeout; two requests with
the same idempotency key; a Docker call that fails half-way through a scale-up; the time a
renewal of a lease takes; a key that is revoked, or a first key that is imported, while other
requests and replicas look at the table.
`PROJECT.json` lists each of these hazards at its line with the properties that cover it.

## 2. Plan and state of the work

| # | Modules | State |
|---|---|---|
| 1 | `JobStore`, `JobStream`, `JobLease`: shared state | done |
| 2 | `Worker`, `Scheduler`, `Api`: the processes | done |
| 3 | `Orchestrator` composes 1 and 2; `DagExecution`, `RunHistory`, `WorkQueue`, `JobTable` and `KeptLease` are what it promises | done, checked, safety and the five refinements proved |
| 4 | `Autoscaler` | done |
| 5 | `RunExecution`: the worker's steps `StartRun`, `RunSucceeds` and `RunFails` in detail | done; it and `Orchestrator` both implement `RunHistory`, proved |
| 6 | `Admission`: the API's one step `SubmitJob` in detail | done; it and `Orchestrator` both implement `JobTable`, proved |
| 7 | `LeaseClock`: `JobLease` and the heartbeat with a clock; it justifies what `Worker` assumes of them | done; it and `Orchestrator` both implement `KeptLease`, proved |
| 8 | `Credentials`, and `Access` which composes it with starting replicas | done |
| 9 | `Dispatch` (which job the scheduler takes), `Simulation` (training and benchmark) | done |
| 10 | Proofs `OrchestratorProofs`, `OrchestratorDag`, `AutoscalerProofs`, `RunExecutionProofs`, `LeaseClockProofs`, `AccessProofs`, `AdmissionProofs`, `SimulationProofs` | done: every safety property of every passing run |
| 11 | `RunHistory`, `JobTable`, `KeptLease`: between a module and the one that says the same in detail | done, proved on both sides |

Properties are stated in the module whose behaviour they are about and under the name used in
the `.cfg` files. No module uses RECURSIVE, so all of them can be proved about.

## 3. The models and the code

### `JobStore`

`status[j]`, `retries[j]` and `runs[j]` are `jobs.status`, `jobs.retry_count` and the statuses
of the rows of `runs`, in order of `attempt`. `Row` is a read; `CreateRow`, `CreateDag`,
`CommitStatus`, `InsertRun` and `FinishRun` are commits. `CommitStatus(j, target, old)` is the
commit of `update_job_status` for a row that was read as `old`: the status is left alone if
`target` is what had been read, and a retry writes `old.retries + 1`. The unique constraint on
`(job_id, attempt)` is `AttemptIsFree`. Timestamps, payloads, audit rows and `worker_id` are
left out; one tenant is enough because every query filters by the tenant of the job.

### `JobStream`

A message id is the position at which XADD put it. `cursor` is the last id delivered to the
group, `pending` its pending entries list, `trimmed` the prefix that MAXLEN has dropped
(`~` makes Redis trim late, so the model trims any time and any amount it may). XAUTOCLAIM
also removes pending entries that were trimmed. Redis and its client are external: the
operations follow how `stream_queue.py` uses them. `_parse_message` also handles a message
without a job id, which no code sends.

### `JobLease`

The key of a job holds a worker id or does not exist. `acquire` is one atomic step, `release`
is a GET (`Worker!CheckLease`) and a DEL (`Worker!DeleteLease`) that may hit another holder.
Expiry is an event. It is disabled while a worker with that id works on the job and its
heartbeat runs (`beating`): the heartbeat renews every 10 s a lease of 30 s. `Stall` ends this
guarantee: the heartbeat thread dies of an exception, or the process pauses for longer than
the TTL, and `_process_message` goes on. `beating` stays TRUE up to the release, where the
thread is stopped.

### `Worker`

`pc[w]` names the call that `_process_message` makes next; each action is one call with all of
its effects. `fetched`: `get_job`; `skip`: acknowledge a message of a terminal job; `lease`:
acquire; `mark`/`markCommit`: `update_job_status(RUNNING)`; `start`/`startCommit`: `start_run`;
`exec`: `runner.run` and `finish_run`; `complete`...: the success path; `decide`,
`retry`..., `retryAck`, `requeue`: the retry path with its back-off before `requeue`; `fail`...,
`dlq`, `ack`: the dead letter path; `release`, `delete`: the finally block. A failing call
inside the try block goes to `release` (`CallFails`) with the message unacknowledged;
anywhere else it ends the process (`WorkerCrash`). An exception that is raised after the call
took effect is a failure of the next point. Which id a worker has is a parameter: several
may share one. The branch for a job that is not in the table cannot be reached, since rows
are never deleted and messages are sent after the commit.

### `Scheduler`

`ListJobs` keeps the PENDING rows among the `ListLimit` oldest; `CheckParent` reads one
parent; `PickJob` picks any runnable job and so covers both the RL agent and EDF;
`MarkQueued` commits RUNNING; `EnqueuePicked` sends the message. `SchedulerFails` is an
exception (the loop starts over) or the death of the API process.

### `Api`

Requests that change jobs, step by step: `SubmitJob` and `SubmitDag` (up to the commit),
the check of each parent in a session of its own, `EnqueueSubject`; `CancelRead` and
`CancelCommit`; `RetryCheck`, the parents, `RetryRead`, `RetryCommit`. When the API process
dies, its requests and its scheduler stop as separate faults, which is more than can happen.

### `Orchestrator`

The composition. Each process acts alone (`WorkerActs`, `SchedulerActs`, `Serves`, ...) and
budgets bound the faults, the stalls and the commands. `WorkerFaults` and `SchedFaults` say at
which points calls may fail, so that a run can ask what is true if only some of them do.

`DagExecution` is the abstract workflow: a job starts after all of its parents have
succeeded, and both facts stay true. `Orchestrator` implements it with
`started` = jobs with a run and `succeeded` = jobs with a COMPLETED run. `WorkQueue` is the
abstract queue, bounded, with the workers that have its messages in hand: put, take in order, settle what is in
hand, put down unsettled, take again what is in flight. Nothing else takes a message away but a put, which may
drop the messages that `Capacity` newer ones have followed, wherever they are. `Orchestrator` implements it with
`Capacity` = `StreamMaxLen` and `hands` = what each worker has yet to process (`Held`). `RunHistory` is the
runs table: the attempts of a job are numbered as they start, each gets one result at most,
none is removed. `RunExecution` implements it too (`AttemptsImplementHistory`: its `StartRun` is the
start of an attempt, `CommitRun` its finish, all the rest a stutter), which is why `Worker` may
treat the execution of a run as two steps.

`JobTable` is what requests may rely on: all the jobs of a request are in the table or none, a key is
given to one job and stays with it, an answer names jobs that are there, no row disappears. `Admission`
implements it with all its races (`AdmissionImplementsTable`), and so does `Orchestrator` (`ImplementsTable`), where
a request is one step and late reads and redelivered messages write rows: `SubmitJob` and
`SubmitDag` may stand for what `Admission` does. `KeptLease` is what executions may rely on: only a free
lease is taken, it does not end by itself while a worker with its id keeps it, and only a worker that had found its own id
in it deletes it. `LeaseClock` implements it with one job and a clock (`ClockImplementsLease`: `keeps` are the workers
that are not late), `Orchestrator` with all jobs and none (`ImplementsLease`: `keeps` are those that beat), so that `LeaseExpires` may
be an event that a beating heartbeat disables.

### `Autoscaler`

One iteration of the loop is `Measure` (backlog and `compute_desired_workers`), one of
`WantMore`, `WantSame`, `WantFewer` (first count and decision), and, in `scale_to`, `Recount`,
then `StartClone` once per missing worker or `ChooseVictims` and `StopClone`. `clones + doomed`
are the running labelled containers. An exception at any call abandons the tick with
`_below_since` as it is; a restart forgets it. The backlog changes at any time, clones crash,
the compose worker stops (at most `MaxOutages` times) and returns. Clones that have exited are
no longer counted by `_clones` (it lists running containers) and are outside the model.

### `RunExecution`

The attempts of one job, `runs` of `JobStore` with what an attempt does in between. `child` goes through executing, opening the result file
(`"w"` truncates it), writing and exiting, and may be killed at any of these points. `rest` are
the processes that the job has started, the command of a shell job among them: they come while the executor runs,
or from one another later (`DescendantStarts`), and stay when it has returned or died. They have the worker's
pipes (`chatty`, of a python job) or pipes of the child's own (`quiet`, of a shell job), and may leave the
process group of the child with the pipes (`apart`). `Communicated` needs the end of file on the pipes; `TimesOut`
may come at any time before; `Kill` is `killpg` and reaches the process group only; `GraceEnds` returns with or without end of
file. What the descendants of one attempt do during the next touches nothing of the next, which has a process
group, pipes and a result file of its own, so `rest` speaks of the attempt in hand. `Finishes` and `SpillOutput` are `persist_run_output`, one file per long stream, before
`CommitRun`. Contents are the attempt that wrote them. A container that dies takes its child
along (the worker is its first process).

### `Admission`

Requests of one tenant, one thread each. `tenant` is its row with `max_jobs` and `rate_limit`, which
`Quota` and `Limit` read. `ReadClock`, `Incr`, `SetExpiry`: the rate limit with
the window in the name of the counter; `Tick`: time, and the expiry of counters;
`LimitSkipped`: a Redis error lets the request pass. `LookupKey`, `CheckQuota`, `Flush`,
`Commit`, `ResolveConflict`, `Reply`: `create_job`; `create_dag` is the same with several ids and
no key. `Flush` is where PostgreSQL enforces the unique key: it waits for a transaction in
flight with the same key and fails if that one commits. `CommitRefused` is the foreign key of a
dependency that is no job. `JobEnds` and `ComesBack` are what the rest of the system does to jobs: they end, and
`retry_job` (`JobRetried`) or a late `update_job_status` of the scheduler or of a worker (`JobRevived`) makes them active again, as often
as you like and without asking for the quota. `fresh`, `stale`, `named` and `back` (the active jobs that had ended before) only record history. Counts beyond
`Limit + 1` are all the same to the code and are stored as `Limit + 1`.

### `LeaseClock`

One job and its key, in ticks. `AcquireKey` is SET NX EX. `StartHeartbeat` starts a thread that
waits `Interval`, then `RenewGet`, then `RenewExpire`, and waits again; `StopHeartbeat` is
`stop_event.set()`, which ends a waiting thread and does not wait for one that is calling Redis.
`ReleaseGet` and `ReleaseDelete` are the two calls of `release`. `due` and `left` are the ticks within
which a process that is not paused makes its next call: at most `Delay` after the last one, the
reply of EXPIRE included. How long the job runs is open. `Pause`, `HeartbeatDies` (an exception of
`renew`), `Crash` and `ReleaseFails` are the faults; `late` and `own` are history.

The assumption `RenewedInTime`, `Heartbeat + 3 * Delay < TTL`, is what the defaults 10 and 30 must
be read as: it allows six seconds for each call. `KeptLeasesStay` is what `Worker` and `Orchestrator`
take for granted when `LeaseExpires` is disabled as long as the heartbeat beats, and `OneHolder` is
`ExclusiveExecution` with time. `Stall` of `Orchestrator` is `Pause` or `HeartbeatDies`.

### `Credentials` and `Access`

`Credentials` has the rows (`absent`, `enabled`, `disabled`; rows are never deleted), the audit log as
a set of actions and targets, for each account the ticks until its youngest token expires, and the
requests: `ValidateToken` and `ValidateKey` are the two ways through `get_current_principal`, `Touch` is the
UPDATE of `last_used_at` that commits after the row was read (SQLAlchemy writes that column only),
then one of the routes, in one transaction each. `Exchange` and `Issue` are `/auth/token`. Names of
keys are ids; only keys and accounts that were handed out are presented. Keys of other tenants
than the default one never come about by the API, as the code has no operation that makes a tenant; the
runs seed them as the tests do (`tests/test_tenant_isolation.py`).

`Access` adds the replicas: `Hydrate` (Vault), `Validate`, `EnsureGroup`, `CountKeys` and `ImportKey` (the two
sessions of `bootstrap_if_empty`), then serving. A start that fails leaves the process down, that of the loser of the race
for the bootstrap key (an IntegrityError) included.
`Deployments` says how the replicas may be deployed, and with which keys in the table; one of them is
chosen at the start and `config` keeps its settings: production or not, each secret at its default or
not, what Vault holds.

### `Dispatch`

`mode` is SCHEDULER_MODE. A round of `Scheduler.run` without the tables: `ListRunnable`, then `Decide` (EDF, or any job of the
agent's window), `DecisionFails` (the inner `except`, which falls back to EDF) or `RoundFails` (the outer
one). In between jobs are submitted, get ready, are cancelled, come back by `retry_job` at their old
place in the order (`ComesBack`) and age. `due` counts ticks to the deadline. Clients are assumed to give deadlines that are still to come; otherwise newcomers with
ever earlier deadlines would starve others. `pending` is in the order of `created_at`, taken as the order
of submission.

### `Simulation`

`RunJob` is one iteration of the loops of `train` and `simulate_ai`, which differ in the reward and the next
state only; `firstOnly` is an agent that always answers 0. `FinishTimes` with `Fifo` and
`PriorityOrder` are the other strategies. `MCDecisions` puts `Dispatch` and `Simulation` side by side: a
behaviour is one of either. `waiting` is a set of indices: the code sorts its list first thing in each
round and `list.sort` is stable, so that the order it is in is always that of deadline and, among equals, of
generation (`Sorted`, `DueBefore`). The rewards count
halves, so that they are integers. The mask of `select_action` keeps the agent inside its window, so
the replacement of invalid answers by 0 is reached only as the answer 0 itself.

## 4. The runs

All runs finish in less than three minutes with two TLC workers. `CHECK_DEADLOCK FALSE` is set
where the system may come to rest: all jobs have ended, an episode is over, a bound (messages,
faults, attempts, ticks) is used up, or a production was deployed without any key, so that
nobody gets in. Runs without liveness use the symmetry of the workers or clients.

| Run | Question | Bounds that matter |
|---|---|---|
| `no_loss` | `NoJobLost`, `DeadLettersMatch` and `RetryBudget` with faults anywhere but inside a two-part change | 1 job, 2 workers, 3 messages, 1 retry, 1 fault, 1 command |
| `stalled` | `ExclusiveExecution` up to the first heartbeat that stops, and what still holds when two workers then execute one job: `CompletedHasRun`, `RetriesAreFailures`, `ImplementsHistory`; and the refinement `AtLeastOnce` | 1 job, 2 workers, 2 messages, redelivery while busy, 1 stall, 1 fault while a job is executed, stream trimmed to 1, batches of 2 |
| `dag` | `DependencyGate`, `ImplementsDag`, and the liveness `PendingIsScheduled`, with a command | parent and child, a job that depends on itself, a listing of 2 rows, 1 worker, 5 messages |
| `recovers` | liveness `EventuallySettled`, `EveryMessageAcked` after a fault | 1 job, 2 workers, 4 messages, 1 fault |
| `autoscaler` | `FleetBounded`, `DownIsSlow`, `SettlesAtDesired` | 4 workers, backlog up to 5, cooldown 3, 3 faults, 1 outage |
| `execution` | `SuccessIsReal`, `FailureHasCause`, `TimeoutIsHard`, `NoFileLeft`, `LogsResolve`, `RunReturns` | 3 attempts, 2 faults |
| `admission` | `RateKept`, `OneJobPerKey`, `QuotaOvershoot` | 2 threads; a tenant with limit 2 (two windows) or one with quota 2; 5 jobs, 1 key, 1 fault; jobs come back without bound |
| `leaseclock` | `OneHolder`, `KeptLeasesStay`, `LostIsLost`, `OrphanedLeaseEnds` | 2 workers, 2 threads, TTL 6, heartbeat 2, calls of 1 tick, 1 pause or dead heartbeat, 1 crash |
| `access` | `SafeInProduction`, `ReplicasServe`, `AuditMatches`, `TenantsApart`, `RevokedForGood`, `RevokedTokensDie` | 2 replicas, 2 requests, 2 tenants, 2 keys, 1 account, tokens of 1 tick, 1 crash; a fresh installation, or one with keys of two tenants, or a production with its secrets in Vault or its settings unfit |
| `decisions` | `DeadlineIsServed`, `WindowReached`, `RewardCountsMisses`, `OvertakesFew`, `StrategiesAreOptimal` | server: 3 jobs at a time, window 2, 2 priorities, deadlines 1 tick ahead or none, 1 failed decision or retried job; offline: all batches of 4 jobs of 5 kinds, window 2 |
| `sched_crash` | finding: `NoJobLost` when the scheduler's XADD fails | 1 fault, at that point only |
| `late_cancel` | finding: `CancelGuarded` | 1 command, no fault |

Why these bounds are enough to be interesting. Two workers and two messages for one job give
every race over the lease, the status and the attempt number: a third worker would only repeat
the second's part. One retry makes a job go through both outcomes of
`handle_execution_failure`. A parent and a child are the smallest workflow in which an
overwritten parent or an early message could start a job too soon; the third job of `dag` is a cycle, and older than the child,
so that the listing of two rows has no room for the child once all three exist. With a stream of one message the
second message of `stalled` drops the first one unread, in flight or in a worker's hands (each was seen to happen). A job makes at most
four messages in `recovers` (create, scheduler, retry, and one again after a fault), so
`MaxMsgs` never stops a process there; in safety runs it only ends behaviours early. Two attempts
let the second meet the log files of the first, a third those of both. Five job ids let two requests
of two jobs each meet a tenant at its quota: `QuotaOvershoot` reaches its bound, and so is the
smallest such number.

In `leaseclock` TTL is the least value that `RenewedInTime` allows, so that each tick of delay counts; two
threads let an old heartbeat overlap with that of the next lease, and one pause is enough for
each of the stale calls (DEL, EXPIRE). Two replicas and one operator's request give every race
for the bootstrap key. Three jobs with a window of two leave one outside; as ids are used
again, `Dispatch` has no end of newcomers in `decisions`. Four jobs and a window of two are the fewest that
let a bad agent put a job off twice, and the five kinds of jobs hold short and long ones, ties and
deadlines that cannot be met.

For each property of a passing run a plausible bug of the code is written down next to the
definition it changes (comments "mutant"), and with it TLC finds the property violated.

### Fairness

- A process that can make its next call makes it (weak fairness of `WorkerActs`,
  `SchedulerActs`, `Serves`): the loops of `run_worker` and `Scheduler.run` never end and catch
  or restart after exceptions; requests run to their end.
- Every worker reads again and again: each iteration of `run_worker` calls `read`. A worker may
  be busy in between, hence strong fairness of `Reads`.
- Every idle message is claimed again and again (strong fairness for each message): every
  fifth iteration calls XAUTOCLAIM from id `0-0`, which takes the lowest 10 idle messages.
- A lease that nobody renews expires (`LeaseEnds`), and a heartbeat that finds a foreign id
  ends. Nothing is assumed of the API's clients, of faults or of commands.
- In `recovers`, `dag` and `no_loss` a message is only reclaimed when no worker has it
  (`ClaimBusy = FALSE`), as with jobs shorter than `JOB_STREAM_CLAIM_MIN_IDLE_MS` (60 s).
  Otherwise a message could be passed around for ever, without any of it being wrong.
- `Autoscaler`: the loop goes on and time passes. Faults, outages and changes of the backlog are
  never forced; `SettlesAtDesired` is about backlogs that stop changing.
- `RunExecution`: the worker's code goes on and its timeouts end. The child and its descendants
  may hang for ever.
- `LeaseClock`: time passes, and the calls of processes that are not paused return; a job may run for
  ever and a paused process may stay so.
- `dag` needs less (`LoopsRun`): the scheduler and the worker go on. Requests may stop half-way and nothing is claimed or expires.
- `Access`: each replica is started once, and a start that has begun goes on; one that is down need not be started
  again (`docker-compose.yml` has no `restart:`). Requests are answered,
  tokens age. Requests, faults and operators are not forced.
- `Dispatch`: the loop of the scheduler goes on, and time passes. That retried jobs come back is never
  forced, and is bounded: a client that retries old jobs for ever could keep others waiting.
- `Admission` and `Simulation` have no liveness.

### `no_loss`, `recovers` and the safe fault points

`SafeWorkerPoints` and `SafeSchedPoints` leave out three points at which a fault does lose a job
or a dead letter: those between the two halves of a change that PostgreSQL and Redis make
together (section 6). `no_loss` shows that these three are the only ones. One fault is enough for each of its
questions; with two it takes five times as many states and finds nothing else, and section 5 proves its properties for any number.

## 5. What is proved

`TLAPS` proves the following for any finite or infinite sets of jobs, workers and clients, any
dependency relation and any bounds; the assumptions on constants are the `ASSUME`s of the
modules. Most are types; beyond them `LeaseClock` assumes `RenewedInTime`, and `Admission` finitely many
threads and a largest batch (`MAX_DAG_JOBS`).

- `OrchestratorProofs!TypeCorrect`: `Spec => []TypeOK`. The types alone are not inductive:
  `JobOf(w)` must be a job, so `Typed` adds that what a worker has in hand are ids of the stream
  (`HandsOK`). One lemma per operation of the shared modules, one per kind of step.
- `OrchestratorProofs!OneExecutionPerJob`: `ExclusiveExecution`, which speaks of every state up to the
  first heartbeat that stops early. The invariant is that a worker in the try or finally block
  has its heartbeat running and its id in the lease; each step keeps its lease, needs none,
  takes a free one or drops its own, and the rest of the system only lets unkept leases
  expire. It also holds for workers that share an id.
- `OrchestratorProofs!RetriesBounded`: `RetryBudget`, assuming `MaxStalls = 0` (no heartbeat ever
  stops early). The test of `retry_count` and its increment are separate reads; they agree
  because only the worker with the lease increments.
- `OrchestratorDag!CompletedIsBacked`, `HistoryIsKept`, `OrchestratorImplementsHistory`, `StartsAfterParents`,
  `OrchestratorImplementsDag` and `CyclesNeverStart`: without any assumption about heartbeats. The invariant `DagInv`
  carries the check of the parents from where it is made to where it counts: what the
  scheduler or a request has checked, what it has picked, every message of the stream, every
  worker that completes. It needs that a run that succeeded stays so, hence that a worker
  that executes has an open row of its own (`AttemptOpen`, `AttemptsApart`). The same fact makes each
  `finish_run` a step of `RunHistory`, also while two workers execute one job. `CyclesNeverStart` follows:
  in a set of jobs each of which has a parent in the set, none ever starts.
- `OrchestratorDag!RetriesAreBacked` (`RetriesAreFailures`), again without any assumption about
  heartbeats. The counter is compared with the failed runs that no worker is still about to
  count (`Counted`): a worker between `finish_run` and the commit of RETRYING has a failed run of its own
  that nobody else counts (`FailedOpen`, `FailedApart`), so the commit adds one to the counter at most and one
  to the counted runs exactly. Two workers on one job may overwrite each other's increment,
  which is why the property is an inequality.
- `OrchestratorDag!DeadLettersAreExhausted`: a job in the dead letter stream has more than
  `MAX_JOB_RETRIES` failed runs, whatever fails (no run states it alone). `DeadLettersAreComplete`: `DeadLettersMatch`,
  provided that no fault happens between the commit of FAILED and the XADD (`"dlq" \notin
  WorkerFaults`); section 6 shows that the proviso is needed. The invariant is that a worker that gives
  up does so on an exhausted job (`GivesUp`), which the failed run it has not counted pays for.
- `OrchestratorProofs!StreamImplementsQueue`: `AtLeastOnce`, each step of the system being a step of `WorkQueue` or a
  stutter, without any assumption: stalled heartbeats, messages claimed from busy workers, messages that are trimmed
  while somebody has them. It takes one lemma per kind of step (`PutView`, `TakeView`, `RetakeView`, `WorkerActsView`, `WorkerFailsView`);
  types are all the invariant it needs, since an acknowledgement of a message that is gone settles nothing.
- `OrchestratorProofs!JobsAreKept`: `NoJobLost`, under the conditions in which the code does keep its
  jobs, each of which section 6 shows to be needed or which section 4 explains: what is not acknowledged yet is among
  the last `JOB_STREAM_MAXLEN` messages (`BacklogFits`, which a stream that never gets that long satisfies, `SmallStreamsFit`); no fault between XACK and
  XADD of a retry (`"requeue"`) nor between commit and XADD of the scheduler (`"enqueue"`); no heartbeat that
  stops early; no message reclaimed from a busy worker. Crashes and failed calls anywhere else,
  duplicated messages, expired leases, cancellations and retries are allowed. The invariant has four parts: what workers have
  in hand is pending and apart (`HandsInv`); the row of a job that is being executed is not decided by anyone
  else, so the commit to come does take effect (`StatusOpen`; it rests on the lease); the scheduler picks one
  job at a time (`OnePicked`); and each job under way is carried by a message that no worker is about to
  drop (`Alive`), by the scheduler, or by a worker that has just to send the message (`AllCarried`).
- `AutoscalerProofs!FleetStaysBounded`: `FleetBounded` and the types, for any limits. A scale-up in progress has
  counted the clones that it will start: `clones + left` stays within the maximum, which a
  crash, an abandoned tick or a returning compose worker cannot break. `DownStaysSlow`: `DownIsSlow` for behaviours in
  which no call fails in the middle of a scale-up (`NoScaleUpFails`; section 6 has the counterexample
  without it). The invariant is that `_below_since` is not older than the last tick that wanted all the workers.
- `RunExecutionProofs!SuccessesAreReal`, `FailuresHaveCauses`, `TimeoutsAreHard`, `NoFilesAreLeft` and
  `LogsAlwaysResolve`, for any number of attempts and faults. The invariant says for each point of the worker what
  the child, its process group, the file and the log store look like, and that rows of later attempts are untouched. For
  `TimeoutIsHard` the point is that after `killpg` nobody is left in the group who could start a process there.
  `ExecutionImplementsHistory` follows from it; no run states `AttemptsImplementHistory`.
- `LeaseClockProofs!OneHolderAlways` and `KeptLeasesAlwaysStay`, for any number of workers and threads, any TTL,
  heartbeat and delay with `RenewedInTime`. The invariant bounds what is left of the lease from
  below by what the thread of its holder still has to do, `ttl > left + Rest(phase)` along wait, GET and
  EXPIRE, and by the calls of `release` once the thread is stopped. `LostStaysLost` (`LostIsLost`) needs no timing at all:
  only SET NX writes an id into the key.
- `LeaseClockProofs!ClockLeaseIsKept` (`ClockImplementsLease`) and `OrchestratorProofs!OrchestratorImplementsLease`
  (`ImplementsLease`): both implement `KeptLease`. With the clock the one hard step is `Tick`: a lease
  that runs out is that of a worker which is late, by the same bound on `ttl` as above. Without it
  the point is that a worker only changes the lease of the job it has in hand, and that this stays the same
  job while messages are trimmed, claimed by others and delivered again (`LeaseEffect`, `LeasedHasJob`).
- `AdmissionProofs!AdmissionFillsTheTable` (`AdmissionImplementsTable`) and `OrchestratorProofs!OrchestratorImplementsTable`
  (`ImplementsTable`): both implement `JobTable`. For `Admission` it is `KeysAreFree` once more, at the commit, and
  that a job which an answer names has been committed under its key. For `Orchestrator` it is that
  whatever is sent, listed, picked, read or asked for has a row (`InTable`), so that no late write makes one.
- `AccessProofs`: `RevokedStaysRevoked`, `TenantsStayApart`, `AuditAlwaysMatches` and `AlwaysSafeInProduction`, for
  any number of tenants, requests, replicas and keys and for any deployments. Two more facts are
  proved but in no run: a request that begins after its key was revoked acts for nobody
  (`RevokedKeysAreOut`), and the bootstrap key only enters an empty table (`AlwaysImportedFirst`). The
  first key cannot be created by a request: without keys there are no accounts and no requests
  that anybody let in (`NobodyWithoutKeys`), so a table that a replica found empty stays empty up
  to an import (`ImportsInTime`).
- `AdmissionProofs!AdmissionTypeCorrect`, `KeysNameOneJob` (`OneJobPerKey`), `RateIsKept` (`RateKept`) and
  `QuotaIsNearlyKept` (`QuotaOvershoot`), for any finite number of requests and any limits, windows and
  expiries. For the keys: no row and no other transaction has the key that a request holds in
  its own (`KeysAreFree`). For the rate: a counter lives until its window is over and has counted
  all requests of the window, and what gets through after that is bounded by the threads that
  read the clock before (`Late`). For the quota: the active jobs together with those of requests
  that passed the check (`Reserved`), but without those that have come back, stay below the ceiling: a request only passes if its own fit
  beside the active ones, and each other request reserves one batch at most (`FamilySize` bounds
  the union).
- `SimulationProofs`: the types, `RewardAlwaysCountsMisses` (`RewardCountsMisses`), `OvertakesAreFew` (`OvertakesFew`) and
  `StrategiesAreAlwaysOptimal` (`StrategiesAreOptimal`), for all batches, agents and windows. What a sum over a set or a
  recursive function comes to is not proved by induction but from a least counterexample
  (`SmallestNumber`, `SmallestSet`). The invariant `Episode` says what has been earned so far, who has been
  listed before whom, and that an agent that answers 0 runs the jobs by deadline. For the greatest
  lateness of that order: of the jobs due no later than some job, the last one ends, in
  any order, no earlier than all of them take together, which is when the order by deadline ends them;
  the argument for the priority order does the same below each priority.

The control flow of a worker and the writers of the tables and of the stream are stated once, in
`OrchestratorProofs` (`WorkerMoves`, `ActionAt`, `StatusChange`, `StreamChange` and their neighbours), and the invariants are proved from these.

The refinements of `RunHistory` by `RunExecution`, of `JobTable` and of `KeptLease` are in no run. TLC has checked them
before they were proved, with the constants of `execution`, of `admission`, `dag`, `stalled` and `late_cancel`, and of `leaseclock`.

Only model-checked: liveness, as TLAPS has neither rules for fairness nor ENABLED: `PendingIsScheduled`,
`EventuallySettled`, `EveryMessageAcked`, `SettlesAtDesired`, `RunReturns`, `OrphanedLeaseEnds`, `RevokedTokensDie`, `ReplicasServe`,
`DeadlineIsServed` and `WindowReached`. The safety properties of all passing runs are proved, some of
them under the conditions named above.

## 6. Where the code and its documents disagree

Two runs show a disagreement (`findings` in `PROJECT.json`):

- `sched_crash`: RUNNING is committed (`scheduler.py:69`) before the message is sent
  (`scheduler.py:70`). A stop in between leaves a RUNNING job that nothing ever looks at.
- `late_cancel`: `cancel_job` refuses terminal jobs by a row it has read, and then overwrites
  whatever is there, COMPLETED included.

Others were met while modelling. They have no run of their own; each can be seen by changing
the constants of a run as described, or by a property added to `Orchestrator`:

- FR-08 (`requirements_analysis.md:63`) asks for FIFO when the agent fails; the code falls back to
  EDF (`scheduler.py:59-63`).
- `create_dag` accepts a workflow with a cycle (`job_manager.py:194-203`). Its jobs stay PENDING for
  ever (`CyclesNeverStart`), and nothing tells the client.
- A worker that dies in the back-off of a retry has acknowledged its message
  (`worker.py:103`) and not sent the next one (`worker.py:107`): the job stays RETRYING.
  `no_loss` with `"requeue"` among the fault points violates `NoJobLost`.
- FAILED is committed before the dead letter is written (`job_manager.py:512-514`), and the
  redelivered message is skipped. `no_loss` with `"dlq"` among the fault points violates
  `DeadLettersMatch`.
- The retry path acknowledges a message whose job is not terminal, which
  `REAL_WORLD_BUILD_PLAN.md:116` forbids.
- A job can complete twice (`REAL_WORLD_BUILD_PLAN.md:157`, "no double-complete"): the second
  message of a job is read while the status is still RUNNING (`worker.py:36`), and the lease is
  taken after the first worker has released it; the status is not read again.
- XADD trims messages that are undelivered or not acknowledged (`stream_queue.py:54`), which `AtLeastOnce` allows for; the
  job is lost with its message: `no_loss` with `StreamMaxLen = 2` violates `NoJobLost`.
- The scheduler looks for PENDING jobs among the 10 000 oldest rows of any status:
  `dag` violates `PendingIsScheduled` without its last disjunct.
- `retry_job` does not ask for the quota, a late status update makes a job that has ended active again, and concurrent requests overrun the quota
  (`QuotaOvershoot` says by how much, jobs that came back not counted).
- Replicas that start together on an empty table race for the bootstrap key, and all but one end with an IntegrityError
  (`auth/service.py:158-173`): `ReplicasServe` only promises one once the key is imported.
- Two requests with one idempotency key and a tenant at its quota: the second may be refused
  with 429 although its job exists, because it counts after the first has committed and looked
  before.
- A scale-up that raises half-way leaves `_below_since` set, so that the next dip scales down at
  once, although `tests/test_autoscaler.py:85` says of a spike "timer must reset".
  `autoscaler` with `FaultPoints <- AllCalls` violates `DownIsSlow`.
- A background process of a job that keeps stderr open turns a success into a timeout
  (`subprocess_runner.py:79`; `FailureHasCause` says that nothing else does), and a quiet one survives a run that did not time out.
- The `prod` profile of `docker-compose.yml` gives API and worker no common log volume; the models
  assume the one of the default profile.
- If a message may be reclaimed while its worker is busy and a job is also cancelled and
  retried, one more way to lose a job appears; `no_loss` therefore has `ClaimBusy = FALSE`.
- In training the agent is shown the 15 jobs with the earliest deadlines (`train_model.py:46-48`), when it
  serves the 15 oldest (`scheduler.py:54`): an urgent job beyond them is invisible to it, and EDF would
  have taken it. `WindowReached` only says that it will be seen in the end.
- `list_jobs` counts and reads in two snapshots: a client that stops at `total` may miss a job that a late
  commit has pushed behind it.
- An operator who revokes the last key locks the tenant out: the bootstrap key is only imported
  into an empty table (`auth/service.py:165`).
- The dead letters of a tenant are looked for among the `10 * limit` newest of all tenants
  (`job_manager.py:562`).

## 7. What is not modelled

- The network of the RL agent (features, forward pass, gradient steps, target values): numeric. The agent
  may choose any job of its window.
- Hashes, signatures and their secrets: perfect. The executor allowlist, size limits of requests and
  formats only reject.
- Migrations, logging, health, dashboard, demo tasks: no state of their own.
- The GET routes, the pages of `GET /jobs/` included: one or two queries each. `list_dlq` is described in section 6.
- Time in `Orchestrator`: leases, idle thresholds, back-off and block times are events that may happen at any
  point their conditions allow. `LeaseClock`, `Admission`, `Autoscaler`, `Credentials` and `Dispatch` count ticks.
- Several tenants at once outside `Access`, job payloads, the
  bound of the dead letter stream, audit rows of jobs.
