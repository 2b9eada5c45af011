---------------------------- MODULE RunExecution ----------------------------
(* The attempts of one job as runners/subprocess_runner.py, runners/child.py *)
(* and finish_run carry them out: a child process executes the job and       *)
(* leaves its result in a temporary file, the worker waits for it with a     *)
(* timeout, writes long output to the log store and commits the run.         *)
(* Worker.tla has all of this as the two steps RunSucceeds and RunFails.     *)
EXTENDS Integers, Sequences

CONSTANTS
    MaxAttempts,    \* bound: attempts of the job
    MaxFaults       \* bound: crashes and exceptions of the worker

ASSUME ExecutionBoundsAssumption == MaxAttempts \in Nat \ {0} /\ MaxFaults \in Nat

Attempts == 1..MaxAttempts
Streams  == {"stdout", "stderr", "error"}

(* Processes that the job started.  A python job hands its own stdout and    *)
(* stderr on, which are the pipes that the worker reads ("chatty"); a shell  *)
(* command has others ("quiet").  Either may leave the process group of the  *)
(* child, with setsid or setpgid ("apart" is one that has the pipes).        *)
Descendants   == {"chatty", "quiet", "apart"}
InGroup       == {"chatty", "quiet"}
HoldingPipes  == {"chatty", "apart"}

VARIABLES
    wpc,        \* the next call of the worker
    attempt,    \* RunRow.attempt of the run in hand
    child,      \* the child process
    rest,       \* descendants that run, of the child of the run in hand
    made,       \* what execute_job returned in the child
    file,       \* result_path
    timedOut,   \* has communicate raised TimeoutExpired in this run?
    outcome,    \* ExecutionResult.success, as the worker has it
    todo,       \* long outputs that persist_run_output has to write
    refs,       \* those it has written
    rows,       \* RunRow.status and RunRow.log_ref of each attempt
    store,      \* LocalLogStore: which attempt wrote the file at a path
    faults

childVars == <<child, rest, made, file>>
finishVars == <<todo, refs, rows, store>>
vars == <<wpc, attempt, childVars, timedOut, outcome, finishVars, faults>>

NoFile == 0
HalfWritten == -1
PathOfJob(a, s) == <<1, s>>         \* mutant: one directory per job
Path(a, s) == <<a, s>>              \* runs/{run_id}/{stream}.txt

ExecTypeOK ==
    /\ wpc \in {"idle", "allow", "wait", "kill", "grace", "read", "finish"}
    /\ attempt \in 0..MaxAttempts
    /\ child \in {"none", "running", "writing", "dumping", "exited", "killed"}
    /\ rest \subseteq Descendants
    /\ made \in {"none", "ok", "bad"}
    /\ file \in {"absent", "partial", "ok", "bad"}
    /\ timedOut \in BOOLEAN
    /\ outcome \in {"none", "ok", "bad"}
    /\ todo \in Seq(Streams) /\ refs \subseteq Streams
    /\ rows \in [Attempts -> [status : {"NONE", "RUNNING", "COMPLETED", "FAILED"},
                              refs : SUBSET Streams]]
    /\ store \in [Attempts \X Streams -> {NoFile, HalfWritten} \cup Attempts]
    /\ faults \in 0..MaxFaults

ExecInit ==
    /\ wpc = "idle" /\ attempt = 0
    /\ child = "none" /\ rest = {} /\ made = "none" /\ file = "absent"
    /\ timedOut = FALSE /\ outcome = "none"
    /\ todo = <<>> /\ refs = {}
    /\ rows = [a \in Attempts |-> [status |-> "NONE", refs |-> {}]]
    /\ store = [p \in Attempts \X Streams |-> NoFile]
    /\ faults = 0

-----------------------------------------------------------------------------
(* The child: child.main *)

Alive == child \in {"running", "writing", "dumping"}

(* execute_job; a job that never ends is one for which this step never comes.*)
ChildExecutes ==
    /\ child = "running"
    /\ child' = "writing"
    /\ made' \in {"ok", "bad"}
    /\ UNCHANGED <<wpc, attempt, rest, file, timedOut, outcome, finishVars, faults>>

ChildOpensFile ==
    /\ child = "writing"
    /\ child' = "dumping"
    /\ file' = "partial"
    /\ UNCHANGED <<wpc, attempt, rest, made, timedOut, outcome, finishVars, faults>>

ChildWritesResult ==
    /\ child = "dumping"
    /\ child' = "exited"
    /\ file' = made
    /\ UNCHANGED <<wpc, attempt, rest, made, timedOut, outcome, finishVars, faults>>

(* A limit of _apply_limits, a segmentation fault, the kernel out of memory. *)
ChildDies ==
    /\ Alive
    /\ child' = "killed"
    /\ UNCHANGED <<wpc, attempt, rest, made, file, timedOut, outcome, finishVars, faults>>

(* The job, or a process that can hand everything on, starts another one.    *)
DescendantStarts ==
    /\ child = "running" \/ "chatty" \in rest
    /\ \E d \in Descendants \ rest : rest' = rest \cup {d}
    /\ UNCHANGED <<wpc, attempt, child, made, file, timedOut, outcome, finishVars, faults>>

DescendantEnds ==
    /\ \E d \in rest : rest' = rest \ {d}
    /\ UNCHANGED <<wpc, attempt, child, made, file, timedOut, outcome, finishVars, faults>>

ChildStep ==
    \/ ChildExecutes \/ ChildOpensFile \/ ChildWritesResult \/ ChildDies
    \/ DescendantStarts \/ DescendantEnds

-----------------------------------------------------------------------------
(* The worker: start_run, SubprocessRunner.run, finish_run *)

(* An attempt follows on whatever became of the last, even on a success that *)
(* the worker has read too early to know.  What is left of the last child's  *)
(* descendants has a group, pipes and a result file of its own; no later     *)
(* step touches it.                                                          *)
StartRun ==
    /\ wpc = "idle"
    /\ attempt < MaxAttempts
    /\ wpc' = "allow"
    /\ attempt' = attempt + 1
    /\ rows' = [rows EXCEPT ![attempt'] = [status |-> "RUNNING", refs |-> {}]]
    /\ child' = "none" /\ rest' = {} /\ made' = "none" /\ file' = "absent"
    /\ timedOut' = FALSE /\ outcome' = "none"
    /\ UNCHANGED <<todo, refs, store, faults>>

(* persist_run_output writes the long outputs in this order.                 *)
IfLong(s, long) == IF s \in long THEN <<s>> ELSE <<>>
Pending(long) == IfLong("stdout", long) \o IfLong("stderr", long) \o IfLong("error", long)

Finishes(success) ==
    /\ wpc' = "finish"
    /\ outcome' = success
    /\ \E long \in SUBSET Streams : todo' = Pending(long)
    /\ refs' = {}
    /\ UNCHANGED <<rows, store>>

Disallow ==
    /\ wpc = "allow"
    /\ Finishes("bad")
    /\ UNCHANGED <<attempt, childVars, timedOut, faults>>

Spawn ==
    /\ wpc = "allow"
    /\ wpc' = "wait"
    /\ file' = "partial"
    /\ child' = "running"
    /\ UNCHANGED <<attempt, rest, made, timedOut, outcome, finishVars, faults>>

(* communicate returns at the end of file of both pipes, then reaps.         *)
PipesClosed == ~Alive /\ rest \cap HoldingPipes = {}

Communicated ==
    /\ wpc = "wait"
    /\ PipesClosed
    /\ wpc' = "read"
    /\ UNCHANGED <<attempt, childVars, timedOut, outcome, finishVars, faults>>

TimesOut ==
    /\ wpc = "wait"
    /\ wpc' = "kill"
    /\ timedOut' = TRUE
    /\ UNCHANGED <<attempt, childVars, outcome, finishVars, faults>>

KillChildOnly ==    \* mutant: proc.kill() on every platform
    /\ wpc = "kill"
    /\ wpc' = "grace"
    /\ child' = IF Alive THEN "killed" ELSE child
    /\ UNCHANGED <<attempt, rest, made, file, timedOut, outcome, finishVars, faults>>

(* killpg: the child and what is in its process group, nothing else.         *)
Kill ==
    /\ wpc = "kill"
    /\ wpc' = "grace"
    /\ child' = IF Alive THEN "killed" ELSE child
    /\ rest' = rest \ InGroup
    /\ UNCHANGED <<attempt, made, file, timedOut, outcome, finishVars, faults>>

GraceUntilClosed == \* mutant: the second communicate has no timeout
    /\ wpc = "grace"
    /\ PipesClosed
    /\ file' = "absent"
    /\ Finishes("bad")
    /\ UNCHANGED <<attempt, child, rest, made, timedOut, faults>>

GraceKeepsFile ==   \* mutant: no _cleanup after a timeout
    /\ wpc = "grace"
    /\ Finishes("bad")
    /\ UNCHANGED <<attempt, childVars, timedOut, faults>>

(* The second communicate returns, or JOB_TIMEOUT_GRACE_SECONDS are over.    *)
GraceEnds ==
    /\ wpc = "grace"
    /\ file' = "absent"
    /\ Finishes("bad")
    /\ UNCHANGED <<attempt, child, rest, made, timedOut, faults>>

ReadExitCode ==     \* mutant: a child that exits with 0 has succeeded
    /\ wpc = "read"
    /\ Finishes(IF child = "exited" THEN "ok" ELSE "bad")
    /\ file' = "absent"
    /\ UNCHANGED <<attempt, child, rest, made, timedOut, faults>>

ReadAndJudge ==     \* mutant: output on stderr counts as a failure
    /\ wpc = "read"
    /\ \/ Finishes(IF file = "ok" THEN "ok" ELSE "bad")
       \/ Finishes("bad")
    /\ file' = "absent"
    /\ UNCHANGED <<attempt, child, rest, made, timedOut, faults>>

(* A file that is not whole is a failure, whatever the exit code.            *)
ReadResult ==
    /\ wpc = "read"
    /\ Finishes(IF file = "ok" THEN "ok" ELSE "bad")
    /\ file' = "absent"
    /\ UNCHANGED <<attempt, child, rest, made, timedOut, faults>>

SpillOutput ==
    /\ wpc = "finish"
    /\ todo # <<>>
    /\ todo' = Tail(todo)
    /\ refs' = refs \cup {Head(todo)}
    /\ store' = [store EXCEPT ![Path(attempt, Head(todo))] = attempt]
    /\ UNCHANGED <<wpc, attempt, childVars, timedOut, outcome, rows, faults>>

CommitRun ==
    /\ wpc = "finish"
    /\ todo = <<>>
    /\ wpc' = "idle"
    /\ rows' = [rows EXCEPT ![attempt] =
                  [status |-> IF outcome = "ok" THEN "COMPLETED" ELSE "FAILED",
                   refs |-> refs]]
    /\ UNCHANGED <<attempt, childVars, timedOut, outcome, todo, refs, store, faults>>

WorkerStep ==
    \/ Disallow \/ Spawn \/ Communicated \/ TimesOut \/ Kill \/ GraceEnds \/ ReadResult
    \/ SpillOutput \/ CommitRun

-----------------------------------------------------------------------------
(* What goes wrong: the run row stays RUNNING, another attempt follows *)

Abandon ==
    /\ wpc # "idle"
    /\ faults < MaxFaults /\ faults' = faults + 1
    /\ wpc' = "idle"
    /\ todo' = <<>> /\ refs' = {}
    /\ UNCHANGED <<attempt, made, timedOut, outcome, rows>>

(* Popen raises, after mkstemp.                                              *)
SpawnFails ==
    /\ wpc = "allow"
    /\ Abandon
    /\ file' = "partial"
    /\ UNCHANGED <<child, rest, store>>

(* A write to the log store or the transaction raises; the file may be there *)
(* in part.                                                                  *)
FinishFails ==
    /\ wpc = "finish"
    /\ Abandon
    /\ \/ UNCHANGED store
       \/ todo # <<>> /\ store' = [store EXCEPT ![Path(attempt, Head(todo))] = HalfWritten]
    /\ UNCHANGED childVars

(* The worker is the first process of its container: all of them end.        *)
ContainerDies ==
    /\ Abandon
    /\ child' = IF Alive THEN "killed" ELSE child
    /\ rest' = {}
    /\ UNCHANGED <<file, store>>

ExecNext ==
    \/ StartRun \/ WorkerStep \/ ChildStep
    \/ SpawnFails \/ FinishFails \/ ContainerDies

ExecSpec == ExecInit /\ [][ExecNext]_vars

(* The worker's code goes on and its timeouts end; nothing is assumed of the *)
(* job: it may run for ever and so may what it started.                      *)
FairExecSpec == ExecSpec /\ WF_vars(WorkerStep)

-----------------------------------------------------------------------------
(* Properties *)

Ended(a) == rows[a].status \in {"COMPLETED", "FAILED"}

(* A run is COMPLETED only if the executor returned success and the child    *)
(* wrote all of it (subprocess_runner.py:100-115); its exit code, a timeout  *)
(* that comes late or half a file do not make it a success.                  *)
SuccessIsReal ==
    \A a \in Attempts :
        rows[a].status = "COMPLETED" /\ a = attempt => made = "ok" /\ child = "exited"

(* The other direction: a run is FAILED only if the executor did not return  *)
(* success, the child died before its result was whole, or the worker had    *)
(* given up waiting, be it for a process that still holds the pipes of a     *)
(* child that has long written success (subprocess_runner.py:78-101).        *)
FailureHasCause ==
    \A a \in Attempts :
        rows[a].status = "FAILED" /\ a = attempt
            => made # "ok" \/ child # "exited" \/ timedOut

(* A hard timeout (subprocess_runner.py:27): a timed-out run that returns    *)
(* has ended the child and all that the job had started in its process group *)
(* by then, and nothing comes after; what has left the group may go on.      *)
TimeoutIsHard ==
    timedOut /\ (wpc = "finish" \/ (wpc = "idle" /\ Ended(attempt)))
        => ~Alive /\ rest \cap InGroup = {}

(* A run that returns leaves no result file behind, and no child is left     *)
(* that would create one again (subprocess_runner.py:86, 97).                *)
NoFileLeft ==
    wpc = "finish" \/ (attempt > 0 /\ Ended(attempt)) => file = "absent" /\ ~Alive

(* What get_run_logs?full=true reads for a committed log_ref is there, whole *)
(* and the output of that very run, also after later attempts of the job     *)
(* (run_logs.py:30-40, job_manager.py:456-482).                              *)
LogsResolve ==
    \A a \in Attempts : \A s \in rows[a].refs : store[Path(a, s)] = a

History == INSTANCE RunHistory WITH
    Jobs <- {"job"},
    history <- [j \in {"job"} |-> [a \in 1..attempt |-> rows[a].status]]

(* The attempts carried out here make the table that Orchestrator assumes:   *)
(* StartRun is its start_run, CommitRun the end of its RunSucceeds and       *)
(* RunFails, and no crash, timeout or late child shows in between.           *)
AttemptsImplementHistory == History!Spec

(* The worker gets its result back whatever the job and its descendants do   *)
(* (subprocess_runner.py:78-93).                                             *)
RunReturns == wpc = "wait" ~> wpc \in {"finish", "idle"}
=============================================================================
