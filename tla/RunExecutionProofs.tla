------------------------- MODULE RunExecutionProofs -------------------------
(* What the attempts of a job leave behind, for any number of attempts and   *)
(* of faults, and any job.                                                   *)
EXTENDS RunExecution, TLAPS

(* Where the worker is says what is left of the child, its file and its      *)
(* descendants; the file says how the child ended.                           *)
PointsKept ==
    /\ wpc # "idle" => attempt >= 1
    /\ wpc = "allow" => child = "none" /\ rest = {} /\ made = "none" /\ file = "absent"
    /\ wpc \in {"idle", "read", "grace", "finish"} => ~Alive
    /\ wpc = "grace" => rest \cap InGroup = {}
    /\ wpc = "finish" => file = "absent"
    /\ timedOut => attempt >= 1 /\ wpc \in {"kill", "grace", "finish", "idle"}
    /\ timedOut /\ wpc = "finish" => rest \cap InGroup = {}

ResultsKept ==
    /\ child \in {"writing", "dumping"} => made # "none"
    /\ file = "ok" => made = "ok" /\ child = "exited"
    /\ child = "exited" /\ wpc \in {"wait", "read"} => file = made
    /\ wpc \in {"kill", "grace"} => timedOut
    /\ wpc = "finish" /\ outcome = "ok" => made = "ok" /\ child = "exited"
    /\ wpc = "finish" /\ outcome # "ok" => made # "ok" \/ child # "exited" \/ timedOut

(* A run has no outcome and no log_ref before its commit, and the commit is  *)
(* the last that happens to it.                                              *)
RowsKept ==
    /\ \A a \in Attempts : a > attempt => rows[a] = [status |-> "NONE", refs |-> {}]
    /\ wpc # "idle" => rows[attempt] = [status |-> "RUNNING", refs |-> {}]
    /\ attempt \in Attempts /\ Ended(attempt) => file = "absent" /\ ~Alive
    /\ timedOut /\ attempt \in Attempts /\ Ended(attempt) => rest \cap InGroup = {}
    /\ SuccessIsReal
    /\ FailureHasCause

StoreKept ==
    /\ wpc = "finish" => \A s \in refs : store[Path(attempt, s)] = attempt
    /\ LogsResolve

ExecInv == ExecTypeOK /\ PointsKept /\ ResultsKept /\ RowsKept /\ StoreKept

LEMMA ExecInitInv == ExecInit => ExecInv
<1> SUFFICES ASSUME ExecInit
             PROVE  ExecInv
  OBVIOUS
<1> USE ExecutionBoundsAssumption DEF ExecInit, Alive, Ended, Attempts
<1>1. ExecTypeOK
  <2>1. rows \in [Attempts -> [status : {"NONE", "RUNNING", "COMPLETED", "FAILED"},
                              refs : SUBSET Streams]]
    OBVIOUS
  <2>2. store \in [Attempts \X Streams -> {NoFile, HalfWritten} \cup Attempts]
    OBVIOUS
  <2>3. todo \in Seq(Streams)
    OBVIOUS
  <2>4. attempt \in 0..MaxAttempts /\ faults \in 0..MaxFaults
    OBVIOUS
  <2>5. /\ wpc = "idle" /\ child = "none" /\ rest = {} /\ made = "none" /\ file = "absent"
        /\ timedOut = FALSE /\ outcome = "none" /\ refs = {}
    OBVIOUS
  <2> HIDE DEF ExecInit, Attempts
  <2> QED BY <2>1, <2>2, <2>3, <2>4, <2>5 DEF ExecTypeOK
<1>2. PointsKept /\ ResultsKept
  BY DEF PointsKept, ResultsKept
<1>3. RowsKept /\ StoreKept
  BY DEF RowsKept, StoreKept, LogsResolve, SuccessIsReal, FailureHasCause
<1> QED BY <1>1, <1>2, <1>3 DEF ExecInv

LEMMA PendingIsTyped ==
    ASSUME NEW long \in SUBSET Streams
    PROVE  Pending(long) \in Seq(Streams)
BY DEF Pending, IfLong, Streams

(* What the end of an execution does is the same wherever it comes from.     *)
LEMMA FinishesTyped ==
    ASSUME NEW success \in {"ok", "bad"}, Finishes(success)
    PROVE  /\ wpc' = "finish" /\ outcome' = success
           /\ todo' \in Seq(Streams) /\ refs' = {}
           /\ UNCHANGED <<rows, store>>
BY PendingIsTyped DEF Finishes

LEMMA ExecNextInv ==
    ASSUME ExecInv, [ExecNext]_vars
    PROVE  ExecInv'
<1> USE ExecutionBoundsAssumption
    DEF ExecInv, ExecTypeOK, PointsKept, ResultsKept, RowsKept, StoreKept, Alive, Ended,
        LogsResolve, SuccessIsReal, FailureHasCause, Attempts, Path, childVars, finishVars
<1>0. CASE UNCHANGED vars
  BY <1>0 DEF vars
<1>1. CASE StartRun
  <2>0. /\ attempt' = attempt + 1 /\ attempt' \in Attempts
        /\ rows'[attempt'] = [status |-> "RUNNING", refs |-> {}]
        /\ \A a \in Attempts : a # attempt' => rows'[a] = rows[a]
    BY <1>1 DEF StartRun
  <2>1. ExecTypeOK'
    <3>1. rows' \in [Attempts -> [status : {"NONE", "RUNNING", "COMPLETED", "FAILED"},
                                 refs : SUBSET Streams]]
      BY <1>1, <2>0 DEF StartRun
    <3>2. attempt' \in 0..MaxAttempts
      BY <1>1, <2>0
    <3> QED BY <1>1, <3>1, <3>2 DEF StartRun
  <2>2. PointsKept'
    BY <1>1, <2>0 DEF StartRun
  <2>3. ResultsKept'
    BY <1>1, <2>0 DEF StartRun
  <2>4. RowsKept'
    <3>1. ASSUME NEW a \in Attempts, a > attempt'
          PROVE  rows'[a] = [status |-> "NONE", refs |-> {}]
      <4>1. a > attempt /\ a # attempt'
        BY <3>1, <2>0
      <4> QED BY <4>1, <2>0
    <3>2. ~Ended(attempt)' /\ attempt' = attempt + 1
      BY <2>0
    <3>3. rows'[attempt'].status # "COMPLETED"
      BY <2>0
    <3> QED BY <2>0, <3>1, <3>2, <3>3
  <2>5. StoreKept'
    BY <1>1, <2>0 DEF StartRun
  <2> QED BY <2>1, <2>2, <2>3, <2>4, <2>5
<1>2. CASE Disallow
  BY <1>2, FinishesTyped DEF Disallow
<1>3. CASE Spawn
  BY <1>3 DEF Spawn
<1>4. CASE Communicated
  BY <1>4 DEF Communicated, PipesClosed
<1>5. CASE TimesOut
  BY <1>5 DEF TimesOut
<1>6. CASE Kill
  BY <1>6 DEF Kill
<1>7. CASE GraceEnds
  BY <1>7, FinishesTyped DEF GraceEnds
<1>8. CASE ReadResult
  BY <1>8, FinishesTyped DEF ReadResult
<1>9. CASE SpillOutput
  BY <1>9 DEF SpillOutput
<1>10. CASE CommitRun
  <2>0. /\ attempt \in Attempts
        /\ rows'[attempt].status = IF outcome = "ok" THEN "COMPLETED" ELSE "FAILED"
        /\ rows'[attempt].refs = refs
        /\ \A a \in Attempts : a # attempt => rows'[a] = rows[a]
    BY <1>10 DEF CommitRun
  <2>1. ExecTypeOK'
    BY <1>10, <2>0 DEF CommitRun
  <2>2. PointsKept'
    BY <1>10, <2>0 DEF CommitRun
  <2>3. ResultsKept'
    BY <1>10, <2>0 DEF CommitRun
  <2>4. RowsKept'
    <3>1. ASSUME NEW a \in Attempts, a > attempt'
          PROVE  rows'[a] = [status |-> "NONE", refs |-> {}]
      <4>1. a > attempt /\ a # attempt
        BY <1>10, <3>1, <2>0 DEF CommitRun
      <4> QED BY <4>1, <2>0
    <3>2. Ended(attempt)' => (file = "absent" /\ ~Alive)'
      BY <1>10 DEF CommitRun
    <3>3. timedOut' => (rest \cap InGroup = {})'
      BY <1>10 DEF CommitRun
    <3>4. ASSUME NEW a \in Attempts, rows'[a].status = "COMPLETED", a = attempt
          PROVE  (made = "ok" /\ child = "exited")'
      BY <1>10, <2>0, <3>4 DEF CommitRun
    <3> QED BY <1>10, <3>1, <3>2, <3>3, <3>4 DEF CommitRun
  <2>5. StoreKept'
    BY <1>10, <2>0 DEF CommitRun
  <2> QED BY <2>1, <2>2, <2>3, <2>4, <2>5
<1>11. CASE ChildExecutes
  BY <1>11 DEF ChildExecutes
<1>12. CASE ChildOpensFile
  BY <1>12 DEF ChildOpensFile
<1>13. CASE ChildWritesResult
  <2>1. ExecTypeOK'
    BY <1>13 DEF ChildWritesResult
  <2>2. PointsKept'
    BY <1>13 DEF ChildWritesResult
  <2>3. ResultsKept'
    BY <1>13 DEF ChildWritesResult
  <2>4. RowsKept'
    BY <1>13 DEF ChildWritesResult
  <2>5. StoreKept'
    BY <1>13 DEF ChildWritesResult
  <2> QED BY <2>1, <2>2, <2>3, <2>4, <2>5
<1>14. CASE ChildDies
  BY <1>14 DEF ChildDies
<1>15. CASE DescendantEnds
  BY <1>15 DEF DescendantEnds
<1>19. CASE DescendantStarts
  BY <1>19 DEF DescendantStarts, InGroup, Descendants
<1>16. CASE SpawnFails
  BY <1>16 DEF SpawnFails, Abandon
<1>17. CASE FinishFails
  <2>0. store' \in [Attempts \X Streams -> {NoFile, HalfWritten} \cup Attempts]
    <3>1. CASE UNCHANGED store
      BY <3>1
    <3>2. CASE todo # <<>> /\ store' = [store EXCEPT ![Path(attempt, Head(todo))] = HalfWritten]
      BY <3>2
    <3> QED BY <1>17, <3>1, <3>2 DEF FinishFails
  <2>1. ExecTypeOK'
    BY <1>17, <2>0 DEF FinishFails, Abandon
  <2>2. PointsKept'
    BY <1>17, <2>0 DEF FinishFails, Abandon
  <2>3. ResultsKept'
    BY <1>17, <2>0 DEF FinishFails, Abandon
  <2>4. RowsKept'
    BY <1>17, <2>0 DEF FinishFails, Abandon
  <2>5. StoreKept'
    BY <1>17, <2>0 DEF FinishFails, Abandon
  <2> QED BY <2>1, <2>2, <2>3, <2>4, <2>5
<1>18. CASE ContainerDies
  BY <1>18 DEF ContainerDies, Abandon
<1> QED BY <1>0, <1>1, <1>2, <1>3, <1>4, <1>5, <1>6, <1>7, <1>8, <1>9,
          <1>10, <1>11, <1>12, <1>13, <1>14, <1>15, <1>16, <1>17, <1>18, <1>19
   DEF ExecNext, WorkerStep, ChildStep

LEMMA ExecAlways == ExecSpec => []ExecInv
<1>1. ExecInit => ExecInv
  BY ExecInitInv
<1>2. ExecInv /\ [ExecNext]_vars => ExecInv'
  BY ExecNextInv
<1> QED BY <1>1, <1>2, PTL DEF ExecSpec

-----------------------------------------------------------------------------

(* A run is COMPLETED only for a result that the child has written whole     *)
(* (subprocess_runner.py:100-115).                                           *)
THEOREM SuccessesAreReal == ExecSpec => []SuccessIsReal
<1>1. ExecInv => SuccessIsReal
  BY DEF ExecInv, RowsKept
<1> QED BY <1>1, ExecAlways, PTL

(* A run is FAILED only if the executor failed, the child died, or the       *)
(* worker had given up waiting (subprocess_runner.py:78-115).                *)
THEOREM FailuresHaveCauses == ExecSpec => []FailureHasCause
<1>1. ExecInv => FailureHasCause
  BY DEF ExecInv, RowsKept
<1> QED BY <1>1, ExecAlways, PTL

(* When a run that timed out ends, nothing runs in the process group of its  *)
(* child, whatever the job had started before and goes on starting           *)
(* (subprocess_runner.py:78-93, 117-122).                                    *)
THEOREM TimeoutsAreHard == ExecSpec => []TimeoutIsHard
<1>1. ExecInv => TimeoutIsHard
  <2> SUFFICES ASSUME ExecInv, timedOut,
                      wpc = "finish" \/ (wpc = "idle" /\ Ended(attempt))
               PROVE  ~Alive /\ rest \cap InGroup = {}
    BY DEF TimeoutIsHard
  <2>1. ~Alive
    BY DEF ExecInv, PointsKept
  <2>2. CASE wpc = "finish"
    BY <2>1, <2>2 DEF ExecInv, PointsKept
  <2>3. CASE wpc = "idle" /\ Ended(attempt)
    <3>1. attempt \in Attempts
      BY ExecutionBoundsAssumption DEF ExecInv, ExecTypeOK, PointsKept, Attempts
    <3> QED BY <2>1, <2>3, <3>1 DEF ExecInv, RowsKept
  <2> QED BY <2>2, <2>3
<1> QED BY <1>1, ExecAlways, PTL

(* A run that ends leaves no result file and nobody who would write one      *)
(* (subprocess_runner.py:86, 97).                                            *)
THEOREM NoFilesAreLeft == ExecSpec => []NoFileLeft
<1>1. ExecInv => NoFileLeft
  BY ExecutionBoundsAssumption
     DEF ExecInv, ExecTypeOK, PointsKept, RowsKept, NoFileLeft, Attempts
<1> QED BY <1>1, ExecAlways, PTL

(* The output that a committed run refers to stays that run's output         *)
(* (run_logs.py:30-40, job_manager.py:456-482).                              *)
THEOREM LogsAlwaysResolve == ExecSpec => []LogsResolve
<1>1. ExecInv => LogsResolve
  BY DEF ExecInv, StoreKept
<1> QED BY <1>1, ExecAlways, PTL

-----------------------------------------------------------------------------
(* The attempts as a history *)

Table == [j \in {"job"} |-> [a \in 1..attempt |-> rows[a].status]]

(* A later attempt is appended, and only the commit of finish_run changes a  *)
(* row, that of the attempt in hand, which is still open                     *)
(* (job_manager.py:410-487, worker.py:76-95).                                *)
THEOREM ExecutionImplementsHistory == ExecSpec => AttemptsImplementHistory
<1>1. ExecInit => History!Init
  BY DEF ExecInit, History!Init
<1>2. ASSUME ExecInv, [ExecNext]_vars
      PROVE  [History!Next]_Table
  <2>0. attempt \in 0..MaxAttempts /\ MaxAttempts \in Nat
    BY <1>2, ExecutionBoundsAssumption DEF ExecInv, ExecTypeOK
  <2> DEFINE now == [a \in 1..attempt |-> rows[a].status]
  <2>1. CASE UNCHANGED <<attempt, rows>>
    BY <2>1 DEF Table
  <2>2. CASE StartRun
    <3>1. attempt' = attempt + 1 /\ attempt' \in Attempts
      BY <2>0, <2>2 DEF StartRun, Attempts
    <3>2. rows'[attempt'].status = "RUNNING" /\ \A a \in 1..attempt : rows'[a] = rows[a]
      BY <1>2, <2>0, <2>2, <3>1 DEF StartRun, ExecInv, ExecTypeOK, Attempts
    <3>3. /\ Len(now) = attempt /\ DOMAIN Append(now, "RUNNING") = 1..attempt'
          /\ \A a \in 1..attempt : Append(now, "RUNNING")[a] = rows[a].status
          /\ Append(now, "RUNNING")[attempt'] = "RUNNING"
      <4>1. now \in Seq({rows[a].status : a \in 1..attempt})
        BY <2>0
      <4>2. Len(now) = attempt
        BY <2>0, <4>1
      <4> QED BY <2>0, <3>1, <4>1, <4>2
    <3>4. now' = Append(now, "RUNNING")
      BY <2>0, <3>1, <3>2, <3>3
    <3>5. History!Start("job")
      BY <3>4 DEF History!Start
    <3> QED BY <3>5 DEF History!Next
  <2>3. CASE CommitRun
    <3>1. /\ attempt \in Attempts /\ attempt' = attempt
          /\ rows[attempt].status = "RUNNING"
          /\ \A a \in Attempts \ {attempt} : rows'[a] = rows[a]
      BY <1>2, <2>0, <2>3 DEF CommitRun, ExecInv, ExecTypeOK, PointsKept, RowsKept, Attempts
    <3>2. PICK result \in {"COMPLETED", "FAILED"} : rows'[attempt].status = result
      BY <1>2, <2>3, <3>1 DEF CommitRun, ExecInv, ExecTypeOK
    <3>3. now' = [now EXCEPT ![attempt] = result]
      <4>1. \A a \in 1..attempt : rows'[a].status = IF a = attempt THEN result ELSE now[a]
        BY <2>0, <3>1, <3>2 DEF Attempts
      <4>2. now' = [a \in 1..attempt |-> rows'[a].status]
        BY <3>1
      <4> HIDE DEF now
      <4>3. now = [a \in 1..attempt |-> now[a]]
        BY DEF now
      <4> QED BY <4>1, <4>2, <4>3
    <3>4. attempt \in DOMAIN now /\ now[attempt] = "RUNNING"
      BY <2>0, <3>1 DEF Attempts
    <3>5. Table' = [Table EXCEPT !["job"][attempt] = result]
      BY <3>3 DEF Table
    <3>6. History!Finish("job", attempt, result)
      BY <3>4, <3>5 DEF History!Finish, Table
    <3> QED BY <3>2, <3>4, <3>6 DEF History!Next, Table
  <2> QED
    BY <1>2, <2>1, <2>2, <2>3
       DEF ExecNext, WorkerStep, ChildStep, Disallow, Spawn, Communicated, TimesOut, Kill,
           GraceEnds, ReadResult, SpillOutput, Finishes, ChildExecutes, ChildOpensFile,
           ChildWritesResult, ChildDies, DescendantStarts, DescendantEnds, SpawnFails, FinishFails,
           ContainerDies, Abandon, finishVars, vars
<1> QED
  BY <1>1, <1>2, ExecAlways, PTL DEF ExecSpec, AttemptsImplementHistory, History!Spec, Table

=============================================================================
