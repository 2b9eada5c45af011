----------------------------- MODULE Simulation -----------------------------
(* The offline simulations on one machine: the training episode of           *)
(* train_model.py, the three strategies of benchmark.py and the reward of    *)
(* rl_engine/environment.py, for one generated batch of jobs.  Time counts   *)
(* from the start of the simulation, rewards count halves.                   *)
EXTENDS Integers, Sequences, SequencesExt, FiniteSetsExt

CONSTANTS
    Batches,        \* bound: batches that are generated
    ActionSize

JobType == [dur : Nat \ {0}, due : Nat, prio : 1..10]

ASSUME SimulationAssumption ==
    /\ \A b \in Batches : b \in Seq(JobType) /\ b # <<>>
    /\ ActionSize \in Nat \ {0}

VARIABLES
    batch,          \* generate_training_jobs, generate_test_jobs
    firstOnly,      \* the agent only ever answers 0, which is the fallback too
    waiting,        \* pending_jobs, as indices of the batch; sorted when it is used
    now,            \* current_time
    completed,      \* in the order of completion
    completedAt,
    reward          \* episode_reward

simulationVars == <<batch, firstOnly, waiting, now, completed, completedAt, reward>>

All == DOMAIN batch
NotYet == 0

SimulationTypeOK ==
    /\ batch \in Batches /\ firstOnly \in BOOLEAN
    /\ waiting \in SUBSET All
    /\ now \in Nat
    /\ completed \in Seq(All)
    /\ completedAt \in [All -> Nat]
    /\ reward \in Int

SimulationInit ==
    /\ batch \in Batches /\ firstOnly \in BOOLEAN
    /\ waiting = All
    /\ now = 0
    /\ completed = <<>>
    /\ completedAt = [i \in All |-> NotYet]
    /\ reward = 0

-----------------------------------------------------------------------------
(* One decision *)

(* list.sort and sorted: the n-th job has n - 1 before it.  They are stable,  *)
(* so that equals stay in the order of generation.                           *)
Sorted(jobs, before(_, _)) ==
    [n \in 1..Cardinality(jobs) |->
        CHOOSE i \in jobs : Cardinality({j \in jobs : before(j, i)}) = n - 1]

BySlack(jobs) ==        \* mutant: sorted by the time at which a job must start
    Sorted(jobs, LAMBDA i, j :
        LET a == batch[i].due - batch[i].dur  b == batch[j].due - batch[j].dur
        IN  a < b \/ (a = b /\ i < j))

DueBefore(i, j) ==
    batch[i].due < batch[j].due \/ (batch[i].due = batch[j].due /\ i < j)

(* pending_jobs.sort                                                         *)
SortedByDeadline(jobs) == Sorted(jobs, DueBefore)

WiderWindow(jobs) ==    \* mutant: one job too many
    SubSeq(jobs, 1, IF Len(jobs) <= ActionSize THEN Len(jobs) ELSE ActionSize + 1)

WindowOf(jobs) == SubSeq(jobs, 1, IF Len(jobs) < ActionSize THEN Len(jobs) ELSE ActionSize)

BeforeOnly(i, at) ==    \* mutant: a job that ends on its deadline is late
    2 + batch[i].prio + (IF at < batch[i].due THEN 20 ELSE -20)

(* calculate_reward of a COMPLETED job with a deadline.                      *)
CalculateReward(i, at) ==
    2 + batch[i].prio + (IF at <= batch[i].due THEN 20 ELSE -20)

(* select_action: any job of the window, as the mask hides the others.       *)
Selected(window) == IF firstOnly THEN {window[1]} ELSE ToSet(window)

(* A round of the episode: sort, show the window, run the chosen job.        *)
RunJob ==
    /\ waiting # {}
    /\ \E i \in Selected(WindowOf(SortedByDeadline(waiting))) :
           /\ now' = now + batch[i].dur
           /\ completedAt' = [completedAt EXCEPT ![i] = now']
           /\ completed' = Append(completed, i)
           /\ reward' = reward + CalculateReward(i, now')
           /\ waiting' = waiting \ {i}
    /\ UNCHANGED <<batch, firstOnly>>

SimulationSpec == SimulationInit /\ [][RunJob]_simulationVars

-----------------------------------------------------------------------------
(* The other strategies and the metrics of benchmark.py *)

(* completed_at of every job when they run in this order.                    *)
FinishTimes(order) ==
    LET ends[n \in 0..Len(order)] == IF n = 0 THEN 0 ELSE ends[n - 1] + batch[order[n]].dur
    IN  [i \in All |-> ends[CHOOSE n \in DOMAIN order : order[n] = i]]

HigherFirst(i, j) ==
    \/ batch[i].prio > batch[j].prio
    \/ batch[i].prio = batch[j].prio /\ DueBefore(i, j)

PriorityOrder == Sorted(All, HigherFirst)

(* evaluate_metrics: missed_deadlines.                                       *)
Missed(at) == {i \in All : at[i] > batch[i].due}

-----------------------------------------------------------------------------
(* Properties *)

Orders == {o \in [All -> All] : IsInjective(o)}
Lateness(at) == Max({at[i] - batch[i].due : i \in All})

(* What training maximises is what the benchmark counts: the rewards of an   *)
(* episode add up to an amount that the batch determines, less 20 (40 halves)*)
(* for every deadline that evaluate_metrics calls missed, whatever the order *)
(* (environment.py:54-65, benchmark.py:42-62).                               *)
RewardCountsMisses ==
    waiting = {} =>
        reward = MapThenSumSet(LAMBDA i : 22 + batch[i].prio, All)
                 - 40 * Cardinality(Missed(completedAt))

(* However badly the agent chooses, a job runs no earlier than the window    *)
(* lets it: at most ActionSize - 1 jobs with an earlier deadline run after it    *)
(* (benchmark.py:119-127).                                                   *)
OvertakesFew ==
    \A n \in DOMAIN completed :
        Cardinality({i \in All \ {completed[m] : m \in 1..n} :
                        batch[i].due < batch[completed[n]].due}) < ActionSize

(* Each strategy is the best at something.  An agent that only answers 0,    *)
(* the index that invalid answers are replaced by, has the smallest greatest *)
(* lateness of all orders, FIFO and the priority order included, so that it  *)
(* misses no deadline if all can be met; the priority strategy has the       *)
(* smallest among the orders that run higher priorities first                *)
(* (train_model.py:46-59, benchmark.py:79-94, 119-131).                      *)
StrategiesAreOptimal ==
    /\ waiting = {} /\ firstOnly =>
           \A o \in Orders : Lateness(completedAt) <= Lateness(FinishTimes(o))
    /\ now = 0 /\ firstOnly =>
           \A o \in Orders :
               (\A m, n \in All : m < n => batch[o[m]].prio >= batch[o[n]].prio)
                   => Lateness(FinishTimes(PriorityOrder)) <= Lateness(FinishTimes(o))
=============================================================================
