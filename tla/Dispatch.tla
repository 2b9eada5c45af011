------------------------------ MODULE Dispatch ------------------------------
(* Which job the loop of Scheduler.run takes next, round after round, while  *)
(* jobs are submitted, cancelled, retried and come nearer to their deadlines:*)
(* select_by_edf of orchestrator/scheduler.py and, in ai mode, the window    *)
(* that rl_engine/environment.py shows to the agent of rl_engine/agent.py.   *)
(* (Scheduler models what a round does to the tables and to the stream.)     *)
EXTENDS Integers, Sequences, SequencesExt

CONSTANTS
    Jobs,       \* bound: jobs at a time; the ids of past ones are used again
    Window,     \* MAX_JOBS_INPUT
    Priorities, \* bound: the priorities that jobs have, by mode
    Horizon,    \* bound: how far ahead a deadline may be
    MaxLate,    \* bound: how late a runnable job gets before it is taken
    MaxEvents   \* bound: decisions that fail and jobs that are retried

ASSUME DispatchAssumption ==
    /\ Window \in Nat \ {0} /\ Horizon \in Nat \ {0}
    /\ MaxLate \in Nat /\ MaxEvents \in Nat
    /\ Priorities \in [{"heuristic", "ai"} -> SUBSET (Nat \ {0})]

VARIABLES
    pending,    \* PENDING jobs in the order of created_at
    ready,      \* those whose dependencies are met
    due,        \* ticks to the deadline of each, negative when it has passed
    prio,
    listed,     \* runnable_jobs of this round, empty between rounds
    mode,       \* SCHEDULER_MODE, the same as long as the process runs
    events

jobVars == <<pending, ready, due, prio>>
dispatchVars == <<jobVars, listed, mode, events>>

NoDeadline == Horizon + 1      \* float("inf")

DispatchInit ==
    /\ pending = <<>> /\ ready = {}
    /\ due = [j \in Jobs |-> NoDeadline] /\ prio = [j \in Jobs |-> 0]
    /\ listed = <<>>
    /\ mode \in {"heuristic", "ai"}
    /\ events = 0

-----------------------------------------------------------------------------
(* What happens to the jobs *)

(* create_job, create_dag: clients give a deadline that is still to come.    *)
Submit(j) ==
    /\ j \notin ToSet(pending) \cup ToSet(listed)
    /\ pending' = Append(pending, j)
    /\ \/ ready' = ready \cup {j}
       \/ UNCHANGED ready           \* waits for its dependencies
    /\ \E d \in 1..NoDeadline, p \in Priorities[mode] :
           due' = [due EXCEPT ![j] = d] /\ prio' = [prio EXCEPT ![j] = p]
    /\ UNCHANGED <<listed, mode, events>>

DependenciesMet(j) ==
    /\ j \in ToSet(pending) \ ready
    /\ ready' = ready \cup {j}
    /\ UNCHANGED <<pending, due, prio, listed, mode, events>>

(* The job is PENDING no more, and forgotten unless this round has listed it.*)
Gone(j) ==
    /\ pending' = SelectSeq(pending, LAMBDA i : i # j)
    /\ ready' = ready \ {j}

Forget(jobs) ==
    /\ due' = [i \in Jobs |-> IF i \in jobs THEN NoDeadline ELSE due[i]]
    /\ prio' = [i \in Jobs |-> IF i \in jobs THEN 0 ELSE prio[i]]

Cancel(j) ==
    /\ j \in ToSet(pending)
    /\ Gone(j)
    /\ Forget({j} \ ToSet(listed))
    /\ UNCHANGED <<listed, mode, events>>

(* retry_job: a job that has ended is PENDING again, at its old place in the *)
(* listing and with its old deadline.  Its parents are complete.             *)
ComesBack(j) ==
    /\ j \notin ToSet(pending) \cup ToSet(listed)
    /\ events < MaxEvents /\ events' = events + 1
    /\ \E n \in 1..(Len(pending) + 1) : pending' = InsertAt(pending, n, j)
    /\ ready' = ready \cup {j}
    /\ \E d \in -MaxLate..NoDeadline, p \in Priorities[mode] :
           due' = [due EXCEPT ![j] = d] /\ prio' = [prio EXCEPT ![j] = p]
    /\ UNCHANGED <<listed, mode>>

(* A job that waits for dependencies and is later than MaxLate counts as     *)
(* that late.                                                                *)
Tick ==
    /\ \A j \in ready \cup ToSet(listed) : due[j] > -MaxLate
    /\ due' = [j \in Jobs |-> IF due[j] \in {NoDeadline, -MaxLate} THEN due[j] ELSE due[j] - 1]
    /\ due' # due
    /\ UNCHANGED <<pending, ready, prio, listed, mode, events>>

-----------------------------------------------------------------------------
(* The decision *)

ByPriority(i, j) ==     \* mutant: the keys of sort_key are swapped
    \/ prio[i] > prio[j]
    \/ prio[i] = prio[j] /\ due[i] < due[j]

(* The order of sort_key: (deadline, -priority).                             *)
Less(i, j) ==
    \/ due[i] < due[j]
    \/ due[i] = due[j] /\ prio[i] > prio[j]

(* min(range(len(jobs)), key = sort_key): the first index of the least key.  *)
SelectByEdf(jobs) ==
    LET best[n \in 1..Len(jobs)] ==
            IF n = 1 THEN 1
            ELSE IF Less(jobs[n], jobs[best[n - 1]]) THEN n ELSE best[n - 1]
    IN  jobs[best[Len(jobs)]]

NewestFirst(jobs) ==    \* mutant: the window is the end of the list
    {jobs[n] : n \in {m \in 1..Len(jobs) : m > Len(jobs) - Window}}

(* encode_state and valid_actions_count: the first jobs of the list.         *)
Candidates(jobs) ==
    {jobs[n] : n \in {m \in 1..Len(jobs) : m <= Window}}

(* list_jobs and are_dependencies_met                                        *)
ListRunnable ==
    /\ listed = <<>> /\ ready # {}
    /\ listed' = SelectSeq(pending, LAMBDA j : j \in ready)
    /\ UNCHANGED <<jobVars, mode, events>>

(* update_job_status and enqueue_job, even if it was cancelled meanwhile.    *)
Take(j) ==
    /\ Gone(j)
    /\ Forget(Jobs \ (ToSet(pending) \ {j}))
    /\ listed' = <<>>

Decide ==
    /\ listed # <<>>
    /\ \/ mode = "heuristic" /\ Take(SelectByEdf(listed))
       \/ mode = "ai" /\ \E j \in Candidates(listed) : Take(j)
    /\ UNCHANGED <<mode, events>>

(* encode_state or the agent raises: EDF decides instead.                    *)
DecisionFails ==
    /\ listed # <<>> /\ mode = "ai"
    /\ events < MaxEvents /\ events' = events + 1
    /\ Take(SelectByEdf(listed))
    /\ UNCHANGED mode

(* except Exception: the loop starts over.                                   *)
RoundFails ==
    /\ listed # <<>>
    /\ events < MaxEvents /\ events' = events + 1
    /\ listed' = <<>>
    /\ Forget(Jobs \ ToSet(pending))
    /\ UNCHANGED <<pending, ready, mode>>

Round == ListRunnable \/ Decide

DispatchNext ==
    \/ \E j \in Jobs : Submit(j) \/ DependenciesMet(j) \/ Cancel(j) \/ ComesBack(j)
    \/ Tick
    \/ Round \/ DecisionFails \/ RoundFails

DispatchSpec == DispatchInit /\ [][DispatchNext]_dispatchVars

(* The loop goes on, and so does time.                                       *)
DispatchFairness == WF_dispatchVars(Round) /\ WF_dispatchVars(Tick)

-----------------------------------------------------------------------------
(* Properties *)

(* No stream of new jobs, however urgent or important, keeps a runnable job  *)
(* that has a deadline waiting for ever: when the deadline has passed, every *)
(* new job comes after it.  (A job without one may starve.)                  *)
DeadlineIsServed ==
    \A j \in Jobs :
        mode = "heuristic" /\ j \in ready /\ due[j] # NoDeadline ~> j \notin ready

(* In ai mode every runnable job, with a deadline or without, is one day     *)
(* among those shown to the agent, however many come after it: the window    *)
(* holds the oldest jobs, and a round takes one of them                      *)
(* (scheduler.py:47-58, environment.py:41).                                  *)
WindowReached ==
    \A j \in Jobs :
        mode = "ai" /\ j \in ready ~> j \notin ready \/ j \in Candidates(listed)
=============================================================================
