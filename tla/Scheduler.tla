------------------------------ MODULE Scheduler -----------------------------
(* Scheduler.run: one asyncio task, whose loop lists the jobs, drops those   *)
(* with an unfinished parent, picks one, marks it RUNNING and enqueues it.   *)
EXTENDS JobStore, JobStream

VARIABLES
    spc,        \* the next call of the loop
    runnable,   \* PENDING jobs of the listing not (yet) found to be blocked
    unread,     \* pairs <<job, parent>> are_dependencies_met has yet to read
    picked,     \* selected_job, as a set of at most one
    found       \* its row as update_job_status read it

schedVars == <<spc, runnable, unread, picked, found>>

NothingFound == [status |-> "ABSENT", retries |-> 0]

SchedTypeOK ==
    /\ spc \in {"list", "check", "commit", "enqueue"}
    /\ runnable \subseteq Jobs
    /\ unread \subseteq Jobs \X Jobs
    /\ picked \subseteq Jobs
    /\ found \in RowType

Resting ==
    /\ spc' = "list"
    /\ runnable' = {}
    /\ unread' = {}
    /\ picked' = {}
    /\ found' = NothingFound

SchedInit ==
    /\ spc = "list"
    /\ runnable = {}
    /\ unread = {}
    /\ picked = {}
    /\ found = NothingFound

ListUnchecked ==        \* mutant: are_dependencies_met is not called
    /\ spc = "list"
    /\ LET jobs == {j \in Listed : status[j] = "PENDING"}
       IN  /\ jobs # {}
           /\ runnable' = jobs
    /\ unread' = {}
    /\ spc' = "check"
    /\ UNCHANGED <<picked, found, storeVars, streamVars>>

(* list_jobs(limit=10_000), then the PENDING ones among the rows returned.   *)
ListJobs ==
    /\ spc = "list"
    /\ LET jobs == {j \in Listed : status[j] = "PENDING"}
       IN  /\ jobs # {}
           /\ runnable' = jobs
           /\ unread' = {e \in jobs \X Jobs : e[2] \in Parents[e[1]]}
    /\ spc' = "check"
    /\ UNCHANGED <<picked, found, storeVars, streamVars>>

ParentEnded(j, p) ==    \* mutant: a parent that has ended will do
    /\ spc = "check"
    /\ <<j, p>> \in unread
    /\ IF status[p] \in Terminal
       THEN /\ unread' = unread \ {<<j, p>>}
            /\ UNCHANGED runnable
       ELSE /\ unread' = {e \in unread : e[1] # j}
            /\ runnable' = runnable \ {j}
    /\ UNCHANGED <<spc, picked, found, storeVars, streamVars>>

(* are_dependencies_met reads each parent in a session of its own, and gives *)
(* up on a job at the first parent that is not COMPLETED.                    *)
CheckParent(j, p) ==
    /\ spc = "check"
    /\ <<j, p>> \in unread
    /\ IF status[p] = "COMPLETED"
       THEN /\ unread' = unread \ {<<j, p>>}
            /\ UNCHANGED runnable
       ELSE /\ unread' = {e \in unread : e[1] # j}
            /\ runnable' = runnable \ {j}
    /\ UNCHANGED <<spc, picked, found, storeVars, streamVars>>

NoSecondLook == FALSE   \* mutant: the loop ends when nothing is runnable

NothingRunnable ==
    /\ spc = "check"
    /\ runnable = {}
    /\ Resting
    /\ UNCHANGED <<storeVars, streamVars>>

(* The agent or select_by_edf may pick any runnable job; update_job_status   *)
(* reads its row.                                                            *)
PickJob(j) ==
    /\ spc = "check"
    /\ unread = {}
    /\ j \in runnable
    /\ picked' = {j}
    /\ found' = Row(j)
    /\ runnable' = {}
    /\ spc' = "commit"
    /\ UNCHANGED <<unread, storeVars, streamVars>>

MarkQueued(j) ==
    /\ spc = "commit"
    /\ j \in picked
    /\ CommitStatus(j, "RUNNING", found)
    /\ found' = NothingFound
    /\ spc' = "enqueue"
    /\ UNCHANGED <<runnable, unread, picked, streamVars>>

EnqueuePicked(j) ==
    /\ spc = "enqueue"
    /\ j \in picked
    /\ Enqueue(j)
    /\ Resting
    /\ UNCHANGED storeVars

(* An exception is caught by the loop, which starts over; a crash restarts   *)
(* it with the API process.                                                  *)
SchedulerFails ==
    /\ spc # "list"
    /\ Resting
    /\ UNCHANGED <<storeVars, streamVars>>

SchedulerStep ==
    \/ ListJobs
    \/ \E j, p \in Jobs : CheckParent(j, p)
    \/ NothingRunnable
    \/ \E j \in Jobs : PickJob(j) \/ MarkQueued(j) \/ EnqueuePicked(j)
=============================================================================
