------------------------------ MODULE Admission ------------------------------
(* What a request to create jobs goes through before its jobs exist, for one *)
(* tenant: the rate limit (tenancy/rate_limit.py), the lookup of its         *)
(* idempotency key, the quota (tenancy/policy.py) and the transaction of     *)
(* create_job or create_dag.  Requests run in threads of the API, several at *)
(* once; each step is one call to Redis or PostgreSQL.                       *)
EXTENDS Integers, FiniteSets

CONSTANTS
    Clients,        \* threads that serve requests
    Keys, NoKey,    \* idempotency keys
    MaxJobs,        \* bound: job rows
    Sizes,          \* numbers of jobs that a request creates
    Tenants,        \* rows of tenants, one of these: max_jobs and rate_limit
    Window,         \* RATE_LIMIT_WINDOW_SECONDS, in ticks
    MaxTime,        \* bound: ticks
    MaxFaults       \* bound: exceptions and requests cut off

ASSUME AdmissionAssumption ==
    /\ NoKey \notin Keys
    /\ IsFiniteSet(Clients) /\ Clients # {}
    /\ Sizes \subseteq Nat \ {0}
    /\ \E n \in Sizes : \A m \in Sizes : m <= n
    /\ Tenants \subseteq [max_jobs : Nat, rate_limit : Nat]
    /\ MaxJobs \in Nat /\ MaxTime \in Nat /\ Window \in Nat \ {0}
    /\ MaxFaults \in Nat

Ids == 1..MaxJobs
Windows == 0..(MaxTime \div Window)

VARIABLES
    tenant,             \* that of all requests
    cpc, key, ids,      \* of each request: next call, idempotency_key, new ids
    bucket,             \* the window in the name of its counter
    rows, keyOf,        \* committed jobs: status, idempotency_key
    clock,
    count, expiry,      \* Redis: the counters and when they expire
    fresh, stale,       \* history: requests let through during a window
    named,              \* history: jobs that answers to a key have named
    back,               \* history: active jobs that had ended before
    faults

requestVars == <<cpc, key, ids>>
jobVars     == <<rows, keyOf, named, back>>
limitVars   == <<bucket, count, expiry, fresh, stale>>
vars == <<tenant, requestVars, jobVars, limitVars, clock, faults>>

Quota == tenant.max_jobs        \* max_jobs_for
Limit == tenant.rate_limit      \* rate_limit_for; 0 for none

Never == MaxTime + Window + 1

AdmissionTypeOK ==
    /\ tenant \in Tenants
    /\ cpc \in [Clients -> {"idle", "clock", "incr", "expire", "lookup", "quota",
                            "flush", "commit", "conflict", "reply"}]
    /\ key \in [Clients -> Keys \cup {NoKey}]
    /\ ids \in [Clients -> SUBSET Ids]
    /\ bucket \in [Clients -> Windows]
    /\ rows \in [Ids -> {"absent", "active", "ended"}]
    /\ keyOf \in [Ids -> Keys \cup {NoKey}]
    /\ clock \in 0..MaxTime
    /\ count \in [Windows -> 0..(Limit + 1)]
    /\ expiry \in [Windows -> 0..Never]
    /\ fresh \in [Windows -> Nat] /\ stale \in [Windows -> Nat]
    /\ named \in [Keys -> SUBSET Ids]
    /\ back \subseteq Ids
    /\ faults \in 0..MaxFaults

AdmissionInit ==
    /\ tenant \in Tenants
    /\ cpc = [c \in Clients |-> "idle"]
    /\ key = [c \in Clients |-> NoKey]
    /\ ids = [c \in Clients |-> {}]
    /\ bucket = [c \in Clients |-> 0]
    /\ rows = [j \in Ids |-> "absent"]
    /\ keyOf = [j \in Ids |-> NoKey]
    /\ clock = 0
    /\ count = [w \in Windows |-> 0]
    /\ expiry = [w \in Windows |-> Never]
    /\ fresh = [w \in Windows |-> 0] /\ stale = [w \in Windows |-> 0]
    /\ named = [k \in Keys |-> {}]
    /\ back = {} /\ faults = 0

-----------------------------------------------------------------------------

Goto(c, p) == cpc' = [cpc EXCEPT ![c] = p]

Leave(c) ==     \* an answer, or none, and its session is rolled back
    /\ Goto(c, "idle")
    /\ key' = [key EXCEPT ![c] = NoKey]
    /\ ids' = [ids EXCEPT ![c] = {}]
    /\ bucket' = [bucket EXCEPT ![c] = 0]

(* uuid4: ids that no row and no other request has.                          *)
NewIds(n) ==
    LET Unused == {j \in Ids : rows[j] = "absent" /\ \A c \in Clients : j \notin ids[c]}
    IN  {j \in Unused : Cardinality({i \in Unused : i < j}) < n}

Request(c) ==
    /\ cpc[c] = "idle"
    /\ Goto(c, "clock")
    /\ \E n \in Sizes, k \in Keys \cup {NoKey} :
           /\ n > 1 => k = NoKey        \* create_dag has no idempotency keys
           /\ Cardinality(NewIds(n)) = n
           /\ key' = [key EXCEPT ![c] = k]
           /\ ids' = [ids EXCEPT ![c] = NewIds(n)]
    /\ UNCHANGED <<limitVars, jobVars, clock, faults>>

-----------------------------------------------------------------------------
(* RateLimiter.check *)

ThisWindow == clock \div Window

ReadClock(c) ==
    /\ cpc[c] = "clock"
    /\ Goto(c, IF Limit = 0 THEN "lookup" ELSE "incr")
    /\ bucket' = [bucket EXCEPT ![c] = ThisWindow]
    /\ UNCHANGED <<key, ids, jobVars, count, expiry, fresh, stale, clock, faults>>

(* The request is let through; note during which window, and by which bucket.*)
LetThrough(c) ==
    IF bucket[c] = ThisWindow
    THEN /\ fresh' = [fresh EXCEPT ![ThisWindow] = @ + 1]
         /\ UNCHANGED stale
    ELSE /\ stale' = [stale EXCEPT ![ThisWindow] = @ + 1]
         /\ UNCHANGED fresh

CountUp(b) ==   \* one above the limit stands for all counts above it
    count' = [count EXCEPT ![b] = IF @ <= Limit THEN @ + 1 ELSE @]

CompareBefore(c) == \* mutant: compares the count from before its own request
    LET b == bucket[c] IN
    /\ cpc[c] = "incr"
    /\ CountUp(b)
    /\ \/ /\ count[b] <= Limit
          /\ Goto(c, IF count[b] = 0 THEN "expire" ELSE "lookup")
          /\ LetThrough(c)
          /\ UNCHANGED <<key, ids, bucket>>
       \/ /\ count[b] > Limit
          /\ Leave(c)
          /\ UNCHANGED <<fresh, stale>>
    /\ UNCHANGED <<jobVars, expiry, clock, faults>>

(* INCR; the first of a counter goes on to EXPIRE, those over the limit get  *)
(* 429.  (Limit > 0: the first one is always let through.)                   *)
Incr(c) ==
    LET b == bucket[c] IN
    /\ cpc[c] = "incr"
    /\ CountUp(b)
    /\ \/ /\ count'[b] <= Limit
          /\ Goto(c, IF count'[b] = 1 THEN "expire" ELSE "lookup")
          /\ LetThrough(c)
          /\ UNCHANGED <<key, ids, bucket>>
       \/ /\ count'[b] > Limit
          /\ Leave(c)
          /\ UNCHANGED <<fresh, stale>>
    /\ UNCHANGED <<jobVars, expiry, clock, faults>>

SetExpiry(c) ==
    /\ cpc[c] = "expire"
    /\ Goto(c, "lookup")
    /\ expiry' = [expiry EXCEPT ![bucket[c]] = clock + Window]
    /\ UNCHANGED <<key, ids, bucket, jobVars, count, fresh, stale, clock, faults>>

(* redis.RedisError: the check is skipped, the request goes on.              *)
LimitSkipped(c) ==
    /\ cpc[c] \in {"incr", "expire"}
    /\ faults < MaxFaults /\ faults' = faults + 1
    /\ Goto(c, "lookup")
    /\ UNCHANGED <<key, ids, limitVars, jobVars, clock>>

(* A second passes, which matters only to a tenant with a limit; counters    *)
(* whose time has come are gone.                                             *)
Tick ==
    /\ clock < MaxTime /\ Limit > 0
    /\ clock' = clock + 1
    /\ count' = [w \in Windows |-> IF expiry[w] <= clock' THEN 0 ELSE count[w]]
    /\ expiry' = [w \in Windows |-> IF expiry[w] <= clock' THEN Never ELSE expiry[w]]
    /\ UNCHANGED <<requestVars, bucket, jobVars, fresh, stale, faults>>

-----------------------------------------------------------------------------
(* create_job and create_dag *)

Committed(k) == {j \in Ids : rows[j] # "absent" /\ keyOf[j] = k}

Answer(c, jobs) ==      \* 201
    /\ Leave(c)
    /\ named' = IF key[c] = NoKey THEN named
                ELSE [named EXCEPT ![key[c]] = @ \cup jobs]
    /\ UNCHANGED <<rows, keyOf, back, count, expiry, fresh, stale, clock, faults>>

LookupKey(c) ==
    /\ cpc[c] = "lookup"
    /\ \/ /\ key[c] # NoKey /\ Committed(key[c]) # {}
          /\ Answer(c, Committed(key[c]))
       \/ /\ key[c] = NoKey \/ Committed(key[c]) = {}
          /\ Goto(c, "quota")
          /\ UNCHANGED <<key, ids, limitVars, jobVars, clock, faults>>

Active == {j \in Ids : rows[j] = "active"}

CountOnly(c) ==     \* mutant: does not count the jobs of the request
    /\ cpc[c] = "quota"
    /\ IF Cardinality(Active) > Quota
       THEN /\ Leave(c)
            /\ UNCHANGED <<count, expiry, fresh, stale>>
       ELSE /\ Goto(c, "flush")
            /\ UNCHANGED <<key, ids, limitVars>>
    /\ UNCHANGED <<jobVars, clock, faults>>

(* enforce_job_quota reads the number of active jobs and locks nothing.      *)
CheckQuota(c) ==
    /\ cpc[c] = "quota"
    /\ IF Cardinality(Active) + Cardinality(ids[c]) > Quota
       THEN /\ Leave(c)
            /\ UNCHANGED <<count, expiry, fresh, stale>>
       ELSE /\ Goto(c, "flush")
            /\ UNCHANGED <<key, ids, limitVars>>
    /\ UNCHANGED <<jobVars, clock, faults>>

(* uq_jobs_tenant_idempotency_key: INSERT waits for a transaction that has   *)
(* the key and has not ended, and fails when the key is taken.               *)
Flush(c) ==
    /\ cpc[c] = "flush"
    /\ key[c] # NoKey =>
         \A d \in Clients \ {c} : ~(cpc[d] = "commit" /\ key[d] = key[c])
    /\ Goto(c, IF key[c] # NoKey /\ Committed(key[c]) # {} THEN "conflict" ELSE "commit")
    /\ UNCHANGED <<key, ids, limitVars, jobVars, clock, faults>>

Commit(c) ==
    /\ cpc[c] = "commit"
    /\ Goto(c, "reply")
    /\ rows' = [j \in Ids |-> IF j \in ids[c] THEN "active" ELSE rows[j]]
    /\ keyOf' = [j \in Ids |-> IF j \in ids[c] THEN key[c] ELSE keyOf[j]]
    /\ UNCHANGED <<key, ids, limitVars, named, back, clock, faults>>

(* A dependency that is no job: its foreign key fails.  create_dag knows its *)
(* own nodes.                                                                *)
CommitRefused(c) ==
    /\ cpc[c] = "commit"
    /\ Cardinality(ids[c]) = 1
    /\ Goto(c, "conflict")
    /\ UNCHANGED <<key, ids, limitVars, jobVars, clock, faults>>

AnswerOwn(c) ==     \* mutant: answers the job that was rolled back
    /\ cpc[c] = "conflict"
    /\ Answer(c, ids[c])

(* except IntegrityError: the job that has the key, or the error.            *)
ResolveConflict(c) ==
    /\ cpc[c] = "conflict"
    /\ \/ /\ key[c] # NoKey /\ Committed(key[c]) # {}
          /\ Answer(c, Committed(key[c]))
       \/ /\ key[c] = NoKey \/ Committed(key[c]) = {}
          /\ Leave(c)
          /\ UNCHANGED <<jobVars, count, expiry, fresh, stale, clock, faults>>

Reply(c) ==
    /\ cpc[c] = "reply"
    /\ Answer(c, ids[c])

(* An exception, the API dies or the connection breaks; after the commit the *)
(* jobs stay and the client has not heard of them.                           *)
RequestCutOff(c) ==
    /\ cpc[c] \notin {"idle", "clock"}
    /\ faults < MaxFaults /\ faults' = faults + 1
    /\ Leave(c)
    /\ UNCHANGED <<jobVars, count, expiry, fresh, stale, clock>>

-----------------------------------------------------------------------------
(* What happens to the jobs *)

JobEnds ==
    /\ \E j \in Active : /\ rows' = [rows EXCEPT ![j] = "ended"]
                        /\ back' = back \ {j}
    /\ UNCHANGED <<requestVars, keyOf, named, limitVars, clock, faults>>

ComesBack(j) ==
    /\ rows[j] = "ended"
    /\ rows' = [rows EXCEPT ![j] = "active"]
    /\ back' = back \cup {j}
    /\ UNCHANGED <<requestVars, keyOf, named, limitVars, clock, faults>>

(* retry_job makes a FAILED or CANCELLED job PENDING and asks no quota; it   *)
(* may have read RETRYING, and the job has ended in any way since.           *)
JobRetried == \E j \in Ids : ComesBack(j)

(* The scheduler or a worker, which has read the job before it ended, writes *)
(* RUNNING, or RETRYING, over CANCELLED, COMPLETED or FAILED: MarkQueued of  *)
(* Scheduler, MarkRunning and MarkRetrying of Worker (job_manager.py:332).   *)
JobRevived == \E j \in Ids : ComesBack(j)

Serve(c) ==
    \/ ReadClock(c) \/ Incr(c) \/ SetExpiry(c)
    \/ LookupKey(c) \/ CheckQuota(c) \/ Flush(c) \/ Commit(c) \/ ResolveConflict(c) \/ Reply(c)

AdmissionNext ==
    /\ \/ \E c \in Clients :
              Request(c) \/ Serve(c) \/ LimitSkipped(c) \/ CommitRefused(c) \/ RequestCutOff(c)
       \/ JobEnds \/ JobRetried \/ JobRevived \/ Tick
    /\ UNCHANGED tenant

AdmissionSpec == AdmissionInit /\ [][AdmissionNext]_vars

-----------------------------------------------------------------------------
(* Properties *)

(* An idempotency key belongs to one job: at most one row has it, and all    *)
(* requests with the key that got a 201, at once, after a lost answer or     *)
(* after an error, were given that row (job_manager.py:122-130, 180-189).    *)
OneJobPerKey ==
    \A k \in Keys :
        /\ \A i, j \in Committed(k) : i = j
        /\ named[k] \subseteq Committed(k)

(* How far the unlocked count of enforce_job_quota (policy.py:39-53) lets a  *)
(* tenant go beyond max_jobs: by the requests that were served meanwhile.    *)
(* Only jobs that had ended add to that without limit, when retry_job or a   *)
(* late update_job_status (job_manager.py:332) makes them active again.      *)
LargestSize == CHOOSE n \in Sizes : \A m \in Sizes : m <= n
QuotaOvershoot ==
    Cardinality(Active \ back) <= Quota + (Cardinality(Clients) - 1) * LargestSize

(* During one window at most Limit requests get through on its own counter,  *)
(* which lives as long as the window, and beyond that at most one for each   *)
(* thread that read the clock in an earlier one (rate_limit.py:26-54).       *)
RateKept ==
    \A w \in Windows : fresh[w] <= Limit /\ stale[w] <= Cardinality(Clients)

Table == INSTANCE JobTable WITH
    Jobs <- Ids,
    Batches <- {S \in SUBSET Ids : Cardinality(S) \in Sizes}

(* Seen from the table, a request is one step that adds all of its jobs, or  *)
(* none: this is what SubmitJob and SubmitDag of Api make of it.  A request  *)
(* that is cut off, loses a race for its key or is sent again shows nothing  *)
(* else (job_manager.py:171-190, 255-259).                                   *)
AdmissionImplementsTable == Table!Spec
==============================================================================
