----------------------------- MODULE LeaseClock -----------------------------
(* The lease of one job with its clock: lease_store.py, the heartbeat thread *)
(* of worker.py and the expiry in Redis, in ticks.  JobLease and Worker only *)
(* say that a lease which is kept alive does not expire; here that is a      *)
(* consequence of how long the calls take.  Every call of a process that is  *)
(* not paused is executed within Delay of the one before it.                 *)
EXTENDS Integers, FiniteSets

CONSTANTS
    Workers,
    NoHolder,       \* the key does not exist
    Threads,        \* bound: heartbeat threads that run at the same time
    NoThread,
    TTL,            \* LEASE_TTL_SECONDS
    Heartbeat,      \* LEASE_HEARTBEAT_SECONDS
    Delay,          \* of one call to Redis, with the code before it
    MaxFaults,      \* bound: pauses, and heartbeats that die of an exception
    MaxCrashes      \* bound: workers that die, and releases that raise

ASSUME LeaseClockAssumption ==
    /\ NoHolder \notin Workers /\ NoThread \notin Threads
    /\ TTL \in Nat /\ Heartbeat \in Nat /\ Delay \in Nat
    /\ MaxFaults \in Nat /\ MaxCrashes \in Nat

(* What makes the defaults 30 and 10 work: a renewal is a reply, a wait, a   *)
(* GET and an EXPIRE after the last one.                                     *)
ASSUME RenewedInTime == Heartbeat + 3 * Delay < TTL

VARIABLES
    holder, ttl,        \* Redis: the value of the key, ticks until it expires
    main, due,          \* of each worker: where it is, ticks left for its call
    beat,               \* the heartbeat thread it has started and not stopped
    owner, phase, left, \* of each thread: worker, next call, ticks left for it
    paused,             \* workers that make no step for as long as it takes
    late,               \* history: paused, or without heartbeat, since acquire
    own,                \* history: found their id by the GET of release
    faults, crashes

keyVars    == <<holder, ttl>>
mainVars   == <<main, due, beat>>
threadVars == <<owner, phase, left>>
faultVars  == <<paused, late, own, faults, crashes>>
vars == <<keyVars, mainVars, threadVars, faultVars>>

ClockTypeOK ==
    /\ holder \in Workers \cup {NoHolder}
    /\ ttl \in Nat
    /\ main \in [Workers -> {"idle", "acquired", "working", "release", "delete"}]
    /\ due \in [Workers -> Nat]
    /\ beat \in [Workers -> Threads \cup {NoThread}]
    /\ owner \in [Threads -> Workers \cup {NoHolder}]
    /\ phase \in [Threads -> {"off", "wait", "get", "expire"}]
    /\ left \in [Threads -> Nat]
    /\ \A t \in Threads : phase[t] # "off" => owner[t] \in Workers
    /\ paused \subseteq Workers /\ late \subseteq Workers /\ own \subseteq Workers
    /\ faults \in 0..MaxFaults /\ crashes \in 0..MaxCrashes

ClockInit ==
    /\ holder = NoHolder /\ ttl = 0
    /\ main = [w \in Workers |-> "idle"]
    /\ due = [w \in Workers |-> 0]
    /\ beat = [w \in Workers |-> NoThread]
    /\ owner = [t \in Threads |-> NoHolder]
    /\ phase = [t \in Threads |-> "off"]
    /\ left = [t \in Threads |-> 0]
    /\ paused = {} /\ late = {} /\ own = {}
    /\ faults = 0 /\ crashes = 0

Active(w) == main[w] # "idle"           \* from the SET to the DEL
Running(t) == phase[t] # "off"
Stopped(t) == beat[owner[t]] # t        \* its stop_event is set

MainAt(w, from) == main[w] = from /\ w \notin paused
MainTo(w, to, time) ==
    /\ main' = [main EXCEPT ![w] = to]
    /\ due' = [due EXCEPT ![w] = time]

ThreadAt(t, from) == phase[t] = from /\ owner[t] \notin paused
ThreadTo(t, to, time) ==
    /\ phase' = [phase EXCEPT ![t] = to]
    /\ left' = [left EXCEPT ![t] = time]
Forgotten(t) == beat' = [w \in Workers |-> IF beat[w] = t THEN NoThread ELSE beat[w]]
ThreadEnds(t) ==
    /\ ThreadTo(t, "off", 0)
    /\ owner' = [owner EXCEPT ![t] = NoHolder]

-----------------------------------------------------------------------------
(* _process_message, as far as the lease goes *)

SetKey(w, time) == holder' = w /\ ttl' = time

AcquireForEver(w) ==    \* mutant: SET without EX
    /\ MainAt(w, "idle") /\ holder = NoHolder
    /\ SetKey(w, 0)
    /\ MainTo(w, "acquired", Delay)
    /\ UNCHANGED <<beat, threadVars, faultVars>>

(* SET key id NX EX ttl                                                      *)
AcquireKey(w) ==
    /\ MainAt(w, "idle") /\ holder = NoHolder
    /\ SetKey(w, TTL)
    /\ MainTo(w, "acquired", Delay)
    /\ UNCHANGED <<beat, threadVars, faultVars>>

WholeTTL == TTL         \* mutant: the wait is as long as the lease

Interval == Heartbeat

StartHeartbeat(w) ==
    /\ MainAt(w, "acquired")
    /\ MainTo(w, "working", 0)
    /\ \E t \in Threads :
           /\ ~Running(t)
           /\ beat' = [beat EXCEPT ![w] = t]
           /\ owner' = [owner EXCEPT ![t] = w]
           /\ ThreadTo(t, "wait", Interval)
    /\ UNCHANGED <<keyVars, faultVars>>

(* The finally block: stop_event.set().  A thread in its wait ends at once;  *)
(* one that is calling Redis finishes renew() and is not waited for.         *)
StopHeartbeat(w) ==
    /\ MainAt(w, "working")
    /\ MainTo(w, "release", Delay)
    /\ beat' = [beat EXCEPT ![w] = NoThread]
    /\ IF beat[w] # NoThread /\ phase[beat[w]] = "wait"
       THEN ThreadEnds(beat[w])
       ELSE UNCHANGED threadVars
    /\ UNCHANGED <<keyVars, faultVars>>

Finds(w) ==             \* it enters "delete"; note if the lease is its own
    /\ MainTo(w, "delete", Delay)
    /\ own' = IF holder = w THEN own \cup {w} ELSE own
    /\ UNCHANGED <<paused, late, faults, crashes>>

Returns(w) ==           \* _process_message is left
    /\ MainTo(w, "idle", 0)
    /\ late' = late \ {w} /\ own' = own \ {w}

ReleaseUnread(w) ==     \* mutant: the value of the key is not compared
    /\ MainAt(w, "release")
    /\ Finds(w)
    /\ UNCHANGED <<keyVars, beat, threadVars>>

ReleaseGet(w) ==
    /\ MainAt(w, "release")
    /\ IF holder = w THEN Finds(w)
                     ELSE Returns(w) /\ UNCHANGED <<paused, faults, crashes>>
    /\ UNCHANGED <<keyVars, beat, threadVars>>

ReleaseDelete(w) ==
    /\ MainAt(w, "delete")
    /\ Returns(w)
    /\ holder' = NoHolder /\ ttl' = 0
    /\ UNCHANGED <<beat, threadVars, paused, faults, crashes>>

-----------------------------------------------------------------------------
(* The heartbeat thread *)

Wake(t) ==
    /\ ThreadAt(t, "wait") /\ left[t] = 0
    /\ ThreadTo(t, "get", Delay)
    /\ UNCHANGED <<keyVars, mainVars, owner, faultVars>>

(* renew(): GET.  Another value, or none, ends the thread.                   *)
RenewGet(t) ==
    /\ ThreadAt(t, "get")
    /\ \/ /\ holder = owner[t]
          /\ ThreadTo(t, "expire", Delay)
          /\ UNCHANGED <<beat, owner>>
       \/ /\ holder # owner[t]
          /\ ThreadEnds(t)
          /\ Forgotten(t)
    /\ UNCHANGED <<keyVars, main, due, faultVars>>

(* The reply takes up to Delay, and then the thread waits again.             *)
AfterRenewal(t) ==
    IF Stopped(t) THEN ThreadEnds(t)
                  ELSE ThreadTo(t, "wait", Interval + Delay) /\ UNCHANGED owner

RenewBySet(t) ==        \* mutant: SET key id EX ttl instead of EXPIRE
    /\ ThreadAt(t, "expire")
    /\ SetKey(owner[t], TTL)
    /\ AfterRenewal(t)
    /\ UNCHANGED <<mainVars, faultVars>>

(* EXPIRE key ttl, whoever's the key is by now; nothing if there is none.    *)
RenewExpire(t) ==
    /\ ThreadAt(t, "expire")
    /\ ttl' = IF holder = NoHolder THEN ttl ELSE TTL
    /\ AfterRenewal(t)
    /\ UNCHANGED <<holder, mainVars, faultVars>>

-----------------------------------------------------------------------------
(* Time and faults *)

(* Nobody who is not paused lets its time run out.                           *)
NothingDue ==
    /\ \A w \in Workers \ paused : main[w] \notin {"idle", "working"} => due[w] > 0
    /\ \A t \in Threads : Running(t) /\ owner[t] \notin paused => left[t] > 0

Minus1(n) == IF n > 0 THEN n - 1 ELSE 0

Tick ==
    /\ NothingDue
    /\ ttl' = Minus1(ttl)
    /\ holder' = IF ttl = 1 THEN NoHolder ELSE holder
    /\ due' = [w \in Workers |-> Minus1(due[w])]
    /\ left' = [t \in Threads |-> Minus1(left[t])]
    /\ UNCHANGED <<main, beat, owner, phase, faultVars>>

Fault == faults < MaxFaults /\ faults' = faults + 1

(* A long pause of a process: it is stopped, or its machine is.              *)
Pause(w) ==
    /\ w \notin paused
    /\ Fault
    /\ paused' = paused \cup {w}
    /\ late' = IF Active(w) THEN late \cup {w} ELSE late
    /\ UNCHANGED <<keyVars, mainVars, threadVars, own, crashes>>

Resume(w) ==
    /\ w \in paused
    /\ paused' = paused \ {w}
    /\ UNCHANGED <<keyVars, mainVars, threadVars, late, own, faults, crashes>>

(* renew() raises: nothing catches it in the thread.                         *)
HeartbeatDies(t) ==
    /\ phase[t] \in {"get", "expire"}
    /\ Fault
    /\ ThreadEnds(t) /\ Forgotten(t)
    /\ late' = IF Active(owner[t]) THEN late \cup {owner[t]} ELSE late
    /\ UNCHANGED <<keyVars, main, due, paused, own, crashes>>

OneCrash == crashes < MaxCrashes /\ crashes' = crashes + 1

(* The process dies, and its threads with it; it starts again under its id.  *)
Crash(w) ==
    /\ Active(w)
    /\ OneCrash
    /\ Returns(w)
    /\ beat' = [beat EXCEPT ![w] = NoThread]
    /\ phase' = [t \in Threads |-> IF owner[t] = w THEN "off" ELSE phase[t]]
    /\ left' = [t \in Threads |-> IF owner[t] = w THEN 0 ELSE left[t]]
    /\ owner' = [t \in Threads |-> IF owner[t] = w THEN NoHolder ELSE owner[t]]
    /\ paused' = paused \ {w}
    /\ UNCHANGED <<keyVars, faults>>

(* release() raises: run_worker catches it, and the lease stays behind.      *)
ReleaseFails(w) ==
    /\ MainAt(w, "release") \/ MainAt(w, "delete")
    /\ OneCrash
    /\ Returns(w)
    /\ UNCHANGED <<keyVars, beat, threadVars, paused, faults>>

MainStep(w) ==
    \/ StartHeartbeat(w) \/ ReleaseGet(w) \/ ReleaseDelete(w)

ThreadStep(t) == Wake(t) \/ RenewGet(t) \/ RenewExpire(t)

ClockNext ==
    \/ Tick
    \/ \E w \in Workers :
           \/ AcquireKey(w) \/ StopHeartbeat(w) \/ MainStep(w)
           \/ Pause(w) \/ Resume(w) \/ Crash(w) \/ ReleaseFails(w)
    \/ \E t \in Threads : ThreadStep(t) \/ HeartbeatDies(t)

ClockSpec == ClockInit /\ [][ClockNext]_vars

(* Time passes and calls return.  A job may run for ever, a process may stay *)
(* paused.                                                                   *)
FairClockSpec ==
    /\ ClockSpec
    /\ WF_vars(Tick)
    /\ \A w \in Workers : WF_vars(MainStep(w))
    /\ \A t \in Threads : WF_vars(ThreadStep(t))

-----------------------------------------------------------------------------
(* Properties *)

(* As long as no process pauses and no heartbeat dies, two workers are never *)
(* between acquire and release of one job, whatever crashes and whatever is  *)
(* left of earlier heartbeat threads (worker.py:16-31, lease_store.py:27-48).*)
OneHolder == faults = 0 => \A v, w \in Workers : Active(v) /\ Active(w) => v = w

(* A worker that is not late keeps its lease until it releases it: it never  *)
(* expires (LeaseExpires in Worker takes that for granted), and only a       *)
(* worker that still had the lease by the GET of its own release, and lost   *)
(* it before the DEL, can take it away (lease_store.py:34-48).               *)
KeptLeasesStay ==
    [][\A v \in Workers :
           Active(v) /\ v \notin late /\ holder = v /\ holder' # v
             => \E w \in own \cup {v} : main[w] = "delete" /\ main'[w] = "idle"]_vars

(* A worker that has lost its lease while it works does not get it back, not *)
(* even by a renewal that was under way (lease_store.py:34-41).              *)
LostIsLost ==
    [][\A w \in Workers : Active(w) /\ Active(w)' /\ holder # w => holder' # w]_vars

(* The lease that a dead worker, or a release that failed, has left behind   *)
(* ends, although heartbeats of others may still renew it: its job can be    *)
(* taken up again (lease_store.py:27-32).                                    *)
OrphanedLeaseEnds ==
    \A w \in Workers : (holder = w /\ ~Active(w)) ~> (holder # w \/ Active(w))

Place(w) == IF main[w] = "idle" THEN "away"
            ELSE IF main[w] = "delete" THEN "deletes" ELSE "works"

Lease == INSTANCE KeptLease WITH
    Jobs <- {"job"},
    IdOf <- [w \in Workers |-> w],
    key <- [j \in {"job"} |-> holder],
    at <- [j \in {"job"} |-> [w \in Workers |-> Place(w)]],
    keeps <- [j \in {"job"} |-> {w \in Workers : Active(w) /\ w \notin late}]

(* With its clock the lease is what Orchestrator makes of it without one:    *)
(* only one that nobody keeps alive expires, and that is every worker that   *)
(* was not paused and whose heartbeat did not die (worker.py:16-31).         *)
ClockImplementsLease == Lease!Spec
=============================================================================
