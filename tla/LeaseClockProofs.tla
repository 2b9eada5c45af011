-------------------------- MODULE LeaseClockProofs --------------------------
(* Theorems about LeaseClock, for any workers, threads, faults and crashes,  *)
(* and any times that satisfy RenewedInTime.                                 *)
EXTENDS LeaseClock, TLAPS

(* LeaseClock is well typed (lease_store.py, the heartbeat of worker.py).    *)
THEOREM ClockTypeCorrect == ClockSpec => []ClockTypeOK
<1>1. ClockInit => ClockTypeOK
  BY LeaseClockAssumption DEF ClockInit, ClockTypeOK
<1>2. ClockTypeOK /\ [ClockNext]_vars => ClockTypeOK'
  <2> SUFFICES ASSUME ClockTypeOK, [ClockNext]_vars PROVE ClockTypeOK'
    OBVIOUS
  <2> USE LeaseClockAssumption DEF ClockTypeOK, MainAt, MainTo, ThreadAt, ThreadTo
  <2>1. CASE Tick
    BY <2>1 DEF Tick, Minus1, faultVars
  <2>2. ASSUME NEW w \in Workers, AcquireKey(w) PROVE ClockTypeOK'
    BY <2>2 DEF AcquireKey, SetKey, threadVars, faultVars
  <2>3. ASSUME NEW w \in Workers, StopHeartbeat(w) PROVE ClockTypeOK'
    BY <2>3 DEF StopHeartbeat, ThreadEnds, keyVars, faultVars, threadVars
  <2>4. ASSUME NEW w \in Workers, StartHeartbeat(w) PROVE ClockTypeOK'
    BY <2>4 DEF StartHeartbeat, Interval, keyVars, faultVars
  <2>5. ASSUME NEW w \in Workers, ReleaseGet(w) PROVE ClockTypeOK'
    BY <2>5 DEF ReleaseGet, Finds, Returns, keyVars, threadVars
  <2>6. ASSUME NEW w \in Workers, ReleaseDelete(w) PROVE ClockTypeOK'
    BY <2>6 DEF ReleaseDelete, Returns, threadVars
  <2>7. ASSUME NEW w \in Workers, Pause(w) \/ Resume(w) PROVE ClockTypeOK'
    BY <2>7 DEF Pause, Resume, Fault, keyVars, mainVars, threadVars
  <2>8. ASSUME NEW w \in Workers, Crash(w) PROVE ClockTypeOK'
    BY <2>8 DEF Crash, OneCrash, Returns, keyVars
  <2>9. ASSUME NEW w \in Workers, ReleaseFails(w) PROVE ClockTypeOK'
    BY <2>9 DEF ReleaseFails, OneCrash, Returns, keyVars, threadVars
  <2>10. ASSUME NEW t \in Threads, Wake(t) PROVE ClockTypeOK'
    BY <2>10 DEF Wake, keyVars, mainVars, faultVars
  <2>11. ASSUME NEW t \in Threads, RenewGet(t) PROVE ClockTypeOK'
    BY <2>11 DEF RenewGet, ThreadEnds, Forgotten, keyVars, faultVars
  <2>12. ASSUME NEW t \in Threads, RenewExpire(t) PROVE ClockTypeOK'
    BY <2>12 DEF RenewExpire, AfterRenewal, ThreadEnds, Interval, mainVars, faultVars
  <2>13. ASSUME NEW t \in Threads, HeartbeatDies(t) PROVE ClockTypeOK'
    <3>1. late' \subseteq Workers
      BY <2>13 DEF HeartbeatDies, Active
    <3> QED
      BY <2>13, <3>1 DEF HeartbeatDies, Fault, ThreadEnds, Forgotten, keyVars
  <2>14. CASE UNCHANGED vars
    BY <2>14 DEF vars, keyVars, mainVars, threadVars, faultVars
  <2> QED
    BY <2>1, <2>2, <2>3, <2>4, <2>5, <2>6, <2>7, <2>8, <2>9, <2>10, <2>11, <2>12,
       <2>13, <2>14 DEF ClockNext, MainStep, ThreadStep
<1> QED
  BY <1>1, <1>2, PTL DEF ClockSpec

-----------------------------------------------------------------------------
(* Why a lease is kept alive.  At each point of a worker, and of the thread  *)
(* that renews for it, the lease lives longer than the calls that are still  *)
(* to come before it is renewed or deleted.                                  *)

Rest(p) == IF p = "wait" THEN 2 * Delay
           ELSE IF p = "get" THEN Delay ELSE 0

Renews(t, w) == owner[t] = w /\ Running(t) /\ ttl > left[t] + Rest(phase[t])

RenewsLast(w) == \E t \in Threads : phase[t] \in {"get", "expire"} /\ Renews(t, w)

InTime(w) ==
    /\ main[w] = "acquired" => ttl > due[w] + Heartbeat + 2 * Delay
    /\ main[w] = "working" => beat[w] # NoThread /\ Renews(beat[w], w)
    /\ main[w] = "release" => ttl > due[w] + Delay \/ RenewsLast(w)
    /\ main[w] = "delete" => ttl > due[w] \/ RenewsLast(w)

Kept(w) == Active(w) /\ w \notin late /\ holder = w

Bookkeeping ==
    /\ ttl <= TTL
    /\ \A w \in Workers : due[w] <= Delay
    /\ \A w \in Workers : beat[w] # NoThread => owner[beat[w]] = w /\ Running(beat[w])
    /\ \A w \in Workers : Active(w) /\ w \in paused => w \in late
    /\ \A w \in late : Active(w)
    /\ \A w \in Workers : main[w] = "delete" => w \in own

Faultless == faults = 0 => /\ late = {} /\ paused = {}
                           /\ \A w \in Workers : Active(w) => holder = w

ClockInv ==
    /\ ClockTypeOK
    /\ Bookkeeping
    /\ \A w \in Workers : Kept(w) => InTime(w)
    /\ Faultless

ClockOK == ClockTypeOK /\ ClockTypeOK' /\ ClockInv

(* A tick keeps every lease that is kept alive: each of the calls still to   *)
(* come has time left, so the lease has more than one tick (worker.py:20-28).*)
LEMMA TickKeeps ==
    ASSUME ClockOK, Tick, NEW w \in Workers, Kept(w)
    PROVE  holder' = w /\ InTime(w)'
<1> USE LeaseClockAssumption, RenewedInTime DEF ClockTypeOK, Minus1
<1>0. w \notin paused
  BY DEF ClockOK, ClockInv, Bookkeeping, Kept
<1>1. /\ main' = main /\ beat' = beat /\ owner' = owner /\ phase' = phase
      /\ \A v \in Workers : due'[v] = Minus1(due[v])
      /\ \A t \in Threads : left'[t] = Minus1(left[t])
      /\ ttl' = Minus1(ttl) /\ holder' = IF ttl = 1 THEN NoHolder ELSE holder
  BY DEF Tick, ClockOK
<1>2. main[w] \in {"acquired", "release", "delete"} => due[w] > 0
  BY <1>0 DEF Tick, NothingDue
<1>3. ASSUME NEW t \in Threads, Renews(t, w)
      PROVE  Renews(t, w)' /\ ttl > 1
  <2>1. left[t] > 0
    BY <1>0, <1>3 DEF Tick, NothingDue, Renews, ClockOK
  <2>2. Rest(phase[t]) \in Nat /\ left[t] \in Nat /\ ttl \in Nat
    BY DEF Rest, ClockOK
  <2>3. ttl > left[t] + Rest(phase[t])
    BY <1>3 DEF Renews
  <2>4. ttl > 1 /\ ttl - 1 > (left[t] - 1) + Rest(phase[t])
    BY <2>1, <2>2, <2>3
  <2>5. ttl' > left'[t] + Rest(phase[t])
    BY <1>1, <2>1, <2>2, <2>4
  <2> QED
    BY <1>1, <1>3, <2>4, <2>5 DEF Renews, Running, Rest
<1>4. RenewsLast(w) => RenewsLast(w)' /\ ttl > 1
  BY <1>1, <1>3 DEF RenewsLast
<1>5. InTime(w)
  BY DEF ClockOK, ClockInv, Bookkeeping
<1>6. due[w] \in Nat /\ ttl \in Nat /\ due'[w] = Minus1(due[w])
  BY <1>1 DEF ClockOK
<1>7. CASE main[w] = "acquired"
  BY <1>1, <1>2, <1>5, <1>6, <1>7 DEF InTime, Kept
<1>8. CASE main[w] = "working"
  <2>1. beat[w] \in Threads /\ Renews(beat[w], w)
    BY <1>5, <1>8 DEF InTime, ClockOK
  <2> QED
    BY <1>1, <1>3, <1>8, <2>1 DEF InTime, Kept
<1>9. CASE main[w] = "release"
  BY <1>1, <1>2, <1>4, <1>5, <1>6, <1>9 DEF InTime, Kept
<1>10. CASE main[w] = "delete"
  BY <1>1, <1>2, <1>4, <1>5, <1>6, <1>10 DEF InTime, Kept
<1> QED
  BY <1>7, <1>8, <1>9, <1>10 DEF Kept, Active, ClockOK

(* What a worker relies on does not suffer from a step that leaves it and    *)
(* its threads alone and does not shorten the lease.                         *)
LEMMA Undisturbed ==
    ASSUME ClockOK, NEW w \in Workers, InTime(w),
           main'[w] = main[w], due'[w] = due[w], beat'[w] = beat[w], ttl' >= ttl,
           \A t \in Threads : owner[t] = w /\ Running(t)
             => owner'[t] = w /\ phase'[t] = phase[t] /\ left'[t] = left[t]
    PROVE  InTime(w)'
<1> USE LeaseClockAssumption DEF ClockOK, ClockTypeOK
<1>1. ASSUME NEW t \in Threads, Renews(t, w) PROVE Renews(t, w)'
  <2>1. owner'[t] = w /\ phase'[t] = phase[t] /\ left'[t] = left[t]
    BY <1>1 DEF Renews
  <2>2. Rest(phase[t]) \in Nat
    BY DEF Rest
  <2>3. ttl' > left[t] + Rest(phase[t])
    BY <1>1, <2>2 DEF Renews
  <2> QED
    BY <1>1, <2>1, <2>3 DEF Renews, Running, Rest
<1>2. RenewsLast(w) => RenewsLast(w)'
  BY <1>1 DEF RenewsLast, Renews
<1>3. CASE main[w] = "working"
  <2>1. beat[w] \in Threads /\ Renews(beat[w], w)
    BY <1>3 DEF InTime
  <2> QED
    BY <1>1, <1>3, <2>1 DEF InTime
<1>4. CASE main[w] # "working"
  BY <1>2, <1>4 DEF InTime
<1> QED
  BY <1>3, <1>4

(* The steps of a worker, seen from a worker that keeps its lease            *)
(* (worker.py:56-112).                                                       *)
LEMMA MainKeeps ==
    ASSUME ClockOK, NEW v \in Workers, NEW w \in Workers, Kept(w)',
           \/ AcquireKey(v) \/ StopHeartbeat(v) \/ StartHeartbeat(v)
           \/ ReleaseGet(v) \/ ReleaseDelete(v)
    PROVE  InTime(w)'
<1> USE LeaseClockAssumption, RenewedInTime
    DEF ClockOK, ClockTypeOK, MainAt, MainTo, ThreadTo, Active, Kept
<1>1. CASE AcquireKey(v)
  <2>1. w = v /\ main'[w] = "acquired" /\ due'[w] = Delay /\ ttl' = TTL
    BY <1>1 DEF AcquireKey, SetKey
  <2> QED
    BY <2>1 DEF InTime
<1>2. CASE StopHeartbeat(v)
  <2>1. Kept(w) /\ InTime(w)
    BY <1>2 DEF StopHeartbeat, keyVars, faultVars, ClockInv, Bookkeeping
  <2>2. CASE v = w
    <3>1. main[w] = "working" /\ main'[w] = "release" /\ due'[w] = Delay /\ ttl' = ttl
      BY <1>2, <2>2 DEF StopHeartbeat, keyVars
    <3>2. beat[w] \in Threads /\ Renews(beat[w], w)
      BY <2>1, <3>1 DEF InTime
    <3>3. CASE phase[beat[w]] = "wait"
      <4>1. ttl > left[beat[w]] + 2 * Delay
        BY <3>2, <3>3 DEF Renews, Rest
      <4> QED
        BY <3>1, <3>2, <4>1 DEF InTime
    <3>4. CASE phase[beat[w]] # "wait"
      <4>1. UNCHANGED <<owner, phase, left>>
        BY <1>2, <2>2, <3>4 DEF StopHeartbeat, threadVars
      <4>2. phase[beat[w]] \in {"get", "expire"}
        BY <3>2, <3>4 DEF Renews, Running
      <4>3. RenewsLast(w)'
        <5>1. PICK t \in Threads : t = beat[w]
          BY <3>2
        <5>2. Renews(t, w)'
          BY <3>1, <3>2, <4>1, <5>1 DEF Renews, Running, Rest
        <5> QED
          BY <4>1, <4>2, <5>1, <5>2 DEF RenewsLast
      <4> QED
        BY <3>1, <4>3 DEF InTime
    <3> QED
      BY <3>3, <3>4
  <2>3. CASE v # w
    <3>1. /\ main'[w] = main[w] /\ due'[w] = due[w] /\ beat'[w] = beat[w] /\ ttl' = ttl
      BY <1>2, <2>3 DEF StopHeartbeat, keyVars
    <3>2. CASE beat[v] # NoThread /\ phase[beat[v]] = "wait"
      <4> QED
        BY <1>2, <2>1, <2>3, <3>1, <3>2, Undisturbed
           DEF StopHeartbeat, ThreadEnds, ClockInv, Bookkeeping
    <3>3. CASE ~(beat[v] # NoThread /\ phase[beat[v]] = "wait")
      BY <1>2, <2>1, <3>1, <3>3, Undisturbed DEF StopHeartbeat, threadVars
    <3> QED
      BY <3>2, <3>3
  <2> QED
    BY <2>2, <2>3
<1>3. CASE StartHeartbeat(v)
  <2>1. Kept(w) /\ InTime(w)
    BY <1>3 DEF StartHeartbeat, keyVars, faultVars, ClockInv, Bookkeeping
  <2>2. PICK t \in Threads : /\ ~Running(t)
                             /\ beat' = [beat EXCEPT ![v] = t]
                             /\ owner' = [owner EXCEPT ![t] = v]
                             /\ ThreadTo(t, "wait", Heartbeat)
    BY <1>3 DEF StartHeartbeat, Interval
  <2>3. CASE v = w
    <3>1. ttl > due[w] + Heartbeat + 2 * Delay /\ ttl' = ttl
      BY <1>3, <2>1, <2>3 DEF InTime, StartHeartbeat, keyVars
    <3>2. /\ beat'[w] = t /\ owner'[t] = w /\ phase'[t] = "wait" /\ left'[t] = Heartbeat
          /\ main'[w] = "working"
      BY <1>3, <2>2, <2>3 DEF StartHeartbeat
    <3>3. ttl' > left'[t] + 2 * Delay
      BY <3>1, <3>2
    <3> QED
      BY <3>2, <3>3 DEF InTime, Renews, Running, Rest
  <2>4. CASE v # w
    <3>1. main'[w] = main[w] /\ due'[w] = due[w] /\ beat'[w] = beat[w] /\ ttl' = ttl
      BY <1>3, <2>2, <2>4 DEF StartHeartbeat, keyVars
    <3>2. \A u \in Threads : Running(u)
            => owner'[u] = owner[u] /\ phase'[u] = phase[u] /\ left'[u] = left[u]
      BY <2>2
    <3> QED
      BY <2>1, <3>1, <3>2, Undisturbed
  <2> QED
    BY <2>3, <2>4
<1>4. CASE ReleaseGet(v)
  <2>1. Kept(w) /\ InTime(w)
    BY <1>4 DEF ReleaseGet, Finds, Returns, keyVars, ClockInv, Bookkeeping
  <2>2. UNCHANGED <<holder, ttl, beat, owner, phase, left>>
    BY <1>4 DEF ReleaseGet, keyVars, threadVars
  <2>3. CASE v = w
    <3>1. main[w] = "release" /\ main'[w] = "delete" /\ due'[w] = Delay
      BY <1>4, <2>1, <2>3 DEF ReleaseGet, Finds
    <3>2. ttl' > Delay \/ RenewsLast(w)'
      <4>1. ttl > due[w] + Delay \/ RenewsLast(w)
        BY <2>1, <3>1 DEF InTime
      <4>2. RenewsLast(w) => RenewsLast(w)'
        BY <2>2 DEF RenewsLast, Renews, Running, Rest
      <4> QED
        BY <2>2, <4>1, <4>2
    <3> QED
      BY <3>1, <3>2 DEF InTime
  <2>4. CASE v # w
    <3>1. main'[w] = main[w] /\ due'[w] = due[w]
      BY <1>4, <2>4 DEF ReleaseGet, Finds, Returns
    <3> QED
      BY <2>1, <2>2, <3>1, Undisturbed
  <2> QED
    BY <2>3, <2>4
<1>5. CASE ReleaseDelete(v)
  BY <1>5 DEF ReleaseDelete
<1> QED
  BY <1>1, <1>2, <1>3, <1>4, <1>5

(* The steps of a heartbeat thread (worker.py:20-29, lease_store.py:34-41).  *)
LEMMA ThreadKeeps ==
    ASSUME ClockOK, NEW t \in Threads, NEW w \in Workers, Kept(w)',
           ThreadStep(t) \/ HeartbeatDies(t)
    PROVE  InTime(w)'
<1> USE LeaseClockAssumption, RenewedInTime
    DEF ClockOK, ClockTypeOK, ThreadAt, ThreadTo, Active, Kept
<1>0. main' = main /\ due' = due /\ (late \subseteq late') /\ holder' = holder
  BY DEF ThreadStep, Wake, RenewGet, RenewExpire, HeartbeatDies, keyVars, mainVars, faultVars
<1>1. Kept(w) /\ InTime(w)
  BY <1>0 DEF ClockInv, Bookkeeping
<1>2. owner[t] \in Workers /\ Running(t)
  BY DEF ThreadStep, Wake, RenewGet, RenewExpire, HeartbeatDies, Running
<1>3. CASE Wake(t)
  <2>1. /\ phase[t] = "wait" /\ left[t] = 0 /\ phase'[t] = "get" /\ left'[t] = Delay
        /\ \A u \in Threads \ {t} : phase'[u] = phase[u] /\ left'[u] = left[u]
        /\ ttl' = ttl /\ owner' = owner /\ beat' = beat
    BY <1>3 DEF Wake, keyVars, mainVars
  <2>2. ASSUME NEW u \in Threads, Renews(u, w) PROVE Renews(u, w)'
    <3>1. CASE u = t
      <4>1. ttl > 2 * Delay
        BY <2>1, <2>2, <3>1 DEF Renews, Rest
      <4>2. ttl' > left'[u] + Delay
        BY <2>1, <3>1, <4>1
      <4> QED
        BY <2>1, <2>2, <3>1, <4>2 DEF Renews, Running, Rest
    <3>2. CASE u # t
      BY <2>1, <2>2, <3>2 DEF Renews, Running, Rest
    <3> QED
      BY <3>1, <3>2
  <2>3. RenewsLast(w) => RenewsLast(w)'
    BY <2>1, <2>2 DEF RenewsLast
  <2>4. CASE main[w] = "working"
    <3>1. beat[w] \in Threads /\ Renews(beat[w], w)
      BY <1>1, <2>4 DEF InTime
    <3>2. PICK u \in Threads : u = beat[w] /\ Renews(u, w)
      BY <3>1
    <3>3. Renews(u, w)'
      BY <2>2, <3>2
    <3>4. Renews(beat[w], w)'
      BY <2>1, <3>2, <3>3 DEF Renews, Running
    <3> QED
      BY <1>0, <2>1, <2>4, <3>1, <3>4 DEF InTime
  <2>5. CASE main[w] # "working"
    BY <1>0, <1>1, <2>1, <2>3, <2>5 DEF InTime
  <2> QED
    BY <2>4, <2>5
<1>4. CASE RenewGet(t)
  <2>1. CASE holder = owner[t]
    <3>1. /\ phase[t] = "get" /\ phase'[t] = "expire" /\ left'[t] = Delay
          /\ \A u \in Threads \ {t} : phase'[u] = phase[u] /\ left'[u] = left[u]
          /\ ttl' = ttl /\ owner' = owner /\ beat' = beat
      BY <1>4, <2>1 DEF RenewGet, keyVars
    <3>2. ASSUME NEW u \in Threads, Renews(u, w) PROVE Renews(u, w)'
      <4>1. CASE u = t
        <5>1. ttl > left[t] + Delay
          BY <3>1, <3>2, <4>1 DEF Renews, Rest
        <5>2. ttl' > left'[u] + 0
          BY <3>1, <4>1, <5>1
        <5> QED
          BY <3>1, <3>2, <4>1, <5>2 DEF Renews, Running, Rest
      <4>2. CASE u # t
        BY <3>1, <3>2, <4>2 DEF Renews, Running, Rest
      <4> QED
        BY <4>1, <4>2
    <3>3. RenewsLast(w) => RenewsLast(w)'
      BY <3>1, <3>2 DEF RenewsLast
    <3>4. CASE main[w] = "working"
      <4>1. beat[w] \in Threads /\ Renews(beat[w], w)
        BY <1>1, <3>4 DEF InTime
      <4>2. PICK u \in Threads : u = beat[w] /\ Renews(u, w)
        BY <4>1
      <4>3. Renews(u, w)'
        BY <3>2, <4>2
      <4>4. Renews(beat[w], w)'
        BY <3>1, <4>2, <4>3 DEF Renews, Running
      <4> QED
        BY <1>0, <3>1, <3>4, <4>1, <4>4 DEF InTime
    <3>5. CASE main[w] # "working"
      BY <1>0, <1>1, <3>1, <3>3, <3>5 DEF InTime
    <3> QED
      BY <3>4, <3>5
  <2>2. CASE holder # owner[t]
    <3>1. owner[t] # w
      BY <1>1, <2>2
    <3>2. beat'[w] = beat[w]
      BY <1>4, <2>2, <3>1 DEF RenewGet, Forgotten, ClockInv, Bookkeeping
    <3> QED
      BY <1>0, <1>1, <1>4, <2>2, <3>1, <3>2, Undisturbed DEF RenewGet, ThreadEnds, keyVars
  <2> QED
    BY <2>1, <2>2
<1>5. CASE RenewExpire(t)
  <2>1. ttl' = TTL /\ beat' = beat /\ ttl' >= ttl
    BY <1>1, <1>5 DEF RenewExpire, mainVars, ClockInv, Bookkeeping
  <2>2. CASE owner[t] # w
    <3>1. \A u \in Threads \ {t} : owner'[u] = owner[u] /\ phase'[u] = phase[u] /\ left'[u] = left[u]
      BY <1>5 DEF RenewExpire, AfterRenewal, ThreadEnds
    <3> QED
      BY <1>0, <1>1, <2>1, <2>2, <3>1, Undisturbed
  <2>3. CASE owner[t] = w
    <3>1. CASE main[w] = "working"
      <4>1. beat[w] \in Threads /\ Renews(beat[w], w)
        BY <1>1, <3>1 DEF InTime
      <4>2. CASE beat[w] = t
        <5>1. owner'[t] = w /\ phase'[t] = "wait" /\ left'[t] = Heartbeat + Delay
          BY <1>5, <2>3, <4>2 DEF RenewExpire, AfterRenewal, Stopped, Interval
        <5>2. ttl' > left'[t] + 2 * Delay
          BY <2>1, <5>1
        <5> QED
          BY <1>0, <2>1, <3>1, <4>1, <4>2, <5>1, <5>2 DEF InTime, Renews, Running, Rest
      <4>3. CASE beat[w] # t
        <5> DEFINE u == beat[w]
        <5>1. owner'[u] = w /\ phase'[u] = phase[u] /\ left'[u] = left[u]
          BY <1>5, <4>1, <4>3 DEF RenewExpire, AfterRenewal, ThreadEnds, Renews
        <5>2. Rest(phase[u]) \in Nat
          BY DEF Rest
        <5>3. ttl' > left'[u] + Rest(phase[u])
          BY <2>1, <4>1, <5>1, <5>2 DEF Renews, ClockInv, Bookkeeping
        <5> QED
          BY <1>0, <2>1, <3>1, <4>1, <5>1, <5>3 DEF InTime, Renews, Running, Rest
      <4> QED
        BY <4>2, <4>3
    <3>2. CASE main[w] # "working"
      <4>1. due[w] <= Delay /\ due'[w] = due[w]
        BY <1>0 DEF ClockInv, Bookkeeping
      <4>2. TTL > Heartbeat + 3 * Delay /\ Heartbeat \in Nat /\ Delay \in Nat
        OBVIOUS
      <4>3. main[w] # "acquired" => InTime(w)'
        BY <1>0, <2>1, <3>2, <4>1, <4>2 DEF InTime
      <4>4. main[w] = "acquired" => InTime(w)'
        BY <1>0, <2>1, <3>2, <4>1, <4>2 DEF InTime
      <4> QED
        BY <4>3, <4>4
    <3> QED
      BY <3>1, <3>2
  <2> QED
    BY <2>2, <2>3
<1>6. CASE HeartbeatDies(t)
  <2>1. owner[t] # w
    BY <1>1, <1>2, <1>6 DEF HeartbeatDies
  <2>2. beat'[w] = beat[w]
    BY <1>6, <2>1 DEF HeartbeatDies, Forgotten, ClockInv, Bookkeeping
  <2> QED
    BY <1>0, <1>1, <1>6, <2>1, <2>2, Undisturbed DEF HeartbeatDies, ThreadEnds, keyVars
<1> QED
  BY <1>3, <1>4, <1>5, <1>6 DEF ThreadStep

(* Pauses, crashes and releases that raise, seen from a worker that keeps    *)
(* its lease.                                                                *)
LEMMA FaultKeeps ==
    ASSUME ClockOK, NEW v \in Workers, NEW w \in Workers, Kept(w)',
           Pause(v) \/ Resume(v) \/ Crash(v) \/ ReleaseFails(v)
    PROVE  InTime(w)'
<1> USE LeaseClockAssumption DEF ClockOK, ClockTypeOK, MainAt, MainTo, Active, Kept
<1>1. CASE Pause(v) \/ Resume(v)
  BY <1>1, Undisturbed DEF Pause, Resume, keyVars, mainVars, threadVars, ClockInv, Bookkeeping
<1>2. CASE Crash(v)
  BY <1>2, Undisturbed DEF Crash, Returns, keyVars, ClockInv, Bookkeeping
<1>3. CASE ReleaseFails(v)
  BY <1>3, Undisturbed DEF ReleaseFails, Returns, keyVars, threadVars, ClockInv, Bookkeeping
<1> QED
  BY <1>1, <1>2, <1>3

(* The parts of ClockInv that are about one process each.                    *)
LEMMA BookkeepingKept ==
    ASSUME ClockOK, ClockNext
    PROVE  Bookkeeping'
<1> USE LeaseClockAssumption
    DEF ClockOK, ClockInv, ClockTypeOK, Bookkeeping, MainAt, MainTo, ThreadAt, ThreadTo,
        Active, Running
<1>1. CASE Tick
  BY <1>1 DEF Tick, Minus1, faultVars
<1>2. ASSUME NEW v \in Workers, AcquireKey(v) \/ StopHeartbeat(v) PROVE Bookkeeping'
  BY <1>2 DEF AcquireKey, SetKey, StopHeartbeat, ThreadEnds, keyVars, threadVars, faultVars
<1>3. ASSUME NEW v \in Workers, StartHeartbeat(v) PROVE Bookkeeping'
  BY <1>3 DEF StartHeartbeat, keyVars, faultVars
<1>4. ASSUME NEW v \in Workers, ReleaseGet(v) \/ ReleaseDelete(v) PROVE Bookkeeping'
  BY <1>4 DEF ReleaseGet, ReleaseDelete, Finds, Returns, keyVars, threadVars
<1>5. ASSUME NEW v \in Workers, Pause(v) \/ Resume(v) PROVE Bookkeeping'
  BY <1>5 DEF Pause, Resume, keyVars, mainVars, threadVars
<1>6. ASSUME NEW v \in Workers, Crash(v) \/ ReleaseFails(v) PROVE Bookkeeping'
  BY <1>6 DEF Crash, ReleaseFails, Returns, keyVars, threadVars
<1>7. ASSUME NEW t \in Threads, ThreadStep(t) PROVE Bookkeeping'
  <2>1. CASE Wake(t)
    BY <2>1 DEF Wake, keyVars, mainVars, faultVars
  <2>2. CASE RenewGet(t)
    BY <2>2 DEF RenewGet, ThreadEnds, Forgotten, keyVars, faultVars
  <2>3. CASE RenewExpire(t)
    BY <2>3 DEF RenewExpire, AfterRenewal, Stopped, ThreadEnds, mainVars, faultVars
  <2> QED
    BY <1>7, <2>1, <2>2, <2>3 DEF ThreadStep
<1>8. ASSUME NEW t \in Threads, HeartbeatDies(t) PROVE Bookkeeping'
  BY <1>8 DEF HeartbeatDies, ThreadEnds, Forgotten, keyVars
<1> QED
  BY <1>1, <1>2, <1>3, <1>4, <1>5, <1>6, <1>7, <1>8 DEF ClockNext, MainStep

LEMMA KeepersAreInTime ==
    ASSUME ClockOK, ClockNext, NEW w \in Workers, Kept(w)'
    PROVE  InTime(w)'
<1>1. CASE Tick
  <2>1. Kept(w)
    BY <1>1, LeaseClockAssumption DEF Tick, Kept, Active, faultVars
  <2> QED
    BY <1>1, <2>1, TickKeeps
<1>2. CASE ~Tick
  BY <1>2, MainKeeps, ThreadKeeps, FaultKeeps DEF ClockNext, MainStep
<1> QED
  BY <1>1, <1>2

(* Without a fault nobody loses what it holds.                               *)
LEMMA FaultlessKept ==
    ASSUME ClockOK, ClockNext
    PROVE  Faultless'
<1> USE LeaseClockAssumption
    DEF ClockOK, ClockInv, ClockTypeOK, Faultless, MainAt, MainTo, Active
<1>1. CASE Tick
  <2> SUFFICES ASSUME faults' = 0 PROVE Faultless'
    OBVIOUS
  <2>1. faults = 0 /\ UNCHANGED <<main, late, paused>>
    BY <1>1 DEF Tick, faultVars
  <2>2. ASSUME NEW w \in Workers, Active(w) PROVE holder' = w
    BY <1>1, <2>1, <2>2, TickKeeps DEF Kept
  <2> QED
    BY <2>1, <2>2
<1>2. ASSUME NEW v \in Workers, AcquireKey(v) \/ StopHeartbeat(v) \/ StartHeartbeat(v)
      PROVE Faultless'
  BY <1>2 DEF AcquireKey, SetKey, StopHeartbeat, StartHeartbeat, keyVars, threadVars, faultVars
<1>3. ASSUME NEW v \in Workers, ReleaseGet(v) \/ ReleaseDelete(v) PROVE Faultless'
  BY <1>3 DEF ReleaseGet, ReleaseDelete, Finds, Returns, keyVars, threadVars
<1>4. ASSUME NEW v \in Workers, Pause(v) \/ Resume(v) PROVE Faultless'
  BY <1>4 DEF Pause, Resume, Fault, keyVars, mainVars, threadVars
<1>5. ASSUME NEW v \in Workers, Crash(v) \/ ReleaseFails(v) PROVE Faultless'
  BY <1>5 DEF Crash, ReleaseFails, Returns, keyVars, threadVars
<1>6. ASSUME NEW t \in Threads, ThreadStep(t) PROVE Faultless'
  BY <1>6 DEF ThreadStep, Wake, RenewGet, RenewExpire, keyVars, mainVars, faultVars
<1>7. ASSUME NEW t \in Threads, HeartbeatDies(t) PROVE Faultless'
  BY <1>7 DEF HeartbeatDies, Fault
<1> QED
  BY <1>1, <1>2, <1>3, <1>4, <1>5, <1>6, <1>7 DEF ClockNext, MainStep

LEMMA ClockInvHolds == ClockSpec => []ClockInv
<1>1. ClockInit => ClockInv
  <2> SUFFICES ASSUME ClockInit PROVE ClockInv
    OBVIOUS
  <2>1. ClockTypeOK
    BY LeaseClockAssumption DEF ClockInit, ClockTypeOK
  <2>2. Bookkeeping
    BY LeaseClockAssumption DEF ClockInit, Bookkeeping, Active
  <2> QED
    BY <2>1, <2>2 DEF ClockInit, ClockInv, Faultless, Kept, Active
<1>2. ClockInv /\ ClockTypeOK' /\ [ClockNext]_vars => ClockInv'
  <2> SUFFICES ASSUME ClockInv, ClockTypeOK', [ClockNext]_vars PROVE ClockInv'
    OBVIOUS
  <2>1. ClockOK
    BY DEF ClockOK, ClockInv
  <2>2. CASE ClockNext
    <3>1. Bookkeeping' /\ Faultless' /\ \A w \in Workers : (Kept(w) => InTime(w))'
      BY <2>1, <2>2, BookkeepingKept, FaultlessKept, KeepersAreInTime
    <3> QED
      BY <3>1 DEF ClockInv
  <2>3. CASE UNCHANGED vars
    BY <2>3 DEF vars, keyVars, mainVars, threadVars, faultVars, ClockInv, Bookkeeping, Faultless,
       Kept, Active, InTime, RenewsLast, Renews, Running
  <2> QED
    BY <2>2, <2>3
<1> QED
  BY <1>1, <1>2, ClockTypeCorrect, PTL DEF ClockSpec

(* With no pause and no dead heartbeat at most one worker is between acquire *)
(* and release (worker.py:60-124, lease_store.py:27-48).                     *)
THEOREM OneHolderAlways == ClockSpec => []OneHolder
<1>1. ClockInv => OneHolder
  BY DEF ClockInv, Faultless, OneHolder
<1> QED
  BY <1>1, ClockInvHolds, PTL

(* A lease that is kept alive never expires; only a release takes it away    *)
(* (lease_store.py:34-48).                                                   *)
THEOREM KeptLeasesAlwaysStay == ClockSpec => KeptLeasesStay
<1> DEFINE Stays == \A v \in Workers :
        Active(v) /\ v \notin late /\ holder = v /\ holder' # v
          => \E w \in own \cup {v} : main[w] = "delete" /\ main'[w] = "idle"
<1>1. ClockInv /\ ClockTypeOK' /\ [ClockNext]_vars => [Stays]_vars
  <2> SUFFICES ASSUME ClockInv, ClockTypeOK', ClockNext,
                      NEW v \in Workers, Kept(v), holder' # v
               PROVE  \E w \in own \cup {v} : main[w] = "delete" /\ main'[w] = "idle"
    BY DEF Kept
  <2>1. ClockOK
    BY DEF ClockOK, ClockInv
  <2>2. ~Tick
    BY <2>1, TickKeeps
  <2>3. ASSUME NEW w \in Workers, AcquireKey(w) PROVE FALSE
    BY <2>3, LeaseClockAssumption DEF AcquireKey, Kept
  <2>4. ASSUME NEW w \in Workers, ReleaseDelete(w)
        PROVE  w \in own /\ main[w] = "delete" /\ main'[w] = "idle"
    BY <2>4 DEF ReleaseDelete, Returns, MainAt, MainTo, ClockInv, ClockTypeOK, Bookkeeping
  <2>5. \E w \in Workers : ReleaseDelete(w)
    <3>1. holder' # holder
      BY DEF Kept
    <3> QED
      BY <2>2, <2>3, <3>1
         DEF ClockNext, MainStep, ThreadStep, StopHeartbeat, StartHeartbeat, ReleaseGet,
             Pause, Resume, Crash, ReleaseFails, Wake, RenewGet, RenewExpire, HeartbeatDies,
             keyVars
  <2> QED
    BY <2>4, <2>5
<1> QED
  BY <1>1, ClockInvHolds, ClockTypeCorrect, PTL DEF ClockSpec, KeptLeasesStay

(* A worker that has lost its lease while it works does not get it back:     *)
(* only SET NX writes an id into the key, and a worker that works is past    *)
(* its SET (lease_store.py:27-41).                                           *)
THEOREM LostStaysLost == ClockSpec => LostIsLost
<1> DEFINE Lost == \A w \in Workers : Active(w) /\ Active(w)' /\ holder # w => holder' # w
<1>1. ClockTypeOK /\ [ClockNext]_vars => [Lost]_vars
  <2> SUFFICES ASSUME ClockTypeOK, ClockNext,
                      NEW w \in Workers, Active(w), holder # w
               PROVE  holder' # w
    OBVIOUS
  <2>1. ASSUME NEW v \in Workers, AcquireKey(v) PROVE holder' # w
    <3>1. main[v] = "idle" /\ holder' = v
      BY <2>1 DEF AcquireKey, MainAt, SetKey
    <3> QED BY <3>1 DEF Active
  <2>2. ASSUME \A v \in Workers : ~AcquireKey(v) PROVE holder' \in {holder, NoHolder}
    BY <2>2 DEF ClockNext, MainStep, ThreadStep, Tick, StopHeartbeat, StartHeartbeat,
                ReleaseGet, ReleaseDelete, Pause, Resume, Crash, ReleaseFails, Wake,
                RenewGet, RenewExpire, HeartbeatDies, keyVars
  <2> QED BY <2>1, <2>2, LeaseClockAssumption
<1> QED
  BY <1>1, ClockTypeCorrect, PTL DEF ClockSpec, LostIsLost
-----------------------------------------------------------------------------
(* The lease without its clock: what a step does to the key, to the place of *)
(* one worker and to those who keep the key alive.                           *)

Places  == [w \in Workers |-> Place(w)]
Keepers == {w \in Workers : Active(w) /\ w \notin late}
KeyView == [j \in {"job"} |-> holder]
PlaceView == [j \in {"job"} |-> Places]
KeepersView == [j \in {"job"} |-> Keepers]

Puts(w, place) == Places' = [Places EXCEPT ![w] = place]

LEMMA LeaseOfOne ==
    ASSUME NEW w \in Workers
    PROVE  /\ /\ Places[w] = "away" /\ holder = NoHolder
              /\ Puts(w, "works") /\ holder' = w /\ Keepers' = Keepers \cup {w}
              => Lease!Next
           /\ /\ Places[w] = "works" /\ holder = w
              /\ Puts(w, "deletes") /\ UNCHANGED <<holder, Keepers>>
              => Lease!Next
           /\ /\ Places[w] = "deletes"
              /\ Puts(w, "away") /\ holder' = NoHolder /\ Keepers' = Keepers \ {w}
              => Lease!Next
           /\ /\ Places[w] # "away"
              /\ Puts(w, "away") /\ holder' = holder /\ Keepers' = Keepers \ {w}
              => Lease!Next
           /\ /\ Keepers' = Keepers \ {w} /\ UNCHANGED <<holder, Places>>
              => Lease!Next
           /\ /\ holder # NoHolder /\ holder \notin Keepers
              /\ holder' = NoHolder /\ UNCHANGED <<Places, Keepers>>
              => Lease!Next
<1> USE DEF Places, Keepers, Puts
<1>1. ASSUME Places[w] = "away", holder = NoHolder, Puts(w, "works"), holder' = w,
             Keepers' = Keepers \cup {w}
      PROVE  Lease!Take(w, "job")
  BY <1>1 DEF Lease!Take, Lease!Goto, Lease!Set, Lease!Keep
<1>2. ASSUME Places[w] = "works", holder = w, Puts(w, "deletes"), UNCHANGED <<holder, Keepers>>
      PROVE  Lease!Find(w, "job")
  BY <1>2 DEF Lease!Find, Lease!Goto
<1>3. ASSUME Places[w] = "deletes", Puts(w, "away"), holder' = NoHolder,
             Keepers' = Keepers \ {w}
      PROVE  Lease!Delete(w, "job")
  BY <1>3 DEF Lease!Delete, Lease!Goto, Lease!Set, Lease!Drop
<1>4. ASSUME Places[w] # "away", Puts(w, "away"), holder' = holder, Keepers' = Keepers \ {w}
      PROVE  Lease!Leave(w, "job")
  BY <1>4 DEF Lease!Leave, Lease!Goto, Lease!Drop
<1>5. ASSUME Keepers' = Keepers \ {w}, UNCHANGED <<holder, Places>>
      PROVE  Lease!LetGo(w, "job")
  BY <1>5 DEF Lease!LetGo, Lease!Drop
<1>6. ASSUME holder # NoHolder, holder \notin Keepers, holder' = NoHolder,
             UNCHANGED <<Places, Keepers>>
      PROVE  Lease!Expire("job")
  BY <1>6 DEF Lease!Expire, Lease!Set
<1> QED
  BY <1>1, <1>2, <1>3, <1>4, <1>5, <1>6 DEF Lease!Next

(* Whatever the clock and the heartbeats do, the lease is one that only ends *)
(* by itself when nobody keeps it alive, and is only taken away by a worker  *)
(* that had found its own id in it (lease_store.py:27-48, worker.py:16-31).  *)
THEOREM ClockLeaseIsKept == ClockSpec => ClockImplementsLease
<1> USE DEF ClockTypeOK, Active, Place, Places, Keepers, Puts, MainAt, MainTo
<1>1. ClockInit => Lease!Init
  BY DEF ClockInit, Lease!Init
<1>2. ASSUME ClockInv, ClockTypeOK', ClockNext
      PROVE  Lease!Next \/ UNCHANGED <<holder, Places, Keepers>>
  <2>0. ClockTypeOK /\ Bookkeeping
    BY <1>2 DEF ClockInv
  <2>1. CASE Tick
    <3>1. UNCHANGED <<Places, Keepers>>
      BY <2>1 DEF Tick, faultVars
    <3>2. CASE holder' = holder
      BY <3>1, <3>2
    <3>3. CASE holder' # holder
      <4>1. holder' = NoHolder
        BY <2>1, <3>3 DEF Tick
      <4>2. holder \in Workers
        BY <2>0, <3>3, <4>1
      <4>3. ~Kept(holder)
        BY <1>2, <2>1, <3>3, <4>2, TickKeeps DEF ClockOK, ClockInv
      <4>4. holder # NoHolder /\ holder \notin Keepers
        BY <3>3, <4>1, <4>3 DEF Kept
      <4> QED BY <3>1, <4>1, <4>2, <4>4, LeaseOfOne
    <3> QED BY <3>2, <3>3
  <2>2. ASSUME NEW w \in Workers, AcquireKey(w) PROVE Lease!Next
    <3>1. w \notin late
      BY <2>0, <2>2 DEF AcquireKey, Bookkeeping
    <3>2. /\ Places[w] = "away" /\ holder = NoHolder /\ holder' = w /\ Puts(w, "works")
          /\ Keepers' = Keepers \cup {w}
      BY <2>0, <2>2, <3>1 DEF AcquireKey, SetKey, faultVars
    <3> QED BY <3>2, LeaseOfOne
  <2>3. ASSUME NEW w \in Workers, StartHeartbeat(w) \/ StopHeartbeat(w)
        PROVE  UNCHANGED <<holder, Places, Keepers>>
    BY <2>0, <2>3 DEF StartHeartbeat, StopHeartbeat, keyVars, faultVars
  <2>4. ASSUME NEW w \in Workers, main[w] # "idle", Returns(w) PROVE
        Places[w] # "away" /\ Puts(w, "away") /\ Keepers' = Keepers \ {w}
    BY <2>0, <2>4 DEF Returns
  <2>5. ASSUME NEW w \in Workers, ReleaseGet(w) PROVE Lease!Next
    <3>1. CASE holder = w
      <4>1. /\ Places[w] = "works" /\ Puts(w, "deletes")
            /\ UNCHANGED <<holder, Keepers>>
        BY <2>0, <2>5, <3>1 DEF ReleaseGet, Finds, keyVars
      <4> QED BY <3>1, <4>1, LeaseOfOne
    <3>2. CASE holder # w
      <4>1. main[w] # "idle" /\ Returns(w) /\ holder' = holder
        BY <2>5, <3>2 DEF ReleaseGet, keyVars
      <4> QED BY <2>4, <4>1, LeaseOfOne
    <3> QED BY <3>1, <3>2
  <2>6. ASSUME NEW w \in Workers, ReleaseDelete(w) PROVE Lease!Next
    <3>1. /\ main[w] = "delete" /\ Returns(w) /\ holder' = NoHolder
          /\ Places[w] = "deletes"
      BY <2>6 DEF ReleaseDelete
    <3> QED BY <2>4, <3>1, LeaseOfOne
  <2>7. ASSUME NEW w \in Workers, Crash(w) \/ ReleaseFails(w) PROVE Lease!Next
    <3>1. main[w] # "idle" /\ Returns(w) /\ holder' = holder
      BY <2>7 DEF Crash, ReleaseFails, keyVars
    <3> QED BY <2>4, <3>1, LeaseOfOne
  <2>8. ASSUME NEW w \in Workers, UNCHANGED <<holder, main>>,
               late' = IF Active(w) THEN late \cup {w} ELSE late
        PROVE  Lease!Next \/ UNCHANGED <<holder, Places, Keepers>>
    <3>1. UNCHANGED Places
      BY <2>8
    <3>2. Keepers' = Keepers \ {w}
      BY <2>8
    <3> QED BY <2>8, <3>1, <3>2, LeaseOfOne
  <2>9. ASSUME NEW w \in Workers, Pause(w)
        PROVE  Lease!Next \/ UNCHANGED <<holder, Places, Keepers>>
    BY <2>8, <2>9 DEF Pause, keyVars, mainVars
  <2>10. ASSUME NEW t \in Threads, HeartbeatDies(t)
         PROVE  Lease!Next \/ UNCHANGED <<holder, Places, Keepers>>
    <3>1. owner[t] \in Workers
      BY <2>0, <2>10 DEF HeartbeatDies
    <3> QED BY <2>8, <2>10, <3>1 DEF HeartbeatDies, keyVars
  <2>11. ASSUME NEW w \in Workers, Resume(w) PROVE UNCHANGED <<holder, Places, Keepers>>
    BY <2>11 DEF Resume, keyVars, mainVars
  <2>12. ASSUME NEW t \in Threads, ThreadStep(t) PROVE UNCHANGED <<holder, Places, Keepers>>
    BY <2>12 DEF ThreadStep, Wake, RenewGet, RenewExpire, keyVars, mainVars, faultVars
  <2> QED
    BY <1>2, <2>1, <2>2, <2>3, <2>5, <2>6, <2>7, <2>9, <2>10, <2>11, <2>12
       DEF ClockNext, MainStep
<1>3. ClockInv /\ ClockTypeOK' /\ [ClockNext]_vars
          => [Lease!Next]_<<KeyView, PlaceView, KeepersView>>
  <2> SUFFICES ASSUME ClockInv, ClockTypeOK', [ClockNext]_vars
               PROVE  Lease!Next \/ UNCHANGED <<holder, Places, Keepers>>
    BY DEF KeyView, PlaceView, KeepersView
  <2> QED
    BY <1>2 DEF vars, keyVars, mainVars, faultVars
<1> QED
  BY <1>1, <1>3, ClockInvHolds, ClockTypeCorrect, PTL
     DEF ClockSpec, ClockImplementsLease, Lease!Spec, Lease!leaseVars, KeyView, PlaceView,
         KeepersView
=============================================================================
