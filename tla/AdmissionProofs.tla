--------------------------- MODULE AdmissionProofs ---------------------------
(* Theorems about Admission, for any tenants, threads, keys, sizes and times.*)
EXTENDS Admission, FiniteSetTheorems, TLAPS

-----------------------------------------------------------------------------
(* The windows of the clock *)

LEMMA WindowOf ==
    ASSUME NEW t \in Nat
    PROVE  /\ t \div Window \in Nat
           /\ Window * (t \div Window) <= t
           /\ t < Window * (t \div Window) + Window
BY AdmissionAssumption

LEMMA WindowsFollow ==
    ASSUME NEW v \in Nat, NEW w \in Nat, v < w
    PROVE  Window * v + Window <= Window * w
<1>1. w - v - 1 \in Nat
  OBVIOUS
<1>2. Window * (w - v - 1) >= 0
  BY <1>1, AdmissionAssumption
<1>3. Window * (w - v - 1) = Window * w - Window * v - Window
  BY AdmissionAssumption
<1> QED BY <1>2, <1>3, AdmissionAssumption

LEMMA WindowsGrow ==
    ASSUME NEW s \in Nat, NEW t \in Nat, s <= t
    PROVE  s \div Window <= t \div Window
<1> DEFINE v == s \div Window  w == t \div Window
<1>1. v \in Nat /\ w \in Nat /\ Window * v <= s /\ t < Window * w + Window
  BY WindowOf
<1> HIDE DEF v, w
<1>2. ASSUME w < v PROVE FALSE
  BY <1>1, <1>2, WindowsFollow, AdmissionAssumption
<1> QED BY <1>1, <1>2 DEF v, w

LEMMA ThisIsAWindow ==
    ASSUME clock \in 0..MaxTime
    PROVE  ThisWindow \in Windows /\ Windows \subseteq Nat
<1>1. clock \in Nat /\ MaxTime \in Nat /\ clock <= MaxTime
  BY AdmissionAssumption
<1> QED BY <1>1, WindowOf, WindowsGrow DEF ThisWindow, Windows

(* A counter that is set to expire now outlives every window up to this one. *)
LEMMA OutlivesWindow ==
    ASSUME clock \in 0..MaxTime, NEW w \in Windows, w <= ThisWindow
    PROVE  Window * w + Window <= clock + Window
<1>1. clock \in Nat /\ ThisWindow \in Nat /\ Window * ThisWindow <= clock
  BY AdmissionAssumption, WindowOf DEF ThisWindow
<1>2. w \in Nat
  BY AdmissionAssumption, WindowOf DEF Windows
<1>3. Window * w <= Window * ThisWindow
  <2>1. CASE w = ThisWindow
    BY <1>1, <2>1, AdmissionAssumption
  <2>2. CASE w < ThisWindow
    BY <1>1, <1>2, <2>2, WindowsFollow, AdmissionAssumption
  <2> QED BY <1>1, <1>2, <2>1, <2>2
<1> QED BY <1>1, <1>2, <1>3, AdmissionAssumption

-----------------------------------------------------------------------------
(* Types *)

Points == {"idle", "clock", "incr", "expire", "lookup", "quota", "flush", "commit",
           "conflict", "reply"}

RequestTypeOK ==
    /\ cpc \in [Clients -> Points]
    /\ key \in [Clients -> Keys \cup {NoKey}]
    /\ ids \in [Clients -> SUBSET Ids]
    /\ bucket \in [Clients -> Windows]

RowTypeOK ==
    /\ rows \in [Ids -> {"absent", "active", "ended"}]
    /\ keyOf \in [Ids -> Keys \cup {NoKey}]
    /\ named \in [Keys -> SUBSET Ids]
    /\ back \subseteq Ids

RateTypeOK ==
    /\ clock \in 0..MaxTime
    /\ count \in [Windows -> 0..(Limit + 1)]
    /\ expiry \in [Windows -> 0..Never]
    /\ fresh \in [Windows -> Nat] /\ stale \in [Windows -> Nat]

BudgetTypeOK ==
    /\ tenant \in Tenants
    /\ faults \in 0..MaxFaults

LEMMA TypesApart ==
    AdmissionTypeOK <=> RequestTypeOK /\ RowTypeOK /\ RateTypeOK /\ BudgetTypeOK
BY DEF AdmissionTypeOK, RequestTypeOK, RowTypeOK, RateTypeOK, BudgetTypeOK, Points

LEMMA TypesTogether ==
    RequestTypeOK' /\ RowTypeOK' /\ RateTypeOK' /\ BudgetTypeOK' => AdmissionTypeOK'
BY DEF AdmissionTypeOK, RequestTypeOK, RowTypeOK, RateTypeOK, BudgetTypeOK, Points

LEMMA LimitTyped == ASSUME BudgetTypeOK PROVE Limit \in Nat /\ Quota \in Nat
BY AdmissionAssumption DEF BudgetTypeOK, Limit, Quota

LEMMA FirstWindow == 0 \in Windows /\ Windows \subseteq Nat
<1>1. MaxTime \in Nat /\ 0 \in Nat
  BY AdmissionAssumption
<1> QED BY <1>1, WindowOf DEF Windows

LEMMA LeaveTyped ==
    ASSUME RequestTypeOK, NEW c \in Clients, Leave(c) PROVE RequestTypeOK'
BY FirstWindow DEF RequestTypeOK, Leave, Goto, Points

LEMMA AnswerTyped ==
    ASSUME RequestTypeOK, RowTypeOK, NEW c \in Clients, NEW jobs \in SUBSET Ids, Answer(c, jobs)
    PROVE  RequestTypeOK' /\ RowTypeOK'
<1>1. RequestTypeOK'
  BY LeaveTyped DEF Answer
<1>2. RowTypeOK'
  BY DEF Answer, RowTypeOK, RequestTypeOK
<1> QED BY <1>1, <1>2

LEMMA IncrTyped ==
    ASSUME AdmissionTypeOK, NEW c \in Clients, Incr(c), UNCHANGED tenant
    PROVE  AdmissionTypeOK'
<1>1. RequestTypeOK /\ RowTypeOK /\ RateTypeOK /\ BudgetTypeOK /\ Limit \in Nat /\ Limit' = Limit
  BY TypesApart, LimitTyped DEF Limit
<1> DEFINE b == bucket[c]
<1>2. b \in Windows
  BY <1>1 DEF RequestTypeOK
<1>3. count' \in [Windows -> 0..(Limit + 1)]
  BY <1>1, <1>2 DEF Incr, CountUp, RateTypeOK
<1>4. ThisWindow \in Windows
  BY <1>1, ThisIsAWindow DEF RateTypeOK
<1>5. fresh' \in [Windows -> Nat] /\ stale' \in [Windows -> Nat]
  <2>1. CASE LetThrough(c)
    BY <1>1, <1>4, <2>1 DEF LetThrough, RateTypeOK
  <2>2. CASE UNCHANGED <<fresh, stale>>
    BY <1>1, <2>2 DEF RateTypeOK
  <2> QED BY <2>1, <2>2 DEF Incr
<1>6. RateTypeOK'
  BY <1>1, <1>3, <1>5 DEF Incr, RateTypeOK, Never
<1>7. RequestTypeOK'
  <2>1. CASE Leave(c)
    BY <1>1, <2>1, LeaveTyped
  <2>2. CASE UNCHANGED <<key, ids, bucket>> /\ (Goto(c, "expire") \/ Goto(c, "lookup"))
    BY <1>1, <2>2 DEF RequestTypeOK, Goto, Points
  <2> QED BY <2>1, <2>2 DEF Incr
<1>8. RowTypeOK' /\ BudgetTypeOK'
  BY <1>1 DEF Incr, RowTypeOK, BudgetTypeOK, jobVars
<1> QED BY <1>6, <1>7, <1>8, TypesTogether

LEMMA ServeTyped ==
    ASSUME AdmissionTypeOK, NEW c \in Clients,
           Serve(c) \/ Request(c) \/ LimitSkipped(c) \/ CommitRefused(c) \/ RequestCutOff(c),
           UNCHANGED tenant
    PROVE  AdmissionTypeOK'
<1>1. RequestTypeOK /\ RowTypeOK /\ RateTypeOK /\ BudgetTypeOK /\ Limit \in Nat /\ Limit' = Limit
  BY TypesApart, LimitTyped DEF Limit
<1>2. RequestTypeOK' /\ RowTypeOK' /\ RateTypeOK' /\ BudgetTypeOK' => AdmissionTypeOK'
  BY TypesTogether
<1> DEFINE Elsewhere == UNCHANGED <<clock, count, expiry, fresh, stale, tenant>>
                        /\ faults' \in 0..MaxFaults
<1>3. Elsewhere => RateTypeOK' /\ BudgetTypeOK'
  BY <1>1 DEF RateTypeOK, BudgetTypeOK, Never
<1>4. \A k : Committed(k) \subseteq Ids
  BY DEF Committed
<1> USE AdmissionAssumption DEF limitVars, jobVars
<1>5. CASE Request(c)
  <2>1. \A n : NewIds(n) \subseteq Ids
    BY DEF NewIds
  <2>2. RequestTypeOK'
    BY <1>1, <1>5, <2>1 DEF Request, RequestTypeOK, Goto, Points
  <2> QED BY <1>1, <1>2, <1>3, <1>5, <2>2 DEF Request, RowTypeOK, BudgetTypeOK
<1>6. CASE ReadClock(c)
  <2>1. ThisWindow \in Windows
    BY <1>1, ThisIsAWindow DEF RateTypeOK
  <2>2. RequestTypeOK'
    BY <1>1, <1>6, <2>1 DEF ReadClock, RequestTypeOK, Goto, Points
  <2> QED BY <1>1, <1>2, <1>3, <1>6, <2>2 DEF ReadClock, RowTypeOK, BudgetTypeOK
<1>7. CASE Incr(c)
  BY <1>7, IncrTyped
<1>8. CASE SetExpiry(c)
  <2>1. clock + Window \in 0..Never
    BY <1>1 DEF RateTypeOK, Never
  <2>2. RateTypeOK'
    BY <1>1, <1>8, <2>1 DEF SetExpiry, RateTypeOK, Never
  <2>3. RequestTypeOK'
    BY <1>1, <1>8 DEF SetExpiry, RequestTypeOK, Goto, Points
  <2> QED BY <1>1, <1>2, <1>8, <2>2, <2>3 DEF SetExpiry, RowTypeOK, BudgetTypeOK
<1>9. CASE LimitSkipped(c) \/ CommitRefused(c) \/ Flush(c)
  <2>1. RequestTypeOK'
    BY <1>1, <1>9 DEF LimitSkipped, CommitRefused, Flush, RequestTypeOK, Goto, Points
  <2>2. RowTypeOK' /\ Elsewhere
    BY <1>1, <1>9 DEF LimitSkipped, CommitRefused, Flush, RowTypeOK, BudgetTypeOK
  <2> QED BY <1>2, <1>3, <2>1, <2>2
<1>10. CASE LookupKey(c) \/ ResolveConflict(c) \/ Reply(c)
  <2>1. CASE \E jobs \in SUBSET Ids : Answer(c, jobs)
    BY <1>1, <1>2, <1>3, <2>1, AnswerTyped DEF Answer, BudgetTypeOK
  <2>2. CASE /\ UNCHANGED <<jobVars, count, expiry, fresh, stale, clock, faults>>
             /\ Leave(c)
    BY <1>1, <1>2, <1>3, <2>2, LeaveTyped DEF RowTypeOK, BudgetTypeOK
  <2>3. CASE /\ UNCHANGED <<key, ids, limitVars, jobVars, clock, faults>>
             /\ Goto(c, "quota")
    <3>1. RequestTypeOK'
      BY <1>1, <2>3 DEF RequestTypeOK, Goto, Points
    <3> QED BY <1>1, <1>2, <1>3, <2>3, <3>1 DEF RowTypeOK, BudgetTypeOK
  <2>4. ids[c] \subseteq Ids
    BY <1>1 DEF RequestTypeOK
  <2> QED BY <1>4, <1>10, <2>1, <2>2, <2>3, <2>4 DEF LookupKey, ResolveConflict, Reply
<1>11. CASE CheckQuota(c) \/ RequestCutOff(c)
  <2>1. RowTypeOK' /\ Elsewhere
    BY <1>1, <1>11 DEF CheckQuota, RequestCutOff, RowTypeOK, BudgetTypeOK
  <2>2. CASE Leave(c)
    BY <1>1, <1>2, <1>3, <2>1, <2>2, LeaveTyped
  <2>3. CASE Goto(c, "flush") /\ UNCHANGED <<key, ids, limitVars>>
    <3>1. RequestTypeOK'
      BY <1>1, <2>3 DEF RequestTypeOK, Goto, Points
    <3> QED BY <1>2, <1>3, <2>1, <3>1
  <2> QED BY <1>11, <2>2, <2>3 DEF CheckQuota, RequestCutOff
<1>12. CASE Commit(c)
  <2>1. RequestTypeOK' /\ RowTypeOK'
    BY <1>1, <1>12 DEF Commit, RequestTypeOK, RowTypeOK, Goto, Points
  <2> QED BY <1>1, <1>2, <1>3, <1>12, <2>1 DEF Commit, BudgetTypeOK
<1> QED
  BY <1>5, <1>6, <1>7, <1>8, <1>9, <1>10, <1>11, <1>12 DEF Serve

LEMMA JobsTyped ==
    ASSUME AdmissionTypeOK, JobEnds \/ JobRetried \/ JobRevived \/ Tick, UNCHANGED tenant
    PROVE  AdmissionTypeOK'
<1>1. RequestTypeOK /\ RowTypeOK /\ RateTypeOK /\ BudgetTypeOK /\ Limit \in Nat /\ Limit' = Limit
  BY TypesApart, LimitTyped DEF Limit
<1> USE AdmissionAssumption DEF limitVars, jobVars, requestVars, Never
<1>2. RequestTypeOK'
  BY <1>1 DEF RequestTypeOK, JobEnds, JobRetried, JobRevived, ComesBack, Tick
<1>3. RowTypeOK' /\ BudgetTypeOK'
  BY <1>1 DEF RowTypeOK, BudgetTypeOK, JobEnds, JobRetried, JobRevived, ComesBack, Tick, Active
<1>4. RateTypeOK'
  <2>1. CASE Tick
    BY <1>1, <2>1 DEF RateTypeOK, Tick
  <2>2. CASE JobEnds \/ JobRetried \/ JobRevived
    BY <1>1, <2>2 DEF RateTypeOK, JobEnds, JobRetried, JobRevived, ComesBack
  <2> QED BY <2>1, <2>2
<1> QED BY <1>2, <1>3, <1>4, TypesTogether

LEMMA StillTyped ==
    ASSUME AdmissionTypeOK, UNCHANGED vars PROVE AdmissionTypeOK'
BY DEF AdmissionTypeOK, vars, requestVars, jobVars, limitVars, Limit, Never

LEMMA NextTyped ==
    ASSUME AdmissionTypeOK, [AdmissionNext]_vars PROVE AdmissionTypeOK'
BY ServeTyped, JobsTyped, StillTyped DEF AdmissionNext

LEMMA InitTyped == AdmissionInit => AdmissionTypeOK
<1> SUFFICES ASSUME AdmissionInit PROVE AdmissionTypeOK
  OBVIOUS
<1>1. tenant \in Tenants /\ Limit \in Nat
  BY AdmissionAssumption DEF AdmissionInit, Limit
<1>2. RequestTypeOK
  BY FirstWindow DEF AdmissionInit, RequestTypeOK, Points
<1>3. RowTypeOK
  BY DEF AdmissionInit, RowTypeOK
<1>4. RateTypeOK /\ BudgetTypeOK
  BY <1>1, AdmissionAssumption DEF AdmissionInit, RateTypeOK, BudgetTypeOK, Never
<1> QED BY <1>2, <1>3, <1>4, TypesApart

(* Admission is well typed.                                                  *)
THEOREM AdmissionTypeCorrect == AdmissionSpec => []AdmissionTypeOK
BY InitTyped, NextTyped, PTL DEF AdmissionSpec

-----------------------------------------------------------------------------
(* One job for each key *)

(* New ids belong to one request, and have no row until it has committed.    *)
IdsAreOwn ==
    /\ \A c, d \in Clients : c # d => ids[c] \cap ids[d] = {}
    /\ \A c \in Clients : cpc[c] # "reply" => \A j \in ids[c] : rows[j] = "absent"
    /\ \A c \in Clients :
           cpc[c] = "reply" => \A j \in ids[c] : rows[j] # "absent" /\ keyOf[j] = key[c]

(* A request with a key has one id; while it holds the key in its            *)
(* transaction, no row and no other transaction has it.                      *)
KeysAreFree ==
    /\ \A c \in Clients : key[c] # NoKey => \A i, j \in ids[c] : i = j
    /\ \A c \in Clients : cpc[c] = "commit" /\ key[c] # NoKey =>
           /\ Committed(key[c]) = {}
           /\ \A d \in Clients \ {c} : ~(cpc[d] = "commit" /\ key[d] = key[c])

KeyInv == RequestTypeOK /\ RowTypeOK /\ IdsAreOwn /\ KeysAreFree /\ OneJobPerKey

RowsStay == keyOf' = keyOf /\ \A j \in Ids : rows'[j] = "absent" <=> rows[j] = "absent"

LEMMA CommittedStays == ASSUME RowsStay PROVE \A k : Committed(k)' = Committed(k)
BY DEF RowsStay, Committed

LEMMA RequestLeaves ==
    ASSUME KeyInv, NEW c \in Clients, Leave(c), UNCHANGED <<rows, keyOf>>,
           RequestTypeOK', RowTypeOK', OneJobPerKey'
    PROVE  KeyInv'
<1>1. \A k : Committed(k)' = Committed(k)
  BY DEF Committed
<1>2. IdsAreOwn'
  BY DEF KeyInv, IdsAreOwn, Leave, Goto, RequestTypeOK
<1>3. KeysAreFree'
  <2>1. key'[c] = NoKey /\ cpc'[c] = "idle"
    BY DEF KeyInv, RequestTypeOK, Leave, Goto
  <2>2. \A d \in Clients \ {c} : key'[d] = key[d] /\ cpc'[d] = cpc[d] /\ ids'[d] = ids[d]
    BY DEF KeyInv, RequestTypeOK, Leave, Goto
  <2> QED BY <1>1, <2>1, <2>2 DEF KeyInv, KeysAreFree
<1> QED BY <1>2, <1>3 DEF KeyInv

LEMMA RequestAnswered ==
    ASSUME KeyInv, NEW c \in Clients, NEW jobs \in SUBSET Ids, Answer(c, jobs),
           key[c] # NoKey => jobs \subseteq Committed(key[c]),
           RequestTypeOK', RowTypeOK'
    PROVE  KeyInv'
<1>1. \A k : Committed(k)' = Committed(k)
  BY DEF Committed, Answer
<1>2. OneJobPerKey'
  BY <1>1 DEF KeyInv, OneJobPerKey, Answer, RowTypeOK, RequestTypeOK
<1> QED BY <1>2, RequestLeaves DEF Answer

(* Calls that neither open nor end a transaction.                            *)
LEMMA RequestMoves ==
    ASSUME KeyInv, NEW c \in Clients, NEW p, Goto(c, p), p \notin {"commit", "reply"},
           cpc[c] # "reply", UNCHANGED <<key, ids, rows, keyOf, named>>,
           RequestTypeOK', RowTypeOK'
    PROVE  KeyInv'
<1>1. \A k : Committed(k)' = Committed(k)
  BY DEF Committed
<1>2. cpc' = [cpc EXCEPT ![c] = p] /\ cpc \in [Clients -> Points]
  BY DEF Goto, KeyInv, RequestTypeOK
<1>3. IdsAreOwn'
  BY <1>2 DEF KeyInv, IdsAreOwn
<1>4. KeysAreFree'
  BY <1>1, <1>2 DEF KeyInv, KeysAreFree
<1>5. OneJobPerKey'
  BY <1>1 DEF KeyInv, OneJobPerKey
<1> QED BY <1>3, <1>4, <1>5 DEF KeyInv

LEMMA RequestArrives ==
    ASSUME KeyInv, NEW c \in Clients, Request(c), RequestTypeOK', RowTypeOK'
    PROVE  KeyInv'
<1>1. PICK n \in Sizes, k \in Keys \cup {NoKey} :
          /\ n > 1 => k = NoKey
          /\ Cardinality(NewIds(n)) = n
          /\ key' = [key EXCEPT ![c] = k]
          /\ ids' = [ids EXCEPT ![c] = NewIds(n)]
  BY DEF Request
<1>2. /\ cpc' = [cpc EXCEPT ![c] = "clock"] /\ cpc[c] = "idle"
      /\ UNCHANGED <<rows, keyOf, named>>
  BY DEF Request, Goto, jobVars
<1>3. \A j : Committed(j)' = Committed(j)
  BY <1>2 DEF Committed
<1>4. NewIds(n) \subseteq {j \in Ids : rows[j] = "absent" /\ \A d \in Clients : j \notin ids[d]}
  BY DEF NewIds
<1>5. k # NoKey => \A i, j \in NewIds(n) : i = j
  <2> SUFFICES ASSUME k # NoKey PROVE \A i, j \in NewIds(n) : i = j
    OBVIOUS
  <2>1. Cardinality(NewIds(n)) = 1
    BY <1>1, AdmissionAssumption
  <2>2. IsFiniteSet(NewIds(n))
    <3>1. IsFiniteSet(Ids)
      BY FS_Interval, AdmissionAssumption DEF Ids
    <3> QED BY <1>4, <3>1, FS_Subset
  <2>3. PICK x : NewIds(n) = {x}
    BY <2>1, <2>2, FS_Singleton
  <2> QED BY <2>3
<1>6. IdsAreOwn'
  BY <1>1, <1>2, <1>4 DEF KeyInv, IdsAreOwn, RequestTypeOK
<1>7. KeysAreFree'
  <2>1. key'[c] = k /\ cpc'[c] = "clock" /\ ids'[c] = NewIds(n)
    BY <1>1, <1>2 DEF KeyInv, RequestTypeOK
  <2>2. \A d \in Clients \ {c} : key'[d] = key[d] /\ cpc'[d] = cpc[d] /\ ids'[d] = ids[d]
    BY <1>1, <1>2 DEF KeyInv, RequestTypeOK
  <2> QED BY <1>3, <1>5, <2>1, <2>2 DEF KeyInv, KeysAreFree
<1>8. OneJobPerKey'
  BY <1>2, <1>3 DEF KeyInv, OneJobPerKey
<1> QED BY <1>6, <1>7, <1>8 DEF KeyInv

LEMMA RequestFlushes ==
    ASSUME KeyInv, NEW c \in Clients, Flush(c), RequestTypeOK', RowTypeOK'
    PROVE  KeyInv'
<1>1. \A k : Committed(k)' = Committed(k)
  BY DEF Committed, Flush, jobVars
<1>2. CASE Goto(c, "conflict")
  BY <1>2, RequestMoves DEF Flush, jobVars
<1>3. CASE Goto(c, "commit")
  <2>1. cpc' = [cpc EXCEPT ![c] = "commit"] /\ UNCHANGED <<key, ids, rows, keyOf, named>>
    BY <1>3 DEF Goto, Flush, jobVars
  <2>2. key[c] # NoKey => /\ Committed(key[c]) = {}
                          /\ \A d \in Clients \ {c} : ~(cpc[d] = "commit" /\ key[d] = key[c])
    BY <2>1 DEF Flush, Goto, KeyInv, RequestTypeOK
  <2>3. IdsAreOwn'
    BY <2>1 DEF KeyInv, IdsAreOwn, RequestTypeOK, Flush
  <2>4. KeysAreFree'
    BY <1>1, <2>1, <2>2 DEF KeyInv, KeysAreFree, RequestTypeOK
  <2>5. OneJobPerKey'
    BY <1>1, <2>1 DEF KeyInv, OneJobPerKey
  <2> QED BY <2>3, <2>4, <2>5 DEF KeyInv
<1> QED BY <1>2, <1>3 DEF Flush

LEMMA RequestCommits ==
    ASSUME KeyInv, NEW c \in Clients, Commit(c), RequestTypeOK', RowTypeOK'
    PROVE  KeyInv'
<1>1. /\ cpc' = [cpc EXCEPT ![c] = "reply"] /\ cpc[c] = "commit"
      /\ UNCHANGED <<key, ids, named>>
      /\ rows' = [j \in Ids |-> IF j \in ids[c] THEN "active" ELSE rows[j]]
      /\ keyOf' = [j \in Ids |-> IF j \in ids[c] THEN key[c] ELSE keyOf[j]]
  BY DEF Commit, Goto
<1>2. /\ cpc \in [Clients -> Points] /\ ids \in [Clients -> SUBSET Ids]
      /\ \A j \in ids[c] : rows[j] = "absent"
      /\ \A d \in Clients \ {c} : ids[d] \cap ids[c] = {}
  BY <1>1 DEF KeyInv, RequestTypeOK, IdsAreOwn
<1>3. \A k : k # key[c] => Committed(k)' = Committed(k)
  BY <1>1, <1>2 DEF Committed
<1>4. key[c] # NoKey => Committed(key[c])' = ids[c] /\ Committed(key[c]) = {}
  BY <1>1, <1>2 DEF Committed, KeyInv, KeysAreFree
<1>5. IdsAreOwn'
  <2>1. \A d \in Clients \ {c} : \A j \in ids[d] : rows'[j] = rows[j] /\ keyOf'[j] = keyOf[j]
    BY <1>1, <1>2
  <2>2. \A j \in ids[c] : rows'[j] # "absent" /\ keyOf'[j] = key[c]
    BY <1>1, <1>2
  <2> QED BY <1>1, <1>2, <2>1, <2>2 DEF KeyInv, IdsAreOwn
<1>6. KeysAreFree'
  <2>1. \A d \in Clients \ {c} : cpc'[d] = "commit" /\ key[d] # NoKey => key[d] # key[c]
    BY <1>1, <1>2 DEF KeyInv, KeysAreFree
  <2> QED BY <1>1, <1>2, <1>3, <2>1 DEF KeyInv, KeysAreFree
<1>7. OneJobPerKey'
  <2> SUFFICES ASSUME NEW k \in Keys
               PROVE  /\ \A i, j \in Committed(k)' : i = j
                      /\ named'[k] \subseteq Committed(k)'
    BY DEF OneJobPerKey
  <2>1. CASE k # key[c]
    BY <1>1, <1>3, <2>1 DEF KeyInv, OneJobPerKey
  <2>2. CASE k = key[c]
    <3>1. key[c] # NoKey
      BY <2>2, AdmissionAssumption
    <3> QED BY <1>1, <1>4, <2>2, <3>1 DEF KeyInv, KeysAreFree, OneJobPerKey
  <2> QED BY <2>1, <2>2
<1> QED BY <1>5, <1>6, <1>7 DEF KeyInv

LEMMA RowsAge ==
    ASSUME KeyInv, RowsStay, UNCHANGED <<requestVars, named>>, RequestTypeOK', RowTypeOK'
    PROVE  KeyInv'
<1>1. \A k : Committed(k)' = Committed(k)
  BY CommittedStays
<1>2. IdsAreOwn'
  BY DEF KeyInv, IdsAreOwn, RowsStay, requestVars, RequestTypeOK
<1>3. KeysAreFree' /\ OneJobPerKey'
  BY <1>1 DEF KeyInv, KeysAreFree, OneJobPerKey, requestVars
<1> QED BY <1>2, <1>3 DEF KeyInv

LEMMA KeyNextInv ==
    ASSUME AdmissionTypeOK, KeyInv, [AdmissionNext]_vars PROVE KeyInv'
<1>1. RequestTypeOK' /\ RowTypeOK'
  <2>1. AdmissionTypeOK'
    BY NextTyped
  <2> QED BY <2>1 DEF AdmissionTypeOK, RequestTypeOK, RowTypeOK, Points
<1>2. ASSUME NEW c \in Clients,
             Request(c) \/ Serve(c) \/ LimitSkipped(c) \/ CommitRefused(c) \/ RequestCutOff(c)
      PROVE  KeyInv'
  <2>1. CASE Request(c)
    BY <1>1, <2>1, RequestArrives
  <2>2. CASE ReadClock(c) \/ SetExpiry(c) \/ LimitSkipped(c) \/ CommitRefused(c)
    <3>1. cpc[c] # "reply" /\ UNCHANGED <<key, ids, rows, keyOf, named>>
      BY <2>2 DEF ReadClock, SetExpiry, LimitSkipped, CommitRefused, jobVars
    <3>2. \E p \in {"lookup", "incr", "conflict"} : Goto(c, p)
      BY <2>2 DEF ReadClock, SetExpiry, LimitSkipped, CommitRefused
    <3> QED BY <1>1, <3>1, <3>2, RequestMoves
  <2>3. CASE Incr(c) \/ CheckQuota(c) \/ RequestCutOff(c)
    <3>1. UNCHANGED <<rows, keyOf, named>>
      BY <2>3 DEF Incr, CheckQuota, RequestCutOff, jobVars
    <3>2. CASE Leave(c)
      <4>1. OneJobPerKey'
        BY <3>1 DEF KeyInv, OneJobPerKey, Committed
      <4> QED BY <1>1, <3>1, <3>2, <4>1, RequestLeaves
    <3>3. CASE ~Leave(c)
      <4>1. cpc[c] # "reply" /\ UNCHANGED <<key, ids>>
        BY <2>3, <3>3 DEF Incr, CheckQuota, RequestCutOff
      <4>2. \E p \in {"expire", "lookup", "flush"} : Goto(c, p)
        BY <2>3, <3>3 DEF Incr, CheckQuota, RequestCutOff
      <4> QED BY <1>1, <3>1, <4>1, <4>2, RequestMoves
    <3> QED BY <3>2, <3>3
  <2>4. CASE LookupKey(c) \/ ResolveConflict(c)
    <3>1. CASE Answer(c, Committed(key[c]))
      <4>1. Committed(key[c]) \subseteq Ids
        BY DEF Committed
      <4> QED BY <1>1, <3>1, <4>1, RequestAnswered
    <3>2. CASE Goto(c, "quota") /\ cpc[c] = "lookup" /\ UNCHANGED <<key, ids, jobVars>>
      BY <1>1, <3>2, RequestMoves DEF jobVars
    <3>3. CASE Leave(c) /\ UNCHANGED jobVars
      <4>1. OneJobPerKey'
        BY <3>3 DEF KeyInv, OneJobPerKey, Committed, jobVars
      <4> QED BY <1>1, <3>3, <4>1, RequestLeaves DEF jobVars
    <3> QED BY <2>4, <3>1, <3>2, <3>3 DEF LookupKey, ResolveConflict
  <2>5. CASE Flush(c)
    BY <1>1, <2>5, RequestFlushes
  <2>6. CASE Commit(c)
    BY <1>1, <2>6, RequestCommits
  <2>7. CASE Reply(c)
    <3>1. ids[c] \subseteq Committed(key[c]) /\ ids[c] \subseteq Ids
      BY <2>7 DEF Reply, KeyInv, IdsAreOwn, Committed, RequestTypeOK
    <3> QED BY <1>1, <2>7, <3>1, RequestAnswered DEF Reply
  <2> QED BY <1>2, <2>1, <2>2, <2>3, <2>4, <2>5, <2>6, <2>7 DEF Serve
<1>3. ASSUME JobEnds \/ JobRetried \/ JobRevived \/ Tick \/ UNCHANGED vars PROVE KeyInv'
  <2>1. UNCHANGED <<requestVars, named>>
    BY <1>3 DEF JobEnds, JobRetried, JobRevived, ComesBack, Tick, jobVars, vars
  <2>2. RowsStay
    BY <1>3 DEF JobEnds, JobRetried, JobRevived, ComesBack, Tick, jobVars, vars, RowsStay,
                Active, KeyInv, RowTypeOK
  <2> QED BY <1>1, <2>1, <2>2, RowsAge
<1> QED BY <1>2, <1>3 DEF AdmissionNext

LEMMA KeyInvariant == AdmissionSpec => []KeyInv
<1>1. AdmissionInit => KeyInv
  <2> SUFFICES ASSUME AdmissionInit PROVE KeyInv
    OBVIOUS
  <2>1. RequestTypeOK /\ RowTypeOK
    BY InitTyped, TypesApart
  <2>2. IdsAreOwn /\ KeysAreFree
    BY DEF AdmissionInit, IdsAreOwn, KeysAreFree
  <2>3. OneJobPerKey
    BY DEF AdmissionInit, OneJobPerKey, Committed
  <2> QED BY <2>1, <2>2, <2>3 DEF KeyInv
<1>2. AdmissionTypeOK /\ KeyInv /\ [AdmissionNext]_vars => KeyInv'
  BY KeyNextInv
<1> QED BY <1>1, <1>2, AdmissionTypeCorrect, PTL DEF AdmissionSpec

(* Every idempotency key names one job, for any number of requests that use  *)
(* it at once or again (job_manager.py:122-130, 180-189).                    *)
THEOREM KeysNameOneJob == AdmissionSpec => []OneJobPerKey
<1>1. KeyInv => OneJobPerKey
  BY DEF KeyInv
<1> QED BY <1>1, KeyInvariant, PTL

-----------------------------------------------------------------------------
(* The table that requests fill *)

Batch(S) == S \subseteq Ids /\ Cardinality(S) \in Sizes

(* A request keeps to the jobs that it asked for.                            *)
OneBatch == \A c \in Clients : cpc[c] # "idle" => Batch(ids[c])

LEMMA OneBatchStep ==
    ASSUME AdmissionTypeOK, OneBatch, [AdmissionNext]_vars
    PROVE  OneBatch'
<1>0. RequestTypeOK /\ RequestTypeOK'
  <2>1. AdmissionTypeOK'
    BY NextTyped
  <2> QED BY <2>1, TypesApart DEF AdmissionTypeOK, RequestTypeOK, Points
<1>1. SUFFICES ASSUME NEW c \in Clients, cpc'[c] # "idle"
               PROVE  (ids'[c] = ids[c] /\ cpc[c] # "idle") \/ Batch(ids'[c])
  BY DEF OneBatch, Batch
<1>2. ASSUME NEW d \in Clients, Request(d)
      PROVE  (ids'[c] = ids[c] /\ cpc[c] # "idle") \/ Batch(ids'[c])
  <2>1. PICK n \in Sizes : Cardinality(NewIds(n)) = n /\ ids' = [ids EXCEPT ![d] = NewIds(n)]
    BY <1>2 DEF Request
  <2>2. Batch(NewIds(n))
    BY <2>1 DEF NewIds, Batch
  <2>3. cpc' = [cpc EXCEPT ![d] = "clock"]
    BY <1>2 DEF Request, Goto
  <2> QED BY <1>0, <1>1, <2>1, <2>2, <2>3 DEF RequestTypeOK
<1>3. ASSUME NEW d \in Clients, Leave(d) PROVE ids'[c] = ids[c] /\ cpc[c] # "idle"
  BY <1>0, <1>1, <1>3 DEF Leave, Goto, RequestTypeOK
<1>4. ASSUME NEW d \in Clients, Serve(d) \/ LimitSkipped(d) \/ CommitRefused(d) \/ RequestCutOff(d)
      PROVE  ids'[c] = ids[c] /\ cpc[c] # "idle"
  <2>1. CASE Leave(d)
    BY <1>3, <2>1
  <2>2. CASE ~Leave(d)
    <3>1. ids' = ids /\ cpc[d] # "idle" /\ \E p : Goto(d, p)
      BY <1>4, <2>2 DEF Serve, ReadClock, Incr, SetExpiry, LookupKey, CheckQuota, Flush, Commit,
                        ResolveConflict, Reply, Answer, LimitSkipped, CommitRefused, RequestCutOff
    <3> QED BY <1>0, <1>1, <3>1 DEF Goto, RequestTypeOK
  <2> QED BY <2>1, <2>2
<1>5. ASSUME JobEnds \/ JobRetried \/ JobRevived \/ Tick \/ UNCHANGED vars
      PROVE  ids'[c] = ids[c] /\ cpc[c] # "idle"
  BY <1>1, <1>5 DEF JobEnds, JobRetried, JobRevived, ComesBack, Tick, requestVars, vars
<1> QED BY <1>2, <1>4, <1>5 DEF AdmissionNext

(* A commit is a step of the table, and so is an answer, the end or the      *)
(* retry of a job; nothing else of a request shows.                          *)
LEMMA TableStep ==
    ASSUME AdmissionTypeOK, KeyInv, OneBatch, [AdmissionNext]_vars
    PROVE  [Table!Next]_<<rows, keyOf, named>>
<1>0. RequestTypeOK /\ RowTypeOK /\ \A k : Table!With(k) = Committed(k)
  BY TypesApart DEF Table!With, Committed
<1> DEFINE Batches == {S \in SUBSET Ids : Cardinality(S) \in Sizes}
<1>1. ASSUME NEW c \in Clients, Commit(c) PROVE Table!Next
  <2>1. cpc[c] = "commit"
    BY <1>1 DEF Commit
  <2>2. ids[c] \in Batches /\ key[c] \in Keys \cup {NoKey}
    BY <1>0, <2>1 DEF OneBatch, Batch, RequestTypeOK
  <2>3. \A j \in ids[c] : rows[j] = "absent"
    BY <2>1 DEF KeyInv, IdsAreOwn
  <2>4. key[c] # NoKey => Table!With(key[c]) = {} /\ \A i, j \in ids[c] : i = j
    BY <1>0, <2>1 DEF KeyInv, KeysAreFree
  <2>5. Table!Submit(ids[c], key[c])
    BY <1>1, <2>3, <2>4 DEF Commit, Table!Submit
  <2> QED BY <2>2, <2>5 DEF Table!Next
<1>2. ASSUME NEW c \in Clients, NEW jobs, Answer(c, jobs), jobs \subseteq Committed(key[c])
      PROVE  [Table!Next]_<<rows, keyOf, named>>
  <2>1. CASE key[c] = NoKey
    BY <1>2, <2>1 DEF Answer
  <2>2. CASE key[c] # NoKey
    <3>1. key[c] \in Keys /\ jobs \in SUBSET Table!With(key[c])
      BY <1>0, <1>2, <2>2 DEF RequestTypeOK
    <3>2. Table!Answer(key[c])
      BY <1>2, <2>2, <3>1 DEF Answer, Table!Answer
    <3> QED BY <3>1, <3>2 DEF Table!Next
  <2> QED BY <2>1, <2>2
<1>3. CASE JobEnds
  BY <1>3 DEF JobEnds, Active, Table!Next, Table!Turn
<1>4. CASE JobRetried \/ JobRevived
  BY <1>4 DEF JobRetried, JobRevived, ComesBack, Table!Next, Table!Turn
<1>5. ASSUME NEW c \in Clients, LookupKey(c) \/ ResolveConflict(c) \/ Reply(c)
      PROVE  [Table!Next]_<<rows, keyOf, named>>
  <2>1. Reply(c) => ids[c] \subseteq Committed(key[c])
    BY <1>0 DEF Reply, KeyInv, IdsAreOwn, Committed, RequestTypeOK
  <2>2. \/ Answer(c, Committed(key[c]))
        \/ Answer(c, ids[c]) /\ ids[c] \subseteq Committed(key[c])
        \/ UNCHANGED jobVars
    BY <1>5, <2>1 DEF LookupKey, ResolveConflict, Reply
  <2> QED BY <1>2, <2>2 DEF jobVars
<1>6. ASSUME NEW c \in Clients,
             \/ ReadClock(c) \/ Incr(c) \/ SetExpiry(c) \/ CheckQuota(c) \/ Flush(c)
             \/ Request(c) \/ LimitSkipped(c) \/ CommitRefused(c) \/ RequestCutOff(c)
      PROVE  UNCHANGED jobVars
  BY <1>6 DEF ReadClock, Incr, SetExpiry, CheckQuota, Flush, Request, LimitSkipped,
              CommitRefused, RequestCutOff
<1>7. CASE Tick \/ UNCHANGED vars
  BY <1>7 DEF Tick, vars, jobVars
<1> QED
  BY <1>1, <1>3, <1>4, <1>5, <1>6, <1>7 DEF AdmissionNext, Serve, jobVars

(* Whatever becomes of the requests, the table of jobs gets all of the jobs  *)
(* of a request in one step or none, and gives a key to one job              *)
(* (job_manager.py:171-190, 255-259).                                        *)
THEOREM AdmissionFillsTheTable == AdmissionSpec => AdmissionImplementsTable
<1>1. AdmissionInit => Table!Init
  BY DEF AdmissionInit, Table!Init
<1>2. AdmissionInit => OneBatch
  BY DEF AdmissionInit, OneBatch
<1>3. AdmissionTypeOK /\ OneBatch /\ [AdmissionNext]_vars => OneBatch'
  BY OneBatchStep
<1>4. AdmissionTypeOK /\ KeyInv /\ OneBatch /\ [AdmissionNext]_vars
          => [Table!Next]_<<rows, keyOf, named>>
  BY TableStep
<1> QED
  BY <1>1, <1>2, <1>3, <1>4, AdmissionTypeCorrect, KeyInvariant, PTL
     DEF AdmissionSpec, AdmissionImplementsTable, Table!Spec, Table!tableVars

-----------------------------------------------------------------------------
(* The rate limit *)

(* Threads that read the clock in an earlier window and have yet to count.   *)
Late == {c \in Clients : cpc[c] = "incr" /\ bucket[c] < ThisWindow}

(* The counter of a window lives until the window is over, and has counted   *)
(* all its requests; no one gets through before the window begins.           *)
RateInv ==
    /\ \A c \in Clients : bucket[c] <= ThisWindow
    /\ \A w \in Windows : Window * w + Window <= expiry[w]
    /\ \A w \in Windows : w > ThisWindow => fresh[w] = 0 /\ stale[w] = 0
    /\ fresh[ThisWindow] <= count[ThisWindow]
    /\ stale[ThisWindow] + Cardinality(Late) <= Cardinality(Clients)
    /\ RateKept

LEMMA LateFits ==
    ASSUME NEW T \in SUBSET Clients
    PROVE  /\ IsFiniteSet(T) /\ Cardinality(T) \in Nat
           /\ Cardinality(Clients) \in Nat /\ Cardinality(T) <= Cardinality(Clients)
BY FS_Subset, FS_CardinalityType, AdmissionAssumption

LEMMA NoOneComesLate ==
    ASSUME NEW S \in SUBSET Clients, NEW T \in SUBSET S
    PROVE  Cardinality(T) <= Cardinality(S)
BY FS_Subset, FS_CardinalityType, AdmissionAssumption

(* Steps that let nobody through.                                            *)
LEMMA RateUntouched ==
    ASSUME AdmissionTypeOK, RateInv, AdmissionTypeOK',
           UNCHANGED <<tenant, clock, fresh, stale>>,
           \A c \in Clients : bucket'[c] <= ThisWindow,
           \A w \in Windows : Window * w + Window <= expiry'[w],
           count[ThisWindow] <= count'[ThisWindow],
           Late' \subseteq Late
    PROVE  RateInv'
<1>1. ThisWindow' = ThisWindow /\ ThisWindow \in Windows /\ Limit' = Limit
  BY ThisIsAWindow DEF AdmissionTypeOK, ThisWindow, Limit
<1>2. Cardinality(Late') <= Cardinality(Late) /\ Cardinality(Late) \in Nat
      /\ Cardinality(Late') \in Nat /\ Cardinality(Clients) \in Nat
  <2>1. Late \subseteq Clients
    BY DEF Late
  <2> QED BY <2>1, LateFits, NoOneComesLate
<1>3. fresh[ThisWindow] \in Nat /\ stale[ThisWindow] \in Nat
      /\ count[ThisWindow] \in Int /\ count'[ThisWindow] \in Int
  <2>1. RateTypeOK /\ RateTypeOK'
    BY DEF AdmissionTypeOK, RateTypeOK
  <2> QED BY <1>1, <2>1, LimitTyped, TypesApart DEF RateTypeOK
<1>4. Cardinality(Late)' = Cardinality(Late')
  OBVIOUS
<1>5. fresh'[ThisWindow] <= count'[ThisWindow]
  BY <1>1, <1>3 DEF RateInv
<1>6. stale'[ThisWindow] + Cardinality(Late') <= Cardinality(Clients)
  BY <1>1, <1>2, <1>3 DEF RateInv
<1>7. RateKept'
  BY <1>1 DEF RateInv, RateKept
<1> QED BY <1>1, <1>5, <1>6, <1>7 DEF RateInv

LEMMA LimitCounts ==
    ASSUME AdmissionTypeOK, RateInv, NEW c \in Clients, Incr(c), UNCHANGED tenant,
           AdmissionTypeOK'
    PROVE  RateInv'
<1> DEFINE b == bucket[c]  w == ThisWindow
<1>1. /\ RequestTypeOK /\ RateTypeOK /\ Limit \in Nat /\ Limit' = Limit
      /\ w \in Windows /\ w \in Nat /\ b \in Windows /\ b \in Nat /\ w' = w
  <2>1. RequestTypeOK /\ RateTypeOK /\ BudgetTypeOK
    BY TypesApart
  <2> QED BY <2>1, LimitTyped, ThisIsAWindow
          DEF Limit, Incr, ThisWindow, RequestTypeOK, RateTypeOK
<1>2. /\ \A v \in Windows : count[v] \in Int /\ count'[v] \in Int /\ count[v] <= count'[v]
      /\ count[b] <= Limit => count'[b] = count[b] + 1
      /\ count[b] > Limit => count'[b] = count[b]
  BY <1>1 DEF Incr, CountUp, RateTypeOK
<1>3. UNCHANGED <<clock, expiry>>
  BY DEF Incr
<1>4. Late \subseteq Clients /\ cpc[c] = "incr"
  BY DEF Late, Incr
<1>5. CASE Leave(c) /\ UNCHANGED <<fresh, stale>>
  <2>1. \A d \in Clients : bucket'[d] \in {bucket[d], 0}
    BY <1>1, <1>5 DEF Leave, RequestTypeOK
  <2>2. Late' \subseteq Late
    BY <1>1, <1>5 DEF Late, Leave, Goto, RequestTypeOK
  <2>3. \A d \in Clients : bucket'[d] <= w
    BY <1>1, <2>1 DEF RateInv
  <2>4. \A v \in Windows : Window * v + Window <= expiry'[v]
    BY <1>3 DEF RateInv
  <2> HIDE DEF w
  <2> QED BY <1>1, <1>2, <1>3, <1>5, <2>2, <2>3, <2>4, RateUntouched DEF w
<1>6. CASE count'[b] <= Limit /\ LetThrough(c) /\ UNCHANGED <<key, ids, bucket>>
  <2>0. /\ Goto(c, "expire") \/ Goto(c, "lookup")
        /\ count'[b] = count[b] + 1 /\ b <= w
    BY <1>1, <1>2, <1>6 DEF Incr, Leave, Goto, RequestTypeOK, RateInv
  <2>1. Late' = Late \ {c}
    BY <1>1, <1>6, <2>0 DEF Late, Goto, RequestTypeOK
  <2>2. /\ Cardinality(Late) \in Nat /\ Cardinality(Clients) \in Nat
        /\ Cardinality(Late') = IF c \in Late THEN Cardinality(Late) - 1 ELSE Cardinality(Late)
    BY <1>4, <2>1, LateFits, FS_RemoveElement
  <2>3. /\ \A d \in Clients : bucket'[d] <= w
        /\ \A v \in Windows : Window * v + Window <= expiry'[v]
    BY <1>3, <1>6 DEF RateInv
  <2>4. /\ fresh[w] \in Nat /\ stale[w] \in Nat /\ fresh[w] <= count[w] /\ fresh[w] <= Limit
        /\ stale[w] + Cardinality(Late) <= Cardinality(Clients)
    BY <1>1 DEF RateTypeOK, RateInv, RateKept
  <2>5. CASE b = w
    <3>1. fresh' = [fresh EXCEPT ![w] = @ + 1] /\ UNCHANGED stale
      BY <1>6, <2>5 DEF LetThrough
    <3>2. fresh'[w] = fresh[w] + 1 /\ \A v \in Windows \ {w} : fresh'[v] = fresh[v]
      BY <1>1, <3>1 DEF RateTypeOK
    <3>3. c \notin Late
      BY <1>1, <2>5 DEF Late
    <3>4. fresh'[w] <= count'[w] /\ fresh'[w] <= Limit
      BY <1>1, <1>2, <1>6, <2>0, <2>4, <2>5, <3>2
    <3>5. stale'[w] + Cardinality(Late') <= Cardinality(Clients)
      BY <2>2, <2>4, <3>1, <3>3
    <3>6. RateKept'
      BY <1>1, <3>1, <3>2, <3>4 DEF RateInv, RateKept
    <3>7. \A v \in Windows : v > w => fresh'[v] = 0 /\ stale'[v] = 0
      BY <1>1, <3>1, <3>2 DEF RateInv
    <3> HIDE DEF w
    <3> QED BY <1>1, <2>3, <3>4, <3>5, <3>6, <3>7 DEF RateInv, w
  <2>6. CASE b # w
    <3>1. stale' = [stale EXCEPT ![w] = @ + 1] /\ UNCHANGED fresh
      BY <1>6, <2>6 DEF LetThrough
    <3>2. stale'[w] = stale[w] + 1 /\ \A v \in Windows \ {w} : stale'[v] = stale[v]
      BY <1>1, <3>1 DEF RateTypeOK
    <3>3. c \in Late
      BY <1>1, <1>4, <2>0, <2>6 DEF Late
    <3>4. fresh'[w] <= count'[w]
      BY <1>1, <1>2, <2>4, <3>1
    <3>5. stale'[w] + Cardinality(Late') <= Cardinality(Clients) /\ Cardinality(Late') \in Nat
      <4>1. Cardinality(Late) # 0
        BY <1>4, <3>3, LateFits, FS_EmptySet
      <4> QED BY <2>2, <2>4, <3>2, <3>3, <4>1
    <3>6. RateKept'
      <4>1. stale'[w] <= Cardinality(Clients)
        BY <2>2, <2>4, <3>2, <3>5
      <4> QED BY <1>1, <3>1, <3>2, <4>1 DEF RateInv, RateKept
    <3>7. \A v \in Windows : v > w => fresh'[v] = 0 /\ stale'[v] = 0
      BY <1>1, <3>1, <3>2 DEF RateInv
    <3> HIDE DEF w
    <3> QED BY <1>1, <2>3, <3>4, <3>5, <3>6, <3>7 DEF RateInv, w
  <2> QED BY <2>5, <2>6
<1> QED BY <1>5, <1>6 DEF Incr

LEMMA TimePassesInv ==
    ASSUME AdmissionTypeOK, RateInv, Tick, UNCHANGED tenant, AdmissionTypeOK'
    PROVE  RateInv'
<1> DEFINE w == ThisWindow
<1>1. /\ RequestTypeOK /\ RateTypeOK /\ Limit \in Nat /\ Limit' = Limit
      /\ w \in Windows /\ w \in Nat /\ w' \in Windows /\ w' \in Nat
  <2>1. RequestTypeOK /\ RateTypeOK /\ BudgetTypeOK
    BY TypesApart
  <2>2. clock' \in Nat /\ MaxTime \in Nat /\ clock' <= MaxTime
    BY AdmissionAssumption DEF AdmissionTypeOK
  <2>3. clock' \div Window \in Windows
    BY <2>2, WindowOf, WindowsGrow DEF Windows
  <2> QED BY <2>1, <2>3, LimitTyped, ThisIsAWindow, FirstWindow DEF Limit, RateTypeOK, ThisWindow
<1>2. w <= w' /\ clock' < Window * w' + Window
  <2>1. clock \in Nat /\ clock' = clock + 1
    BY <1>1 DEF Tick, RateTypeOK
  <2> QED BY <2>1, WindowsGrow, WindowOf DEF ThisWindow
<1>3. UNCHANGED <<cpc, bucket, fresh, stale>>
  BY DEF Tick, requestVars
<1>4. /\ \A c \in Clients : bucket[c] \in Nat /\ bucket[c] <= w
      /\ \A v \in Windows : Window * v + Window <= expiry[v]
      /\ \A v \in Windows : v > w => fresh[v] = 0 /\ stale[v] = 0
  BY <1>1, FirstWindow DEF RateInv, RequestTypeOK
<1>5. \A c \in Clients : bucket'[c] <= w'
  BY <1>1, <1>2, <1>3, <1>4
<1>6. \A v \in Windows : Window * v + Window <= expiry'[v]
  <2> SUFFICES ASSUME NEW v \in Windows PROVE Window * v + Window <= expiry'[v]
    OBVIOUS
  <2>1. Window * v + Window <= Never
    <3>1. v \in Nat /\ v <= MaxTime \div Window /\ MaxTime \in Nat
      BY FirstWindow, AdmissionAssumption DEF Windows
    <3>2. Window * (MaxTime \div Window) <= MaxTime /\ MaxTime \div Window \in Nat
      BY <3>1, WindowOf
    <3>3. Window * v <= Window * (MaxTime \div Window)
      BY <3>1, <3>2, WindowsFollow, AdmissionAssumption
    <3> QED BY <3>1, <3>2, <3>3, AdmissionAssumption DEF Never
  <2>2. expiry'[v] \in {Never, expiry[v]}
    BY DEF Tick
  <2> QED BY <1>4, <2>1, <2>2
<1>7. \A v \in Windows : v > w' => fresh'[v] = 0 /\ stale'[v] = 0
  BY <1>1, <1>2, <1>3, <1>4, FirstWindow
<1>8. fresh'[w'] <= count'[w']
  <2>1. expiry[w'] \in Nat /\ ~(expiry[w'] <= clock')
    <3>1. expiry[w'] \in Nat /\ clock' \in Nat
      BY <1>1, AdmissionAssumption DEF RateTypeOK, Never, Tick
    <3>2. Window * w' + Window <= expiry[w']
      BY <1>1, <1>4
    <3>3. Window * w' + Window \in Int
      BY <1>1, AdmissionAssumption
    <3> QED BY <1>2, <3>1, <3>2, <3>3
  <2>2. count'[w'] = count[w'] /\ count[w'] \in Nat
    BY <1>1, <2>1 DEF Tick, RateTypeOK
  <2>3. CASE w' = w
    BY <1>3, <2>2, <2>3 DEF RateInv
  <2>4. CASE w' # w
    BY <1>1, <1>2, <1>3, <1>4, <2>2, <2>4
  <2> QED BY <2>3, <2>4
<1>9. stale'[w'] + Cardinality(Late') <= Cardinality(Clients)
  <2>1. CASE w' = w
    <3>1. Late' = Late
      BY <1>3, <2>1 DEF Late
    <3> QED BY <1>3, <2>1, <3>1 DEF RateInv
  <2>2. CASE w' # w
    <3>1. stale'[w'] = 0
      BY <1>1, <1>2, <1>3, <1>4, <2>2
    <3>2. Late' \subseteq Clients
      BY DEF Late
    <3> QED BY <3>1, <3>2, LateFits
  <2> QED BY <2>1, <2>2
<1>10. RateKept'
  BY <1>1, <1>3 DEF RateInv, RateKept
<1> QED BY <1>5, <1>6, <1>7, <1>8, <1>9, <1>10 DEF RateInv

LEMMA RateNextInv ==
    ASSUME AdmissionTypeOK, RateInv, [AdmissionNext]_vars PROVE RateInv'
<1>0. AdmissionTypeOK'
  BY NextTyped
<1>1. /\ RequestTypeOK /\ RateTypeOK /\ Limit \in Nat
      /\ ThisWindow \in Windows /\ Windows \subseteq Nat
  BY TypesApart, LimitTyped, ThisIsAWindow DEF RateTypeOK
<1>2. UNCHANGED tenant
  BY DEF AdmissionNext, vars
<1>3. ASSUME UNCHANGED <<clock, count, expiry, fresh, stale>>,
             NEW c \in Clients,
             \A d \in Clients \ {c} : bucket'[d] = bucket[d] /\ cpc'[d] = cpc[d],
             bucket'[c] \in {0, bucket[c], ThisWindow},
             cpc'[c] = "incr" => bucket'[c] = ThisWindow
      PROVE  RateInv'
  <2>1. \A d \in Clients : bucket[d] \in Nat /\ bucket[d] <= ThisWindow
    BY <1>1 DEF RateInv, RequestTypeOK
  <2>2. \A d \in Clients : bucket'[d] <= ThisWindow
    BY <1>1, <1>3, <2>1
  <2>3. ThisWindow' = ThisWindow
    BY <1>3 DEF ThisWindow
  <2>4. Late' \subseteq Late
    BY <1>1, <1>3, <2>3 DEF Late
  <2>5. /\ \A w \in Windows : Window * w + Window <= expiry'[w]
        /\ count[ThisWindow] <= count'[ThisWindow]
    BY <1>1, <1>3 DEF RateInv, RateTypeOK
  <2> QED BY <1>0, <1>2, <1>3, <2>2, <2>4, <2>5, RateUntouched
<1>4. ASSUME NEW c \in Clients,
             Request(c) \/ Serve(c) \/ LimitSkipped(c) \/ CommitRefused(c) \/ RequestCutOff(c)
      PROVE  RateInv'
  <2>1. CASE Incr(c)
    BY <1>0, <1>2, <2>1, LimitCounts
  <2>2. CASE SetExpiry(c)
    <3>1. /\ UNCHANGED <<clock, count, fresh, stale, bucket>>
          /\ expiry' = [expiry EXCEPT ![bucket[c]] = clock + Window]
      BY <2>2 DEF SetExpiry
    <3>2. Late' \subseteq Late
      BY <1>1, <2>2, <3>1 DEF SetExpiry, Goto, Late, ThisWindow, RequestTypeOK
    <3>3. \A w \in Windows : Window * w + Window <= expiry'[w]
      <4>1. bucket[c] \in Windows /\ bucket[c] <= ThisWindow
        BY <1>1 DEF RateInv, RequestTypeOK
      <4>2. Window * bucket[c] + Window <= clock + Window
        BY <1>1, <4>1, OutlivesWindow DEF RateTypeOK
      <4> QED BY <1>1, <3>1, <4>1, <4>2 DEF RateInv, RateTypeOK
    <3>4. count[ThisWindow] <= count'[ThisWindow]
      BY <1>1, <3>1 DEF RateTypeOK
    <3>5. \A d \in Clients : bucket'[d] <= ThisWindow
      BY <3>1 DEF RateInv
    <3> QED BY <1>0, <1>2, <3>1, <3>2, <3>3, <3>4, <3>5, RateUntouched
  <2>3. CASE ~Incr(c) /\ ~SetExpiry(c)
    <3>1. UNCHANGED <<clock, count, expiry, fresh, stale>>
      BY <1>4, <2>3
         DEF Request, Serve, LimitSkipped, CommitRefused, RequestCutOff, ReadClock, LookupKey,
             CheckQuota, Flush, Commit, ResolveConflict, Reply, Answer, limitVars
    <3>2. \E p \in Points : Goto(c, p) /\ (p = "incr" => bucket'[c] = ThisWindow)
      BY <1>1, <1>4, <2>3
         DEF Request, Serve, LimitSkipped, CommitRefused, RequestCutOff, ReadClock, LookupKey,
             CheckQuota, Flush, Commit, ResolveConflict, Reply, Answer, Leave, Points,
             RequestTypeOK
    <3>3. \E v \in {0, bucket[c], ThisWindow} : bucket' = [bucket EXCEPT ![c] = v]
      <4>1. \/ UNCHANGED bucket
            \/ bucket' = [bucket EXCEPT ![c] = ThisWindow]
            \/ bucket' = [bucket EXCEPT ![c] = 0]
        BY <1>4, <2>3
           DEF Request, Serve, LimitSkipped, CommitRefused, RequestCutOff, ReadClock, LookupKey,
               CheckQuota, Flush, Commit, ResolveConflict, Reply, Answer, Leave, limitVars
      <4>2. bucket = [bucket EXCEPT ![c] = bucket[c]]
        BY <1>1 DEF RequestTypeOK
      <4> QED BY <4>1, <4>2
    <3>4. /\ \A d \in Clients \ {c} : bucket'[d] = bucket[d] /\ cpc'[d] = cpc[d]
          /\ bucket'[c] \in {0, bucket[c], ThisWindow}
          /\ cpc'[c] = "incr" => bucket'[c] = ThisWindow
      BY <1>1, <3>2, <3>3 DEF Goto, RequestTypeOK
    <3> QED BY <1>3, <3>1, <3>4
  <2> QED BY <2>1, <2>2, <2>3
<1>5. CASE Tick
  BY <1>0, <1>2, <1>5, TimePassesInv
<1>6. CASE JobEnds \/ JobRetried \/ JobRevived \/ UNCHANGED vars
  <2>1. UNCHANGED <<clock, count, expiry, fresh, stale, bucket, cpc>>
    BY <1>6 DEF JobEnds, JobRetried, JobRevived, ComesBack, vars, limitVars, requestVars
  <2>2. PICK c \in Clients : TRUE
    BY AdmissionAssumption
  <2>3. Late' = Late /\ ThisWindow' = ThisWindow
    BY <2>1 DEF Late, ThisWindow
  <2>4. count[ThisWindow] <= count'[ThisWindow]
    BY <1>1, <2>1 DEF RateTypeOK
  <2> QED BY <1>0, <1>2, <2>1, <2>3, <2>4, RateUntouched DEF RateInv
<1> QED BY <1>4, <1>5, <1>6 DEF AdmissionNext

(* In every window at most Limit requests get through on its own counter,    *)
(* and beyond that one for each thread that came late, for any limits,       *)
(* windows, threads and failing calls to Redis (rate_limit.py:26-54).        *)
THEOREM RateIsKept == AdmissionSpec => []RateKept
<1>1. AdmissionInit => AdmissionTypeOK /\ RateInv
  <2> SUFFICES ASSUME AdmissionInit PROVE RateInv
    BY InitTyped
  <2>1. /\ RequestTypeOK /\ RateTypeOK /\ Limit \in Nat
        /\ ThisWindow \in Windows /\ Windows \subseteq Nat
    BY InitTyped, TypesApart, LimitTyped, ThisIsAWindow DEF RateTypeOK
  <2>2. Late = {}
    BY DEF AdmissionInit, Late
  <2>3. \A w \in Windows : Window * w + Window <= expiry[w]
    <3> SUFFICES ASSUME NEW w \in Windows PROVE Window * w + Window <= Never
      BY DEF AdmissionInit
    <3>1. w \in Nat /\ w <= MaxTime \div Window /\ MaxTime \in Nat
      BY FirstWindow, AdmissionAssumption DEF Windows
    <3>2. Window * (MaxTime \div Window) <= MaxTime /\ MaxTime \div Window \in Nat
      BY <3>1, WindowOf
    <3>3. Window * w <= Window * (MaxTime \div Window)
      BY <3>1, <3>2, WindowsFollow, AdmissionAssumption
    <3> QED BY <3>1, <3>2, <3>3, AdmissionAssumption DEF Never
  <2>4. Cardinality(Late) = 0 /\ Cardinality(Clients) \in Nat
    BY <2>2, FS_EmptySet, LateFits
  <2>5. RateKept
    BY <2>1, <2>4 DEF AdmissionInit, RateKept
  <2> QED BY <2>1, <2>3, <2>4, <2>5 DEF AdmissionInit, RateInv
<1>2. AdmissionTypeOK /\ RateInv /\ [AdmissionNext]_vars => (AdmissionTypeOK /\ RateInv)'
  BY NextTyped, RateNextInv
<1>3. RateInv => RateKept
  BY DEF RateInv
<1> QED BY <1>1, <1>2, <1>3, PTL DEF AdmissionSpec

-----------------------------------------------------------------------------
(* The quota *)

LEMMA LargestFits ==
    LargestSize \in Nat \ {0} /\ \A n \in Sizes : n <= LargestSize
<1>1. \E n \in Sizes : \A m \in Sizes : m <= n
  BY AdmissionAssumption
<1>2. LargestSize \in Sizes /\ \A m \in Sizes : m <= LargestSize
  BY <1>1 DEF LargestSize
<1> QED BY <1>2, AdmissionAssumption

LEMMA IdsFinite ==
    ASSUME NEW T \in SUBSET Ids
    PROVE  IsFiniteSet(T) /\ Cardinality(T) \in Nat
<1>1. IsFiniteSet(Ids)
  BY FS_Interval, AdmissionAssumption DEF Ids
<1> QED BY <1>1, FS_Subset, FS_CardinalityType

LEMMA FewerIds ==
    ASSUME NEW S \in SUBSET Ids, NEW T \in SUBSET S
    PROVE  Cardinality(T) <= Cardinality(S)
BY IdsFinite, FS_Subset

(* A family of sets of at most m ids each has at most m ids for each member. *)
LEMMA FamilySize ==
    ASSUME NEW S, IsFiniteSet(S), NEW m \in Nat, NEW f \in [S -> SUBSET Ids],
           \A s \in S : Cardinality(f[s]) <= m
    PROVE  Cardinality(UNION {f[s] : s \in S}) <= Cardinality(S) * m
<1> DEFINE U == UNION {f[s] : s \in S}
           Owner(t) == CHOOSE s \in S : t \in f[s]
           Numbering(s) == CHOOSE g : g \in Injection(f[s], 1..m)
           place == [t \in U |-> <<Owner(t), Numbering(Owner(t))[t]>>]
<1>1. \A s \in S : Numbering(s) \in Injection(f[s], 1..m)
  <2> SUFFICES ASSUME NEW s \in S PROVE \E g : g \in Injection(f[s], 1..m)
    OBVIOUS
  <2>1. IsFiniteSet(f[s]) /\ Cardinality(f[s]) \in Nat
    BY IdsFinite
  <2> DEFINE n == Cardinality(f[s])
  <2>2. IsFiniteSet(1..n) /\ Cardinality(1..n) = n
    BY <2>1, FS_Interval
  <2>3. ExistsBijection(f[s], 1..n)
    BY <2>1, <2>2, FS_SameCardinalityBij
  <2>4. PICK g : g \in [f[s] -> 1..n] /\ IsInjective(g)
    BY <2>3 DEF ExistsBijection, Bijection, Injection
  <2>5. n <= m
    OBVIOUS
  <2> HIDE DEF n
  <2>6. g \in [f[s] -> 1..m]
    BY <2>1, <2>4, <2>5 DEF n
  <2> QED BY <2>4, <2>6 DEF Injection
<1>2. \A t \in U : Owner(t) \in S /\ t \in f[Owner(t)]
  OBVIOUS
<1> HIDE DEF Owner, Numbering
<1>3. \A t \in U : Numbering(Owner(t))[t] \in 1..m
  BY <1>1, <1>2 DEF Injection
<1>4. place \in [U -> S \X (1..m)]
  BY <1>2, <1>3
<1>5. ASSUME NEW t \in U, NEW u \in U, place[t] = place[u] PROVE t = u
  <2>1. Owner(t) = Owner(u) /\ Numbering(Owner(t))[t] = Numbering(Owner(t))[u]
    BY <1>5
  <2>2. t \in f[Owner(t)] /\ u \in f[Owner(t)] /\ Owner(t) \in S
    BY <1>2, <2>1
  <2> QED BY <1>1, <2>1, <2>2 DEF Injection, IsInjective
<1>6. place \in Injection(U, S \X (1..m))
  BY <1>4, <1>5 DEF Injection, IsInjective
<1>7. /\ IsFiniteSet(S \X (1..m))
      /\ Cardinality(S \X (1..m)) = Cardinality(S) * m
  <2>1. IsFiniteSet(1..m) /\ Cardinality(1..m) = m
    BY FS_Interval
  <2> QED BY <2>1, FS_Product
<1> HIDE DEF place, U
<1>8. Cardinality(U) <= Cardinality(S) * m
  BY <1>6, <1>7, FS_Injection
<1> QED BY <1>8 DEF U

(* Requests that have passed the check and not yet committed or failed.      *)
Passed == {c \in Clients : cpc[c] \in {"flush", "commit"}}
Reserved == (Active \ back) \cup UNION {ids[c] : c \in Passed}
Ceiling == Quota + (Cardinality(Clients) - 1) * LargestSize

QuotaInv ==
    /\ \A c \in Clients : Cardinality(ids[c]) <= LargestSize
    /\ Cardinality(Reserved) <= Ceiling

LEMMA ReservedFits ==
    ASSUME AdmissionTypeOK
    PROVE  /\ Active \subseteq Ids /\ Reserved \subseteq Ids
           /\ Cardinality(Active) \in Nat /\ Cardinality(Reserved) \in Nat
           /\ Cardinality(Active \ back) \in Nat
           /\ Cardinality(Active \ back) <= Cardinality(Reserved)
           /\ Ceiling \in Int /\ Cardinality(Clients) \in Nat \ {0}
<1>1. Active \subseteq Ids /\ Reserved \subseteq Ids /\ Active \ back \subseteq Reserved
  BY DEF Active, Reserved, Passed, AdmissionTypeOK
<1>2. Cardinality(Clients) \in Nat \ {0}
  BY FS_CardinalityType, FS_EmptySet, AdmissionAssumption
<1>3. Quota \in Nat
  BY TypesApart, LimitTyped
<1>4. (Cardinality(Clients) - 1) * LargestSize \in Int
  BY <1>2, LargestFits
<1>5. Ceiling \in Int
  BY <1>3, <1>4 DEF Ceiling
<1>6. Active \ back \subseteq Ids
  BY <1>1
<1> QED BY <1>1, <1>2, <1>5, <1>6, IdsFinite, FewerIds

LEMMA ReservesNothing ==
    ASSUME AdmissionTypeOK, QuotaInv, AdmissionTypeOK', UNCHANGED tenant,
           \A c \in Clients : Cardinality(ids'[c]) <= LargestSize,
           Reserved' \subseteq Reserved
    PROVE  QuotaInv'
<1>1. Cardinality(Reserved') <= Cardinality(Reserved) /\ Cardinality(Reserved') \in Nat
  BY ReservedFits, FewerIds, IdsFinite
<1>2. Ceiling' = Ceiling
  BY DEF Ceiling, Quota
<1>3. \A c \in Clients : Cardinality(ids[c])' = Cardinality(ids'[c])
  OBVIOUS
<1>4. Cardinality(Reserved') <= Ceiling'
  BY <1>1, <1>2, ReservedFits DEF QuotaInv
<1> QED BY <1>4 DEF QuotaInv

LEMMA CheckReserves ==
    ASSUME AdmissionTypeOK, QuotaInv, AdmissionTypeOK', UNCHANGED tenant,
           NEW c \in Clients, CheckQuota(c), ~Leave(c)
    PROVE  QuotaInv'
<1>1. /\ Cardinality(Active) + Cardinality(ids[c]) <= Quota
      /\ cpc' = [cpc EXCEPT ![c] = "flush"] /\ cpc \in [Clients -> Points]
      /\ UNCHANGED <<ids, rows, back>>
  <2>1. cpc \in [Clients -> Points] /\ ids[c] \subseteq Ids /\ Quota \in Nat
    BY TypesApart, LimitTyped DEF RequestTypeOK
  <2>2. Cardinality(Active) \in Nat /\ Cardinality(ids[c]) \in Nat
    BY <2>1, ReservedFits, IdsFinite
  <2>3. /\ ~(Cardinality(Active) + Cardinality(ids[c]) > Quota)
        /\ Goto(c, "flush") /\ UNCHANGED <<ids, rows, back>>
    BY DEF CheckQuota, jobVars
  <2> QED BY <2>1, <2>2, <2>3 DEF Goto
<1> DEFINE S == Clients \ {c}
           f == [d \in S |-> IF d \in Passed THEN ids[d] ELSE {}]
           Others == UNION {f[d] : d \in S}
<1>2. /\ ids \in [Clients -> SUBSET Ids]
      /\ Quota \in Nat
  BY TypesApart, LimitTyped DEF RequestTypeOK
<1>3. Reserved' \subseteq (Active \cup ids[c]) \cup Others
  BY <1>1 DEF Reserved, Passed, Active
<1>4. Cardinality(Others) <= (Cardinality(Clients) - 1) * LargestSize /\ Others \subseteq Ids
  <2>1. IsFiniteSet(S) /\ Cardinality(S) = Cardinality(Clients) - 1
    BY FS_RemoveElement, AdmissionAssumption
  <2>2. f \in [S -> SUBSET Ids]
    BY <1>2
  <2>3. \A d \in S : Cardinality(f[d]) <= LargestSize
    BY FS_EmptySet, LargestFits DEF QuotaInv
  <2> HIDE DEF f
  <2> QED BY <2>1, <2>2, <2>3, LargestFits, FamilySize
<1>5. Cardinality(Active \cup ids[c]) <= Quota /\ Cardinality(Active \cup ids[c]) \in Nat
  <2>1. /\ IsFiniteSet(Active) /\ IsFiniteSet(ids[c])
        /\ Cardinality(Active) \in Nat /\ Cardinality(ids[c]) \in Nat
        /\ Cardinality(Active \cap ids[c]) \in Nat /\ Cardinality(Active \cup ids[c]) \in Nat
    BY <1>2, IdsFinite, ReservedFits
  <2>2. Cardinality(Active \cup ids[c]) =
            Cardinality(Active) + Cardinality(ids[c]) - Cardinality(Active \cap ids[c])
    BY <2>1, FS_Union
  <2> QED BY <1>1, <1>2, <2>1, <2>2
<1> HIDE DEF Others, S
<1>6. Cardinality(Reserved') <= Cardinality(Active \cup ids[c]) + Cardinality(Others)
      /\ Cardinality(Reserved') \in Nat /\ Cardinality(Others) \in Nat
  <2> DEFINE A == Active \cup ids[c]
  <2>1. A \subseteq Ids /\ Others \subseteq Ids /\ A \cup Others \subseteq Ids
        /\ A \cap Others \subseteq Ids
    BY <1>2, <1>4, ReservedFits
  <2>2. Cardinality(A \cup Others) = Cardinality(A) + Cardinality(Others)
                                     - Cardinality(A \cap Others)
    BY <2>1, IdsFinite, FS_Union
  <2>3. Cardinality(Reserved') <= Cardinality(A \cup Others)
    BY <1>3, <2>1, FewerIds
  <2>4. Reserved' \subseteq Ids
    BY <1>3, <2>1
  <2>5. /\ Cardinality(A) \in Nat /\ Cardinality(Others) \in Nat
        /\ Cardinality(A \cap Others) \in Nat /\ Cardinality(A \cup Others) \in Nat
        /\ Cardinality(Reserved') \in Nat
    BY <2>1, <2>4, IdsFinite
  <2> HIDE DEF A
  <2>6. Cardinality(Reserved') <= Cardinality(A) + Cardinality(Others)
    BY <2>2, <2>3, <2>5
  <2> QED BY <2>5, <2>6 DEF A
<1>7. Cardinality(Reserved') <= Ceiling'
  <2>1. Ceiling' = Quota + (Cardinality(Clients) - 1) * LargestSize
    BY <1>1 DEF Ceiling, Quota
  <2>2. (Cardinality(Clients) - 1) * LargestSize \in Int
    BY ReservedFits, LargestFits
  <2> QED BY <1>2, <1>4, <1>5, <1>6, <2>1, <2>2
<1>8. \A d \in Clients : Cardinality(ids'[d]) <= LargestSize
  BY <1>1 DEF QuotaInv
<1> QED BY <1>7, <1>8 DEF QuotaInv

LEMMA QuotaNextInv ==
    ASSUME AdmissionTypeOK, QuotaInv, [AdmissionNext]_vars PROVE QuotaInv'
<1>0. AdmissionTypeOK' /\ RequestTypeOK
  BY NextTyped, TypesApart
<1>1. UNCHANGED tenant
  BY DEF AdmissionNext, vars
<1>2. ASSUME NEW c \in Clients, UNCHANGED <<rows, back>>,
             \A d \in Clients \ {c} : cpc'[d] = cpc[d] /\ ids'[d] = ids[d],
             \/ ids'[c] = ids[c] /\ (cpc'[c] \in {"flush", "commit"} => c \in Passed)
             \/ /\ cpc'[c] \notin {"flush", "commit"}
                /\ Cardinality(ids'[c]) <= LargestSize
      PROVE  QuotaInv'
  <2>1. \A d \in Clients : Cardinality(ids'[d]) <= LargestSize
    BY <1>2 DEF QuotaInv
  <2>2. Reserved' \subseteq Reserved
    BY <1>2 DEF Reserved, Passed, Active
  <2> QED BY <1>0, <1>1, <1>2, <2>1, <2>2, ReservesNothing
<1>3. ASSUME NEW c \in Clients,
             Request(c) \/ Serve(c) \/ LimitSkipped(c) \/ CommitRefused(c) \/ RequestCutOff(c)
      PROVE  QuotaInv'
  <2>1. CASE Leave(c) /\ UNCHANGED <<rows, back>>
    <3>1. /\ cpc'[c] = "idle" /\ ids'[c] = {}
          /\ \A d \in Clients \ {c} : cpc'[d] = cpc[d] /\ ids'[d] = ids[d]
      BY <1>0, <2>1 DEF Leave, Goto, RequestTypeOK
    <3> QED BY <1>2, <2>1, <3>1, FS_EmptySet, LargestFits
  <2>2. ASSUME NEW p, Goto(c, p), p = "flush" => cpc[c] = "flush", p = "commit" => cpc[c] = "flush",
               UNCHANGED <<ids, rows, back>>
        PROVE  QuotaInv'
    <3>1. /\ cpc'[c] = p
          /\ \A d \in Clients \ {c} : cpc'[d] = cpc[d]
      BY <1>0, <2>2 DEF Goto, RequestTypeOK
    <3> QED BY <1>2, <2>2, <3>1 DEF Passed
  <2>3. CASE Request(c)
    <3>1. PICK n \in Sizes : Cardinality(NewIds(n)) = n /\ ids' = [ids EXCEPT ![c] = NewIds(n)]
      BY <2>3 DEF Request
    <3>2. /\ cpc'[c] = "clock" /\ ids'[c] = NewIds(n) /\ UNCHANGED <<rows, back>>
          /\ \A d \in Clients \ {c} : cpc'[d] = cpc[d] /\ ids'[d] = ids[d]
      BY <1>0, <2>3, <3>1 DEF Request, Goto, RequestTypeOK, jobVars
    <3> QED BY <1>2, <3>1, <3>2, LargestFits
  <2>4. CASE CheckQuota(c)
    BY <1>0, <1>1, <2>1, <2>4, CheckReserves DEF CheckQuota, jobVars
  <2>5. CASE Commit(c)
    <3>1. /\ cpc[c] = "commit" /\ cpc'[c] = "reply" /\ UNCHANGED <<ids, back>>
          /\ \A d \in Clients \ {c} : cpc'[d] = cpc[d]
          /\ rows' = [j \in Ids |-> IF j \in ids[c] THEN "active" ELSE rows[j]]
      BY <1>0, <2>5 DEF Commit, Goto, RequestTypeOK
    <3>2. Active' \ back \subseteq (Active \ back) \cup ids[c]
      BY <3>1 DEF Active
    <3>3. Reserved' \subseteq Reserved
      BY <3>1, <3>2 DEF Reserved, Passed
    <3> QED BY <1>0, <1>1, <3>1, <3>3, ReservesNothing DEF QuotaInv
  <2>6. CASE ReadClock(c) \/ SetExpiry(c) \/ LimitSkipped(c) \/ CommitRefused(c) \/ Flush(c)
    <3>1. /\ UNCHANGED <<ids, rows, back>>
          /\ \/ \E p \in {"lookup", "incr", "conflict"} : Goto(c, p)
             \/ Goto(c, "commit") /\ cpc[c] = "flush"
      BY <2>6 DEF ReadClock, SetExpiry, LimitSkipped, CommitRefused, Flush, jobVars
    <3> QED BY <2>2, <3>1
  <2>7. CASE Incr(c)
    <3>1. CASE Leave(c)
      BY <2>1, <2>7, <3>1 DEF Incr, jobVars
    <3>2. CASE \E p \in {"expire", "lookup"} : Goto(c, p) /\ UNCHANGED ids
      BY <2>2, <2>7, <3>2 DEF Incr, jobVars
    <3> QED BY <2>7, <3>1, <3>2 DEF Incr
  <2>8. CASE LookupKey(c) \/ ResolveConflict(c) \/ Reply(c) \/ RequestCutOff(c)
    <3>1. CASE Goto(c, "quota") /\ UNCHANGED <<ids, jobVars>>
      BY <2>2, <3>1 DEF jobVars
    <3>2. CASE Leave(c)
      BY <2>1, <2>8, <3>2
         DEF LookupKey, ResolveConflict, Reply, RequestCutOff, Answer, jobVars
    <3> QED BY <2>8, <3>1, <3>2 DEF LookupKey, ResolveConflict, Reply, RequestCutOff, Answer
  <2> QED BY <1>3, <2>3, <2>4, <2>5, <2>6, <2>7, <2>8 DEF Serve
<1>4. ASSUME UNCHANGED <<cpc, ids>>, (Active \ back)' \subseteq Active \ back PROVE QuotaInv'
  <2>1. Reserved' \subseteq Reserved
    BY <1>4 DEF Reserved, Passed
  <2> QED BY <1>0, <1>1, <1>4, <2>1, ReservesNothing DEF QuotaInv
<1>5. CASE JobEnds
  <2>1. PICK j \in Active : rows' = [rows EXCEPT ![j] = "ended"] /\ back' = back \ {j}
    BY <1>5 DEF JobEnds
  <2>2. (Active \ back)' \subseteq Active \ back
    BY <2>1 DEF Active, AdmissionTypeOK
  <2> QED BY <1>4, <1>5, <2>2 DEF JobEnds, requestVars
<1>6. ASSUME NEW j \in Ids, ComesBack(j) PROVE QuotaInv'
  <2>1. (Active \ back)' \subseteq Active \ back
    BY <1>6 DEF ComesBack, Active
  <2> QED BY <1>4, <1>6, <2>1 DEF ComesBack, requestVars
<1>7. CASE Tick \/ UNCHANGED vars
  <2>1. (Active \ back)' \subseteq Active \ back
    BY <1>7 DEF Tick, vars, jobVars, Active
  <2> QED BY <1>4, <1>7, <2>1 DEF Tick, vars, requestVars
<1> QED BY <1>3, <1>5, <1>6, <1>7 DEF AdmissionNext, JobRetried, JobRevived

(* Apart from jobs that had ended and came back, a tenant never has more     *)
(* under way than its quota and one largest request for each other thread,   *)
(* for any number of requests (policy.py:39-53).                             *)
THEOREM QuotaIsNearlyKept == AdmissionSpec => []QuotaOvershoot
<1>1. AdmissionInit => AdmissionTypeOK /\ QuotaInv
  <2> SUFFICES ASSUME AdmissionInit PROVE QuotaInv
    BY InitTyped
  <2>1. Reserved = {}
    BY DEF AdmissionInit, Reserved, Passed, Active
  <2>2. 0 <= (Cardinality(Clients) - 1) * LargestSize
    BY InitTyped, ReservedFits, LargestFits
  <2>3. Quota \in Nat
    BY InitTyped, TypesApart, LimitTyped
  <2>4. (Cardinality(Clients) - 1) * LargestSize \in Int
    BY InitTyped, ReservedFits, LargestFits
  <2>5. Cardinality(Reserved) <= Ceiling
    BY <2>1, <2>2, <2>3, <2>4, FS_EmptySet DEF Ceiling
  <2> QED BY <2>5, FS_EmptySet, LargestFits DEF AdmissionInit, QuotaInv
<1>2. AdmissionTypeOK /\ QuotaInv /\ [AdmissionNext]_vars => (AdmissionTypeOK /\ QuotaInv)'
  BY NextTyped, QuotaNextInv
<1>3. AdmissionTypeOK /\ QuotaInv => QuotaOvershoot
  BY ReservedFits DEF QuotaInv, QuotaOvershoot, Ceiling
<1> QED BY <1>1, <1>2, <1>3, PTL DEF AdmissionSpec
=============================================================================
