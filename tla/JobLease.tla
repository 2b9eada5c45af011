------------------------------ MODULE JobLease ------------------------------
(* JobLeaseStore: one Redis key per job, set by SET NX EX and deleted by the *)
(* worker that finds its own id in it.  The expiry is an event of its own;   *)
(* which component may suffer it, and when, is said where it is used.        *)
EXTENDS JobIds

CONSTANTS
    HolderIds,  \* the worker ids that may be written into a lease
    NoHolder    \* the key does not exist

ASSUME NoHolderAssumption == NoHolder \notin HolderIds

VARIABLE lease

LeaseTypeOK == lease \in [Jobs -> HolderIds \cup {NoHolder}]

LeaseInit == lease = [j \in Jobs |-> NoHolder]

Free(j) == lease[j] = NoHolder

HeldBy(j, id) == lease[j] = id

AcquireAlways(j, id) == lease' = [lease EXCEPT ![j] = id]  \* mutant: no NX

(* SET key id NX EX ttl                                                      *)
Acquire(j, id) ==
    /\ Free(j)
    /\ lease' = [lease EXCEPT ![j] = id]

(* DEL key, sent by release() after a GET that returned the caller's id; by  *)
(* now the key may hold another id.                                          *)
Delete(j) == lease' = [lease EXCEPT ![j] = NoHolder]

NeverExpires(j) == FALSE    \* mutant: no EX

Expire(j) ==
    /\ ~Free(j)
    /\ lease' = [lease EXCEPT ![j] = NoHolder]
=============================================================================
