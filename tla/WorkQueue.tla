------------------------------ MODULE WorkQueue -----------------------------
(* A bounded queue read at least once, as the workers rely on it.  A message *)
(* waits, is taken by a worker in the order of arrival, and stays in flight  *)
(* until a worker that has it in hand settles it; a worker may put messages  *)
(* down unsettled, and another one gets them again.  Only messages that      *)
(* Capacity newer ones have followed may be dropped, wherever they are.      *)
EXTENDS Naturals

CONSTANTS
    Workers,
    MaxMsgs,    \* bound: messages ever put
    Capacity,   \* the newest messages that are never dropped
    Shared      \* may a message be handed out again while a worker has it?

VARIABLES
    put,        \* the messages 1..put have been put
    dropped,    \* the messages 1..dropped are gone
    waiting,    \* no worker has had them yet
    inflight,   \* taken and not settled
    hands       \* hands[w]: the messages w still has to deal with

queueVars == <<put, dropped, waiting, inflight, hands>>

Init ==
    /\ put = 0 /\ dropped = 0
    /\ waiting = {} /\ inflight = {}
    /\ hands = [w \in Workers |-> {}]

Drop(d) ==
    \/ d = dropped
    \/ d > dropped /\ put' - d >= Capacity

Put ==
    /\ put < MaxMsgs
    /\ put' = put + 1
    /\ \E d \in 0..put + 1 :
          /\ Drop(d)
          /\ dropped' = d
          /\ waiting' = {m \in waiting \cup {put + 1} : d < m}
          /\ inflight' = {m \in inflight : d < m}
    /\ UNCHANGED hands

Take(w) ==
    /\ hands[w] = {}
    /\ \E m \in waiting :
          /\ \A n \in waiting : m <= n
          /\ waiting' = waiting \ {m}
          /\ inflight' = inflight \cup {m}
          /\ hands' = [hands EXCEPT ![w] = {m}]
    /\ UNCHANGED <<put, dropped>>

Retake(w) ==
    /\ hands[w] = {}
    /\ \E S \in SUBSET inflight :
          /\ Shared \/ \A v \in Workers : S \cap hands[v] = {}
          /\ hands' = [hands EXCEPT ![w] = S]
    /\ UNCHANGED <<put, dropped, waiting, inflight>>

Keeps(w) == \E S \in SUBSET hands[w] : hands' = [hands EXCEPT ![w] = S]

PutDown(w) ==
    /\ Keeps(w)
    /\ UNCHANGED <<put, dropped, waiting, inflight>>

Settle(w) ==
    /\ \E m \in hands[w] : inflight' = inflight \ {m}
    /\ Keeps(w)
    /\ UNCHANGED <<put, dropped, waiting>>

Next == Put \/ \E w \in Workers : Take(w) \/ Retake(w) \/ PutDown(w) \/ Settle(w)

Spec == Init /\ [][Next]_queueVars
=============================================================================
