------------------------------ MODULE JobStream -----------------------------
(* JobStreamQueue: a Redis stream read through one consumer group, and the   *)
(* dead letter stream.  A message id is the index at which XADD appended it. *)
EXTENDS JobIds, Naturals, Sequences, FiniteSets

CONSTANTS
    StreamMaxLen,   \* JOB_STREAM_MAXLEN
    MaxMsgs         \* bound of the model: messages ever added

ASSUME StreamAssumption == StreamMaxLen \in Nat \ {0} /\ MaxMsgs \in Nat

VARIABLES
    entries,    \* entries[id]: the job_id field of the message
    trimmed,    \* the stream has dropped the messages 1..trimmed
    cursor,     \* last id delivered to the group
    pending,    \* the group's pending entries list (PEL)
    dlq         \* records of the dead letter stream

streamVars == <<entries, trimmed, cursor, pending, dlq>>

Ids == 1..Len(entries)

DlqRecord == [job : Jobs, source : Nat]

StreamTypeOK ==
    /\ entries \in Seq(Jobs)
    /\ trimmed \in 0..Len(entries)
    /\ cursor \in 0..Len(entries)
    /\ pending \subseteq 1..cursor
    /\ dlq \subseteq DlqRecord

(* ensure_group creates the group at id 0, before the first message.         *)
StreamInit ==
    /\ entries = <<>>
    /\ trimmed = 0
    /\ cursor = 0
    /\ pending = {}
    /\ dlq = {}

EnqueueTrimsOneMore(j) ==   \* mutant: the entry being added is counted twice
    /\ Len(entries) < MaxMsgs
    /\ entries' = Append(entries, j)
    /\ \/ trimmed' = trimmed
       \/ trimmed' \in {n \in trimmed + 1 .. Len(entries) + 1 :
                            Len(entries) + 2 - n >= StreamMaxLen}
    /\ UNCHANGED <<cursor, pending, dlq>>

(* XADD MAXLEN ~: Redis may trim the head, never below StreamMaxLen messages. *)
Enqueue(j) ==
    /\ Len(entries) < MaxMsgs
    /\ entries' = Append(entries, j)
    /\ \/ trimmed' = trimmed
       \/ trimmed' \in {n \in trimmed + 1 .. Len(entries) + 1 :
                            Len(entries) + 1 - n >= StreamMaxLen}
    /\ UNCHANGED <<cursor, pending, dlq>>

Undelivered == {m \in Ids : cursor < m /\ trimmed < m}

(* XREADGROUP ">" COUNT 1: the oldest message the group has not seen.        *)
Deliver(m) ==
    /\ m \in Undelivered
    /\ \A n \in Undelivered : m <= n
    /\ cursor' = m
    /\ pending' = pending \cup {m}
    /\ UNCHANGED <<entries, trimmed, dlq>>

(* XAUTOCLAIM from "0-0": the idle messages S change hands and stay pending; *)
(* the scan drops the entries that the stream no longer holds.               *)
Claim(S) ==
    /\ S \subseteq {m \in pending : trimmed < m}
    /\ pending' = {m \in pending : trimmed < m}
    /\ UNCHANGED <<entries, trimmed, cursor, dlq>>

(* XACK: of no effect when the message is no longer pending.                 *)
Ack(m) ==
    /\ pending' = pending \ {m}
    /\ UNCHANGED <<entries, trimmed, cursor, dlq>>

SendToDlq(j, m) ==
    /\ dlq' = dlq \cup {[job |-> j, source |-> m]}
    /\ UNCHANGED <<entries, trimmed, cursor, pending>>

(* A message the group will still hand to some worker.                       *)
Outstanding(j) ==
    \E m \in Ids : /\ entries[m] = j
                   /\ trimmed < m
                   /\ cursor < m \/ m \in pending
=============================================================================
