-------------------------- MODULE ReliableMailbox --------------------------
(***************************************************************************)
(* What a mailbox promises to the two agents that use it, whatever links,  *)
(* servers and daemons do in between: queueing a message is final; the     *)
(* recipient's ledger is an append-only log that holds each valid queued   *)
(* message at most once; and the recipient's dispatcher consumes that log  *)
(* from its beginning without skipping.  The log's order is the order of   *)
(* commitment at the recipient: no relation to the order of queueing is    *)
(* promised.                                                               *)
(***************************************************************************)
EXTENDS Naturals, Sequences, FiniteSets

CONSTANTS Msgs, Refused

VARIABLES
  queued,     \* messages the sender has committed to its outbox
  log,        \* messages committed by the recipient, in commit order
  consumed    \* messages the recipient has handled for good

vars == <<queued, log, consumed>>

Logged == {log[i] : i \in DOMAIN log}

Init == queued = {} /\ log = <<>> /\ consumed = {}

Queue(m) ==
  /\ m \notin queued
  /\ queued' = queued \cup {m}
  /\ UNCHANGED <<log, consumed>>

Commit(m) ==
  /\ m \in queued \ (Logged \cup Refused)
  /\ log' = Append(log, m)
  /\ UNCHANGED <<queued, consumed>>

Consume ==
  /\ Cardinality(consumed) < Len(log)
  /\ consumed' = consumed \cup {log[Cardinality(consumed) + 1]}
  /\ UNCHANGED <<queued, log>>

Next == Consume \/ \E m \in Msgs : Queue(m) \/ Commit(m)

Spec == Init /\ [][Next]_vars
=============================================================================
