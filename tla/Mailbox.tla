------------------------------ MODULE Mailbox ------------------------------
(***************************************************************************)
(* How messages travel from one sender node to one recipient mailbox:      *)
(* sender's outbox (SQLite) -> JetStream stream -> durable pull consumer   *)
(* -> recipient's inbox rows (SQLite) -> dispatcher.                       *)
(*                                                                         *)
(* The sender has two kinds of publisher: the call of Hub.send that queued *)
(* a message tries to publish it at once ("direct"), and the daemon's      *)
(* outbox loop publishes what is still queued ("flusher").  They share the *)
(* outbox and do not know of each other.                                   *)
(*                                                                         *)
(* Abstracted: message bodies (a message is its id), the five second poll  *)
(* and back-off delays, the batch limits of fetch (16) and outbox (100),   *)
(* and the stream's max_age, which is taken to be longer than any outage.  *)
(* The death of a publisher is a publish that fails: in both cases the row *)
(* stays queued and the request may still reach the server later.         *)
(* MaxFaults bounds crashes, outages, lost replies and window expiries     *)
(* together.                                                               *)
(***************************************************************************)
EXTENDS Naturals, Sequences, FiniteSets

CONSTANTS
  Msgs,        \* message ids the sender node queues for this mailbox
  Refused,     \* those the receiver finds invalid, spoofed or misrouted
  NoMsg,       \* "no message"
  MaxFaults    \* bound: how many faults may happen in one behaviour

ASSUME MsgsAssumption == IsFiniteSet(Msgs) /\ Refused \subseteq Msgs /\ NoMsg \notin Msgs
ASSUME FaultsAssumption == MaxFaults \in Nat

Publishers == {"direct", "flusher"}

VARIABLES
  outbox,      \* message -> state of its 'out' row ("absent": no row yet)
  outRow,      \* message -> rowid of its 'out' row (0: none)
  connected,   \* the sender's bus.connected
  direct,      \* messages whose Hub.send awaits the publish acknowledgement
  batch,       \* flush_outbox: rows of its SELECT still to be published
  flushing,    \* the message flush_outbox awaits the acknowledgement of
  wire,        \* publish requests between client and server
  replies,     \* publish acknowledgements between server and client
  stream,      \* the JetStream stream: sequence number -> message
  recent,      \* message ids inside the server's duplicate window
  pending,     \* sequence numbers delivered and not yet acknowledged
  acked,       \* sequence numbers the consumer will never deliver again
  fetched,     \* sequence numbers _receiver holds in memory
  toAck,       \* sequence number committed by _receive_one, ack not yet sent
  inbox,       \* message -> state of its 'in' row
  inRow,       \* message -> rowid of its 'in' row (0: none)
  todo,        \* _dispatcher: rows of its snapshot still to be handled
  doing,       \* message _handle has processed and mark_handled has not
  runs,        \* message -> how many times _handle ran for it
  deaths,      \* how many times the recipient daemon died
  faults       \* faults so far, at most MaxFaults

senderVars   == <<outbox, outRow, connected, direct, batch, flushing>>
serverVars   == <<wire, replies, stream, recent, pending, acked>>
receiverVars == <<fetched, toAck, inbox, inRow>>
dispatchVars == <<todo, doing, runs, deaths>>
vars == <<senderVars, serverVars, receiverVars, dispatchVars, faults>>

-----------------------------------------------------------------------------
Sequenced == DOMAIN stream
Available == Sequenced \ (pending \cup acked)

(* Publisher p awaits the acknowledgement of message m. *)
Awaits(p, m) == IF p = "direct" THEN m \in direct ELSE flushing = m

(* The rowid of a new row: rows are never deleted. *)
NextRow(box) == 1 + Cardinality({n \in Msgs : box[n] # "absent"})

(* m comes first among S by rowid. *)
IsFirst(m, S, row) == m \in S /\ \A n \in S : row[m] <= row[n]

Fault == faults < MaxFaults /\ faults' = faults + 1

Init ==
  /\ outbox = [m \in Msgs |-> "absent"] /\ outRow = [m \in Msgs |-> 0]
  /\ connected = TRUE
  /\ direct = {} /\ batch = {} /\ flushing = NoMsg
  /\ wire = {} /\ replies = {} /\ stream = <<>> /\ recent = {}
  /\ pending = {} /\ acked = {}
  /\ fetched = {} /\ toAck = 0
  /\ inbox = [m \in Msgs |-> "absent"] /\ inRow = [m \in Msgs |-> 0]
  /\ todo = {} /\ doing = NoMsg /\ runs = [m \in Msgs |-> 0]
  /\ deaths = 0 /\ faults = 0

-----------------------------------------------------------------------------
(* Sender node *)

(* Hub.send: the row is committed first; then try_publish, which returns   *)
(* "queued" at once when the bus is not connected.                         *)
Send(m) ==
  /\ outbox[m] = "absent"
  /\ outbox' = [outbox EXCEPT ![m] = "queued"]
  /\ outRow' = [outRow EXCEPT ![m] = NextRow(outbox)]
  /\ IF connected
       THEN direct' = direct \cup {m} /\ wire' = wire \cup {<<"direct", m>>}
       ELSE UNCHANGED <<direct, wire>>
  /\ UNCHANGED <<connected, batch, flushing, replies, stream, recent, pending, acked,
                 receiverVars, dispatchVars, faults>>

(* _outbox_loop wakes up: flush_outbox reads the queued rows. *)
FlushStart ==
  /\ batch = {} /\ flushing = NoMsg
  /\ \E m \in Msgs : outbox[m] = "queued"
  /\ batch' = {m \in Msgs : outbox[m] = "queued"}
  /\ UNCHANGED <<outbox, outRow, connected, direct, flushing, serverVars, receiverVars, dispatchVars, faults>>

(* flush_outbox publishes the next row of its snapshot, without looking    *)
(* whether someone else has published it since.                            *)
FlushPublish(m) ==
  /\ flushing = NoMsg /\ connected
  /\ IsFirst(m, batch, outRow)
  /\ flushing' = m
  /\ wire' = wire \cup {<<"flusher", m>>}
  /\ UNCHANGED <<outbox, outRow, connected, direct, batch, replies, stream, recent, pending, acked,
                 receiverVars, dispatchVars, faults>>

(* try_publish finds the bus disconnected: flush_outbox stops. *)
FlushBreak ==
  /\ flushing = NoMsg /\ batch # {} /\ ~connected
  /\ batch' = {}
  /\ UNCHANGED <<outbox, outRow, connected, direct, flushing, serverVars, receiverVars, dispatchVars, faults>>

(* The acknowledgement arrives: mark_sent. *)
PublishOk(p, m) ==
  /\ Awaits(p, m) /\ <<p, m>> \in replies
  /\ outbox' = [outbox EXCEPT ![m] = "sent"]
  /\ replies' = replies \ {<<p, m>>}
  /\ IF p = "direct"
       THEN direct' = direct \ {m} /\ UNCHANGED <<batch, flushing>>
       ELSE batch' = batch \ {m} /\ flushing' = NoMsg /\ UNCHANGED direct
  /\ UNCHANGED <<outRow, connected, wire, stream, recent, pending, acked, receiverVars, dispatchVars, faults>>

(* Mutants of PublishFails: the row leaves 'queued' on an error ... *)
PublishFailsToError(p, m) ==
  /\ Awaits(p, m) /\ Fault
  /\ outbox' = [outbox EXCEPT ![m] = "error"]
  /\ wire' \in {wire, wire \ {<<p, m>>}}
  /\ replies' = replies \ {<<p, m>>}
  /\ IF p = "direct"
       THEN direct' = direct \ {m} /\ UNCHANGED <<batch, flushing>>
       ELSE batch' = {} /\ flushing' = NoMsg /\ UNCHANGED direct
  /\ UNCHANGED <<outRow, connected, stream, recent, pending, acked, receiverVars, dispatchVars>>

(* ... or the error ends the outbox loop. *)
PublishFailsEndsLoop(p, m) ==
  /\ Awaits(p, m) /\ Fault
  /\ wire' = wire \ {<<p, m>>} /\ replies' = replies \ {<<p, m>>}
  /\ direct' = IF p = "direct" THEN direct \ {m} ELSE direct
  /\ UNCHANGED <<outbox, outRow, connected, batch, flushing, stream, recent, pending, acked,
                 receiverVars, dispatchVars>>

(* The publish raises (timeout, connection error) or its process dies:     *)
(* mark_send_error leaves the row queued, and flush_outbox breaks off. The *)
(* request is lost, or still under way; a reply has nobody to go to.       *)
PublishFails(p, m) ==
  /\ Awaits(p, m) /\ Fault
  /\ wire' \in {wire, wire \ {<<p, m>>}}
  /\ replies' = replies \ {<<p, m>>}
  /\ IF p = "direct"
       THEN direct' = direct \ {m} /\ UNCHANGED <<batch, flushing>>
       ELSE batch' = {} /\ flushing' = NoMsg /\ UNCHANGED direct
  /\ UNCHANGED <<outbox, outRow, connected, stream, recent, pending, acked, receiverVars, dispatchVars>>

Disconnect ==
  /\ connected /\ Fault
  /\ connected' = FALSE
  /\ UNCHANGED <<outbox, outRow, direct, batch, flushing, serverVars, receiverVars, dispatchVars>>

Reconnect ==
  /\ ~connected
  /\ connected' = TRUE
  /\ UNCHANGED <<outbox, outRow, direct, batch, flushing, serverVars, receiverVars, dispatchVars, faults>>

-----------------------------------------------------------------------------
(* NATS server *)

(* A publish request arrives. Its Nats-Msg-Id is the message id: within    *)
(* the duplicate window a second copy is acknowledged and not stored.      *)
ServerStore(p, m) ==
  /\ <<p, m>> \in wire /\ connected
  /\ wire' = wire \ {<<p, m>>}
  /\ IF m \in recent
       THEN UNCHANGED <<stream, recent>>
       ELSE stream' = Append(stream, m) /\ recent' = recent \cup {m}
  /\ replies' = IF Awaits(p, m) THEN replies \cup {<<p, m>>} ELSE replies
  /\ UNCHANGED <<senderVars, pending, acked, receiverVars, dispatchVars, faults>>

(* DUPLICATE_WINDOW_S passes for m. *)
WindowExpires(m) ==
  /\ m \in recent /\ Fault
  /\ recent' = recent \ {m}
  /\ UNCHANGED <<senderVars, wire, replies, stream, pending, acked, receiverVars, dispatchVars>>

(* ACK_WAIT_S passes: the copy will be delivered again. *)
AckWaitExpires(s) ==
  /\ s \in pending
  /\ pending' = pending \ {s}
  /\ UNCHANGED <<senderVars, wire, replies, stream, recent, acked, receiverVars, dispatchVars, faults>>

-----------------------------------------------------------------------------
(* Recipient node: _receiver *)

(* Mutant of Fetch: an inbox consumer created without explicit acks. *)
FetchAutoAck(s) ==
  /\ fetched = {} /\ s \in Available
  /\ fetched' = {x \in Available : x <= s}
  /\ acked' = acked \cup fetched'
  /\ UNCHANGED <<senderVars, wire, replies, stream, recent, pending, toAck, inbox, inRow, dispatchVars, faults>>

(* sub.fetch returns available copies up to s, in stream order. *)
Fetch(s) ==
  /\ fetched = {} /\ s \in Available
  /\ fetched' = {x \in Available : x <= s}
  /\ pending' = pending \cup fetched'
  /\ UNCHANGED <<senderVars, wire, replies, stream, recent, acked, toAck, inbox, inRow, dispatchVars, faults>>

IsNext(s) == s \in fetched /\ toAck = 0 /\ \A x \in fetched : s <= x

(* _receive_one drops an invalid or misrouted message: term(). *)
Terminate(s) ==
  /\ IsNext(s) /\ stream[s] \in Refused
  /\ fetched' = fetched \ {s}
  /\ acked' = acked \cup {s} /\ pending' = pending \ {s}
  /\ UNCHANGED <<senderVars, wire, replies, stream, recent, toAck, inbox, inRow, dispatchVars, faults>>

(* _receive_one commits the message: ledger.ingest, which ignores an id    *)
(* it already has.                                                         *)
Ingest(s) ==
  /\ IsNext(s) /\ stream[s] \notin Refused
  /\ LET m == stream[s] IN
       IF inbox[m] = "absent"
         THEN /\ inbox' = [inbox EXCEPT ![m] = "new"]
              /\ inRow' = [inRow EXCEPT ![m] = NextRow(inbox)]
         ELSE UNCHANGED <<inbox, inRow>>
  /\ toAck' = s
  /\ UNCHANGED <<senderVars, serverVars, fetched, dispatchVars, faults>>

(* ... and only then acknowledges it. *)
Ack(s) ==
  /\ s = toAck /\ s # 0
  /\ fetched' = fetched \ {s} /\ toAck' = 0
  /\ acked' = acked \cup {s} /\ pending' = pending \ {s}
  /\ UNCHANGED <<senderVars, wire, replies, stream, recent, inbox, inRow, dispatchVars, faults>>

(* The acknowledgement is not confirmed by the server: it may be lost. *)
AckLost(s) ==
  /\ s = toAck /\ s # 0 /\ Fault
  /\ fetched' = fetched \ {s} /\ toAck' = 0
  /\ UNCHANGED <<senderVars, serverVars, inbox, inRow, dispatchVars>>

-----------------------------------------------------------------------------
(* Recipient node: _dispatcher *)

(* ledger.unhandled: the rows in state 'new'. *)
Snapshot ==
  /\ todo = {} /\ doing = NoMsg
  /\ \E m \in Msgs : inbox[m] = "new"
  /\ todo' = {m \in Msgs : inbox[m] = "new"}
  /\ UNCHANGED <<senderVars, serverVars, receiverVars, doing, runs, deaths, faults>>

(* Mutant of Handle: a snapshot without ORDER BY rowid. *)
HandleAnyRow(m) ==
  /\ doing = NoMsg /\ m \in todo
  /\ doing' = m
  /\ runs' = [runs EXCEPT ![m] = @ + 1]
  /\ UNCHANGED <<senderVars, serverVars, receiverVars, todo, deaths, faults>>

(* _handle(m) has taken effect ... *)
Handle(m) ==
  /\ doing = NoMsg /\ IsFirst(m, todo, inRow)
  /\ doing' = m
  /\ runs' = [runs EXCEPT ![m] = @ + 1]
  /\ UNCHANGED <<senderVars, serverVars, receiverVars, todo, deaths, faults>>

(* Mutant of MarkHandled: a failed handler leaves its row 'new'. *)
MarkHandledSkips(m) ==
  /\ doing = m /\ m # NoMsg
  /\ doing' = NoMsg /\ todo' = todo \ {m}
  /\ UNCHANGED <<senderVars, serverVars, receiverVars, runs, deaths, faults>>

(* ... and mark_handled records it (as "handled", "rejected" or "dropped"). *)
MarkHandled(m) ==
  /\ doing = m /\ m # NoMsg
  /\ inbox' = [inbox EXCEPT ![m] = "handled"]
  /\ doing' = NoMsg /\ todo' = todo \ {m}
  /\ UNCHANGED <<senderVars, serverVars, fetched, toAck, inRow, runs, deaths, faults>>

(* The recipient daemon dies and is started again: what it held in memory  *)
(* is gone; the ledger and the consumer's bookkeeping are not.             *)
ReceiverDies ==
  /\ Fault
  /\ fetched' = {} /\ toAck' = 0 /\ todo' = {} /\ doing' = NoMsg
  /\ deaths' = deaths + 1
  /\ UNCHANGED <<senderVars, serverVars, inbox, inRow, runs>>

-----------------------------------------------------------------------------
SenderNext ==
  \/ \E m \in Msgs : Send(m) \/ FlushPublish(m)
  \/ FlushStart \/ FlushBreak \/ Disconnect \/ Reconnect
  \/ \E p \in Publishers, m \in Msgs : PublishOk(p, m) \/ PublishFails(p, m)

ServerNext ==
  \/ \E p \in Publishers, m \in Msgs : ServerStore(p, m)
  \/ \E m \in Msgs : WindowExpires(m)
  \/ \E s \in Sequenced : AckWaitExpires(s)

RecipientNext ==
  \/ \E s \in Sequenced : Fetch(s) \/ Terminate(s) \/ Ingest(s) \/ Ack(s) \/ AckLost(s)
  \/ \E m \in Msgs : Handle(m) \/ MarkHandled(m)
  \/ Snapshot \/ ReceiverDies

Next == SenderNext \/ ServerNext \/ RecipientNext

Flusher == FlushStart \/ FlushBreak \/ \E m \in Msgs : FlushPublish(m) \/ PublishOk("flusher", m)
Receiver == \E s \in Sequenced : Fetch(s) \/ Terminate(s) \/ Ingest(s) \/ Ack(s)
Dispatcher == Snapshot \/ \E m \in Msgs : Handle(m) \/ MarkHandled(m)

(* Each loop of a daemon keeps taking steps, the link comes back, the      *)
(* server processes requests and redelivers what was not acknowledged.     *)
(* Nothing is assumed about who sends what.                                *)
Fairness ==
  /\ WF_vars(Flusher) /\ WF_vars(Receiver) /\ WF_vars(Dispatcher)
  /\ WF_vars(Reconnect)
  /\ WF_vars(\E p \in Publishers, m \in Msgs : ServerStore(p, m))
  /\ WF_vars(\E s \in pending \ fetched : AckWaitExpires(s))

Spec == Init /\ [][Next]_vars
FairSpec == Spec /\ Fairness

-----------------------------------------------------------------------------
(* Every variable has its type. *)
TypeOK ==
  /\ outbox \in [Msgs -> {"absent", "queued", "sent"}] /\ outRow \in [Msgs -> Nat]
  /\ connected \in BOOLEAN /\ direct \subseteq Msgs /\ batch \subseteq Msgs
  /\ flushing \in Msgs \cup {NoMsg}
  /\ wire \subseteq Publishers \X Msgs /\ replies \subseteq Publishers \X Msgs
  /\ stream \in Seq(Msgs) /\ recent \subseteq Msgs
  /\ pending \subseteq Nat /\ acked \subseteq Nat /\ fetched \subseteq Nat /\ toAck \in Nat
  /\ inbox \in [Msgs -> {"absent", "new", "handled"}] /\ inRow \in [Msgs -> Nat]
  /\ todo \subseteq Msgs /\ doing \in Msgs \cup {NoMsg} /\ runs \in [Msgs -> Nat]
  /\ deaths \in Nat /\ faults \in Nat

Stored(m) == \E s \in Sequenced : stream[s] = m
Ingested(m) == inbox[m] # "absent"

(* Nothing is lost: a row marked 'sent' is in the recipient's ledger, or   *)
(* the stream still holds a copy it will deliver (again), or the recipient *)
(* refuses it. This is commit-then-ack on one side and mark_sent only on   *)
(* an acknowledged publish on the other, over every loss and crash.        *)
NothingLost ==
  \A m \in Msgs \ Refused : outbox[m] = "sent" =>
    Ingested(m) \/ \E s \in Sequenced \ acked : stream[s] = m

(* At-least-once handling: a row leaves 'new' only after _handle ran for   *)
(* it, and _handle runs again only after a death of the daemon between the *)
(* handling and mark_handled - never because of duplicates or redelivery.  *)
HandledOncePerLife ==
  \A m \in Msgs : (inbox[m] = "handled" => runs[m] >= 1) /\ runs[m] <= 1 + deaths

(* The inductive invariant behind NothingLost: an acknowledgement on its   *)
(* way, a row marked sent and an id in the duplicate window each have a    *)
(* copy in the stream, and the consumer has put away only copies that are  *)
(* refused or committed.                                                   *)
CopiesInv ==
  /\ \A p \in Publishers, m \in Msgs : <<p, m>> \in replies => Stored(m)
  /\ \A m \in Msgs : m \in recent \/ outbox[m] = "sent" => Stored(m)
  /\ \A s \in acked : s \in Sequenced /\ (stream[s] \in Refused \/ Ingested(stream[s]))
  /\ toAck # 0 => toAck \in Sequenced /\ Ingested(stream[toAck])

(* The inductive invariant behind HandledOncePerLife and HandledIsFinal:   *)
(* the dispatcher's snapshot holds new rows only, and each death costs at  *)
(* most one run of each handler.                                           *)
DispatchInv ==
  /\ \A m \in todo : inbox[m] = "new"
  /\ doing # NoMsg => doing \in todo /\ runs[doing] >= 1
  /\ \A m \in Msgs : inbox[m] = "handled" => runs[m] >= 1
  /\ \A m \in Msgs : runs[m] <= deaths + (IF doing = m \/ inbox[m] = "handled" THEN 1 ELSE 0)

(* Once marked handled a message is never handled again, whatever is       *)
(* redelivered, republished or restarted afterwards.                       *)
LeavesHandledAlone == \A m \in Msgs : inbox[m] = "handled" => inbox'[m] = "handled" /\ runs'[m] = runs[m]
HandledIsFinal == [][LeavesHandledAlone]_vars

(* The mailbox implements ReliableMailbox: the 'in' rows sorted by rowid   *)
(* are its log, the rows past 'new' what its reader has consumed.  In      *)
(* particular nothing arrives that was not queued, nothing arrives twice,  *)
(* and the dispatcher, though it works on snapshots and restarts, never    *)
(* marks a row handled while an earlier one is still new.                  *)
Queued  == {m \in Msgs : outbox[m] # "absent"}
Rows    == {m \in Msgs : Ingested(m)}
Handled == {m \in Msgs : inbox[m] = "handled"}
Log     == [i \in 1 .. Cardinality(Rows) |-> CHOOSE m \in Msgs : inRow[m] = i]

Reliable == INSTANCE ReliableMailbox WITH queued <- Queued, log <- Log, consumed <- Handled

ImplementsReliableMailbox == Reliable!Spec

(* The inductive invariants behind the refinement.  What is on its way was *)
(* queued; rowids number the rows of the inbox from 1 without a gap; ...   *)
RowsInv ==
  /\ \A m \in Msgs : m \in batch \/ (\E p \in Publishers : <<p, m>> \in wire) \/ Stored(m) => m \in Queued
  /\ Rows \subseteq Queued \ Refused
  /\ \A m \in Msgs : Ingested(m) <=> inRow[m] # 0
  /\ \A m, n \in Rows : inRow[m] = inRow[n] => m = n
  /\ {inRow[m] : m \in Rows} = 1 .. Cardinality(Rows)

(* ... the handled rows are the first ones; and no new row is older than   *)
(* one the dispatcher has in its snapshot, which it works off in order.    *)
PrefixInv ==
  /\ \A m \in Rows : m \in Handled <=> inRow[m] <= Cardinality(Handled)
  /\ \A m \in todo, n \in Msgs \ todo : inbox[n] = "new" => inRow[m] < inRow[n]
  /\ doing # NoMsg => IsFirst(doing, todo, inRow)

(* Every queued row is eventually marked sent, although flush_outbox       *)
(* breaks off at the first failure, and every message is handled, unless   *)
(* the recipient refuses it, through any finite number of outages, losses  *)
(* and crashes.                                                            *)
EventuallyHandled ==
  \A m \in Msgs :
    outbox[m] = "queued" ~> outbox[m] = "sent" /\ (m \in Refused \/ inbox[m] = "handled")
=============================================================================
