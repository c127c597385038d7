--------------------------- MODULE MailboxProofs ---------------------------
(* Proofs about Mailbox for every set of messages and every number of      *)
(* faults: type correctness, NothingLost, HandledOncePerLife,              *)
(* HandledIsFinal, and the refinement of ReliableMailbox.  The inductive   *)
(* invariants are stated in Mailbox; none of the proofs needs an induction *)
(* over the log: a rowid is where its message is in the log.               *)
EXTENDS Mailbox, FiniteSetTheorems, TLAPS

-----------------------------------------------------------------------------
(* Type correctness *)

(* Row numbers are natural numbers. *)
LEMMA NextRowType == \A box : NextRow(box) \in Nat
<1> TAKE box
<1> DEFINE Present == {n \in Msgs : box[n] # "absent"}
<1>1. Cardinality(Present) \in Nat
  <2>1. IsFiniteSet(Present)
    BY MsgsAssumption, FS_Subset
  <2> HIDE DEF Present
  <2> QED
    BY <2>1, FS_CardinalityType
<1>2. NextRow(box) = 1 + Cardinality(Present)
  BY DEF NextRow
<1> HIDE DEF Present
<1> QED
  BY <1>1, <1>2

(* Appending to the stream keeps what it holds, at the same places. *)
LEMMA AppendKeeps ==
  ASSUME NEW st \in Seq(Msgs), NEW m \in Msgs
  PROVE  /\ Append(st, m) \in Seq(Msgs)
         /\ DOMAIN st \subseteq DOMAIN Append(st, m)
         /\ \A s \in DOMAIN st : Append(st, m)[s] = st[s]
         /\ \E s \in DOMAIN Append(st, m) : Append(st, m)[s] = m
<1>1. DOMAIN Append(st, m) = 1 .. Len(st) + 1 /\ DOMAIN st = 1 .. Len(st)
  OBVIOUS
<1>2. Append(st, m)[Len(st) + 1] = m /\ Len(st) + 1 \in DOMAIN Append(st, m)
  BY <1>1
<1> QED
  BY <1>1, <1>2

LEMMA InitType == Init => TypeOK
BY FaultsAssumption DEF Init, TypeOK

LEMMA SenderType == TypeOK /\ SenderNext => TypeOK'
<1> SUFFICES ASSUME TypeOK, SenderNext PROVE TypeOK'
  OBVIOUS
<1> USE FaultsAssumption DEF TypeOK, Fault, serverVars, receiverVars, dispatchVars
<1>1. ASSUME NEW m \in Msgs, Send(m) PROVE TypeOK'
  <2>1. NextRow(outbox) \in Nat
    BY NextRowType
  <2>2. wire' \subseteq Publishers \X Msgs /\ direct' \subseteq Msgs
    BY <1>1 DEF Send, Publishers
  <2> QED
    BY <1>1, <2>1, <2>2 DEF Send
<1>2. ASSUME NEW m \in Msgs, FlushPublish(m) PROVE TypeOK'
  BY <1>2 DEF FlushPublish, IsFirst, Publishers
<1>3. CASE FlushStart
  BY <1>3 DEF FlushStart
<1>4. CASE FlushBreak
  BY <1>4 DEF FlushBreak
<1>5. CASE Disconnect
  <2>1. connected' \in BOOLEAN
    BY <1>5 DEF Disconnect
  <2>2. faults' \in Nat
    BY <1>5 DEF Disconnect
  <2> QED
    BY <1>5, <2>1, <2>2 DEF Disconnect
<1>6. CASE Reconnect
  BY <1>6 DEF Reconnect
<1>7. ASSUME NEW p \in Publishers, NEW m \in Msgs, PublishOk(p, m) PROVE TypeOK'
  BY <1>7 DEF PublishOk
<1>8. ASSUME NEW p \in Publishers, NEW m \in Msgs, PublishFails(p, m) PROVE TypeOK'
  BY <1>8 DEF PublishFails
<1> QED
  BY <1>1, <1>2, <1>3, <1>4, <1>5, <1>6, <1>7, <1>8 DEF SenderNext

LEMMA ServerType == TypeOK /\ ServerNext => TypeOK'
<1> SUFFICES ASSUME TypeOK, ServerNext PROVE TypeOK'
  OBVIOUS
<1> USE FaultsAssumption DEF TypeOK, Fault, senderVars, receiverVars, dispatchVars
<1>1. ASSUME NEW p \in Publishers, NEW m \in Msgs, ServerStore(p, m) PROVE TypeOK'
  <2>1. stream' = stream \/ stream' = Append(stream, m)
    BY <1>1 DEF ServerStore
  <2>2. stream' \in Seq(Msgs)
    <3>1. stream \in Seq(Msgs)
      OBVIOUS
    <3> QED
      BY <2>1, <3>1, AppendKeeps
  <2> QED
    BY <1>1, <2>2 DEF ServerStore
<1>2. ASSUME NEW m \in Msgs, WindowExpires(m) PROVE TypeOK'
  <2>1. recent' \subseteq Msgs
    BY <1>2 DEF WindowExpires
  <2>2. faults' \in Nat
    BY <1>2 DEF WindowExpires
  <2> QED
    BY <1>2, <2>1, <2>2 DEF WindowExpires
<1>3. ASSUME NEW s \in Sequenced, AckWaitExpires(s) PROVE TypeOK'
  BY <1>3 DEF AckWaitExpires
<1> QED
  BY <1>1, <1>2, <1>3 DEF ServerNext

LEMMA RecipientType == TypeOK /\ RecipientNext => TypeOK'
<1> SUFFICES ASSUME TypeOK, RecipientNext PROVE TypeOK'
  OBVIOUS
<1> USE FaultsAssumption DEF TypeOK, Fault, senderVars, serverVars, receiverVars, dispatchVars
<1>0. Sequenced \subseteq Nat /\ \A s \in Sequenced : stream[s] \in Msgs
  BY DEF Sequenced
<1>1. ASSUME NEW s \in Sequenced, Fetch(s) PROVE TypeOK'
  BY <1>0, <1>1 DEF Fetch, Available
<1>2. ASSUME NEW s \in Sequenced, Terminate(s) PROVE TypeOK'
  BY <1>0, <1>2 DEF Terminate
<1>3. ASSUME NEW s \in Sequenced, Ingest(s) PROVE TypeOK'
  <2>1. NextRow(inbox) \in Nat
    BY NextRowType
  <2> QED
    BY <1>0, <1>3, <2>1 DEF Ingest
<1>4. ASSUME NEW s \in Sequenced, Ack(s) PROVE TypeOK'
  BY <1>0, <1>4 DEF Ack
<1>5. ASSUME NEW s \in Sequenced, AckLost(s) PROVE TypeOK'
  BY <1>5 DEF AckLost
<1>6. ASSUME NEW m \in Msgs, Handle(m) PROVE TypeOK'
  BY <1>6 DEF Handle
<1>7. ASSUME NEW m \in Msgs, MarkHandled(m) PROVE TypeOK'
  BY <1>7 DEF MarkHandled
<1>8. CASE Snapshot
  BY <1>8 DEF Snapshot
<1>9. CASE ReceiverDies
  BY <1>9 DEF ReceiverDies
<1> QED
  BY <1>1, <1>2, <1>3, <1>4, <1>5, <1>6, <1>7, <1>8, <1>9 DEF RecipientNext

(* Every variable keeps its type, in every behaviour. *)
THEOREM TypeCorrect == Spec => []TypeOK
<1>1. TypeOK /\ [Next]_vars => TypeOK'
  <2>1. CASE UNCHANGED vars
    BY <2>1 DEF TypeOK, vars, senderVars, serverVars, receiverVars, dispatchVars
  <2> QED
    BY <2>1, SenderType, ServerType, RecipientType DEF Next
<1> QED
  BY InitType, <1>1, PTL DEF Spec

-----------------------------------------------------------------------------
(* Nothing is lost *)

(* A step that neither takes a copy out of the stream nor a row out of the *)
(* ledger, and adds no acknowledgement of any kind, keeps CopiesInv.       *)
LEMMA QuietStepKeepsCopies ==
  ASSUME TypeOK, CopiesInv,
         UNCHANGED <<outbox, stream, acked>>,
         replies' \subseteq replies, recent' \subseteq recent,
         toAck' \in {0, toAck},
         \A m \in Msgs : Ingested(m) => Ingested(m)'
  PROVE  CopiesInv'
<1>1. \A m \in Msgs : Stored(m)' <=> Stored(m)
  BY DEF Stored, Sequenced
<1>2. \A s \in Sequenced : stream[s] \in Msgs
  BY DEF TypeOK, Sequenced
<1>3. Sequenced' = Sequenced
  BY DEF Sequenced
<1>4. \A p \in Publishers, m \in Msgs : <<p, m>> \in replies' => Stored(m)'
  BY <1>1 DEF CopiesInv
<1>5. \A m \in Msgs : m \in recent' \/ outbox'[m] = "sent" => Stored(m)'
  BY <1>1 DEF CopiesInv
<1>6. \A s \in acked' : s \in Sequenced' /\ (stream'[s] \in Refused \/ Ingested(stream[s])')
  BY <1>2, <1>3 DEF CopiesInv
<1>7. toAck' # 0 => toAck' \in Sequenced' /\ Ingested(stream[toAck])'
  BY <1>2, <1>3 DEF CopiesInv
<1>8. QED
  BY <1>4, <1>5, <1>6, <1>7 DEF CopiesInv, Ingested

(* The copy an acknowledged publish talks about is in the stream.          *)
LEMMA StoreKeepsCopies ==
  ASSUME TypeOK, CopiesInv, NEW p \in Publishers, NEW m \in Msgs, ServerStore(p, m)
  PROVE  CopiesInv'
<1>1. /\ stream \in Seq(Msgs)
      /\ UNCHANGED <<outbox, acked, toAck, inbox>>
  BY DEF TypeOK, ServerStore, senderVars, receiverVars
<1>2. /\ Sequenced \subseteq Sequenced'
      /\ \A s \in Sequenced : stream[s] \in Msgs /\ stream'[s] = stream[s]
      /\ Stored(m)'
  <2>1. CASE m \in recent
    <3>1. stream' = stream
      BY <2>1 DEF ServerStore
    <3>2. Stored(m)
      BY <2>1 DEF CopiesInv
    <3> QED
      BY <1>1, <3>1, <3>2 DEF Sequenced, Stored
  <2>2. CASE m \notin recent
    <3>1. stream' = Append(stream, m)
      BY <2>2 DEF ServerStore
    <3>2. \A s \in Sequenced : stream[s] \in Msgs
      BY <1>1 DEF Sequenced
    <3> QED
      BY <1>1, <3>1, <3>2, AppendKeeps DEF Sequenced, Stored
  <2> QED
    BY <2>1, <2>2
<1>3. \A n \in Msgs : Stored(n) => Stored(n)'
  BY <1>2 DEF Stored
<1>4. replies' \subseteq replies \cup {<<p, m>>} /\ recent' \subseteq recent \cup {m}
  BY DEF ServerStore
<1>5. \A q \in Publishers, n \in Msgs : <<q, n>> \in replies' => Stored(n)'
  BY <1>2, <1>3, <1>4 DEF CopiesInv
<1>6. \A n \in Msgs : n \in recent' \/ outbox'[n] = "sent" => Stored(n)'
  BY <1>1, <1>2, <1>3, <1>4 DEF CopiesInv
<1>7. \A s \in acked' : s \in Sequenced' /\ (stream'[s] \in Refused \/ Ingested(stream[s])')
  BY <1>1, <1>2 DEF CopiesInv, Ingested
<1>8. toAck' # 0 => toAck' \in Sequenced' /\ Ingested(stream[toAck])'
  BY <1>1, <1>2 DEF CopiesInv, Ingested
<1> QED
  BY <1>5, <1>6, <1>7, <1>8 DEF CopiesInv, Ingested

(* A copy is put away only when its message is refused, or committed by    *)
(* the Ingest that came before the Ack.                                    *)
LEMMA ReceiveKeepsCopies ==
  ASSUME TypeOK, CopiesInv, NEW s \in Sequenced, Terminate(s) \/ Ingest(s) \/ Ack(s)
  PROVE  CopiesInv'
<1>1. UNCHANGED <<outbox, stream, replies, recent>>
  BY DEF Terminate, Ingest, Ack, senderVars, serverVars
<1>2. /\ Sequenced' = Sequenced
      /\ \A x \in Sequenced : stream[x] \in Msgs
      /\ \A m \in Msgs : Stored(m)' <=> Stored(m)
  BY <1>1 DEF TypeOK, Sequenced, Stored
<1>3. \A m \in Msgs : Ingested(m) => Ingested(m)'
  BY DEF Terminate, Ingest, Ack, Ingested, TypeOK
<1>4. \A p \in Publishers, m \in Msgs : <<p, m>> \in replies' => Stored(m)'
  BY <1>1, <1>2 DEF CopiesInv
<1>5. \A m \in Msgs : m \in recent' \/ outbox'[m] = "sent" => Stored(m)'
  BY <1>1, <1>2 DEF CopiesInv
<1>6. \A x \in acked' : x \in acked \/ (x = s /\ (stream[s] \in Refused \/ Ingested(stream[s])))
  BY DEF Terminate, Ingest, Ack, serverVars, CopiesInv
<1>7. \A x \in acked' : x \in Sequenced' /\ (stream'[x] \in Refused \/ inbox'[stream'[x]] # "absent")
  BY <1>1, <1>2, <1>3, <1>6 DEF CopiesInv, Ingested
<1>8. toAck' # 0 => toAck' \in Sequenced' /\ inbox'[stream'[toAck']] # "absent"
  <2>1. CASE Ingest(s)
    BY <1>1, <1>2, <2>1 DEF Ingest, TypeOK
  <2>2. CASE Terminate(s) \/ Ack(s)
    BY <1>1, <1>2, <1>3, <2>2 DEF Terminate, Ack, CopiesInv, Ingested
  <2> QED
    BY <2>1, <2>2
<1> QED
  BY <1>4, <1>5, <1>7, <1>8 DEF CopiesInv, Ingested

(* A row is marked sent on the strength of an acknowledgement.             *)
LEMMA PublishOkKeepsCopies ==
  ASSUME TypeOK, CopiesInv, NEW p \in Publishers, NEW m \in Msgs, PublishOk(p, m)
  PROVE  CopiesInv'
<1>1. /\ UNCHANGED <<stream, recent, acked, toAck, inbox>>
      /\ replies' \subseteq replies
      /\ outbox' = [outbox EXCEPT ![m] = "sent"]
  BY DEF PublishOk, receiverVars
<1>2. \A n \in Msgs : Stored(n)' <=> Stored(n)
  BY <1>1 DEF Stored, Sequenced
<1>3. Stored(m)
  BY DEF PublishOk, CopiesInv
<1>4. \A n \in Msgs : outbox'[n] = "sent" => n = m \/ outbox[n] = "sent"
  BY <1>1 DEF TypeOK
<1>5. \A n \in Msgs : n \in recent' \/ outbox'[n] = "sent" => Stored(n)'
  BY <1>1, <1>2, <1>3, <1>4 DEF CopiesInv
<1>6. \A q \in Publishers, n \in Msgs : <<q, n>> \in replies' => Stored(n)'
  BY <1>1, <1>2 DEF CopiesInv
<1> QED
  BY <1>1, <1>5, <1>6 DEF CopiesInv, Ingested, Sequenced

LEMMA CopiesStep == TypeOK /\ CopiesInv /\ [Next]_vars => CopiesInv'
<1> SUFFICES ASSUME TypeOK, CopiesInv, [Next]_vars PROVE CopiesInv'
  OBVIOUS
<1> USE DEF senderVars, serverVars, receiverVars, dispatchVars
<1>1. ASSUME NEW m \in Msgs, Send(m) PROVE CopiesInv'
  <2>1. UNCHANGED <<stream, recent, replies, acked, toAck, inbox>>
    BY <1>1 DEF Send
  <2>2. \A n \in Msgs : outbox'[n] = "sent" => outbox[n] = "sent"
    BY <1>1 DEF Send, TypeOK
  <2>3. \A n \in Msgs : Stored(n)' <=> Stored(n)
    BY <2>1 DEF Stored, Sequenced
  <2> QED
    BY <2>1, <2>2, <2>3 DEF CopiesInv, Ingested, Sequenced
<1>2. ASSUME NEW m \in Msgs, FlushPublish(m) \/ WindowExpires(m) \/ Handle(m) PROVE CopiesInv'
  BY <1>2, QuietStepKeepsCopies DEF FlushPublish, WindowExpires, Handle, Ingested
<1>3. ASSUME FlushStart \/ FlushBreak \/ Disconnect \/ Reconnect \/ Snapshot \/ ReceiverDies PROVE CopiesInv'
  BY <1>3, QuietStepKeepsCopies DEF FlushStart, FlushBreak, Disconnect, Reconnect, Snapshot, ReceiverDies, Ingested
<1>4. ASSUME NEW p \in Publishers, NEW m \in Msgs, PublishFails(p, m) PROVE CopiesInv'
  BY <1>4, QuietStepKeepsCopies DEF PublishFails, Ingested
<1>5. ASSUME NEW s \in Sequenced, AckWaitExpires(s) \/ Fetch(s) \/ AckLost(s) PROVE CopiesInv'
  BY <1>5, QuietStepKeepsCopies DEF AckWaitExpires, Fetch, AckLost, Ingested
<1>6. ASSUME NEW m \in Msgs, MarkHandled(m) PROVE CopiesInv'
  <2>1. \A n \in Msgs : Ingested(n) => Ingested(n)'
    BY <1>6 DEF MarkHandled, Ingested, TypeOK
  <2> QED
    BY <1>6, <2>1, QuietStepKeepsCopies DEF MarkHandled
<1>7. CASE UNCHANGED vars
  BY <1>7, QuietStepKeepsCopies DEF vars, Ingested
<1> QED
  BY <1>1, <1>2, <1>3, <1>4, <1>5, <1>6, <1>7, StoreKeepsCopies, ReceiveKeepsCopies, PublishOkKeepsCopies
  DEF Next, SenderNext, ServerNext, RecipientNext

(* Whatever is acknowledged, marked sent or remembered as published has a *)
(* copy in the stream that the consumer did not put away uncommitted.      *)
THEOREM CopiesCorrect == Spec => []CopiesInv
<1>1. Init => CopiesInv
  BY DEF Init, CopiesInv
<1> QED
  BY <1>1, CopiesStep, TypeCorrect, PTL DEF Spec

(* A message marked sent is in the recipient's ledger, or in a copy the    *)
(* consumer still has to deliver, for any number of messages and faults.   *)
THEOREM NothingIsLost == Spec => []NothingLost
<1>1. TypeOK /\ CopiesInv => NothingLost
  BY DEF CopiesInv, NothingLost, Stored
<1> QED
  BY <1>1, TypeCorrect, CopiesCorrect, PTL

-----------------------------------------------------------------------------
(* Handling *)

(* The dispatcher's own steps and everybody else's keep DispatchInv.       *)
LEMMA DispatchStep == TypeOK /\ DispatchInv /\ [Next]_vars => DispatchInv'
<1> SUFFICES ASSUME TypeOK, DispatchInv, [Next]_vars PROVE DispatchInv'
  OBVIOUS
<1>1. ASSUME UNCHANGED <<dispatchVars, inbox>> PROVE DispatchInv'
  BY <1>1 DEF DispatchInv, dispatchVars
<1>2. ASSUME NEW s \in Sequenced, Ingest(s) PROVE DispatchInv'
  <2>1. /\ UNCHANGED <<todo, doing, runs, deaths>>
        /\ \A n \in Msgs : inbox'[n] = inbox[n] \/ (inbox[n] = "absent" /\ inbox'[n] = "new")
    BY <1>2 DEF Ingest, dispatchVars, TypeOK
  <2>2. todo \subseteq Msgs
    BY DEF TypeOK
  <2> QED
    BY <2>1, <2>2 DEF DispatchInv
<1>3. CASE Snapshot
  BY <1>3 DEF Snapshot, DispatchInv, receiverVars
<1>4. ASSUME NEW m \in Msgs, Handle(m) PROVE DispatchInv'
  <2>1. m \in todo /\ inbox[m] = "new" /\ runs[m] <= deaths
    <3>1. m \in todo /\ doing # m /\ inbox[m] = "new"
      BY <1>4, MsgsAssumption DEF Handle, IsFirst, DispatchInv
    <3>2. runs[m] <= deaths + 0
      BY <3>1 DEF DispatchInv
    <3> QED
      BY <3>1, <3>2 DEF TypeOK
  <2>2. /\ UNCHANGED <<inbox, todo, deaths>>
        /\ doing = NoMsg /\ doing' = m
        /\ runs' = [runs EXCEPT ![m] = runs[m] + 1]
    BY <1>4 DEF Handle, receiverVars
  <2>3. runs \in [Msgs -> Nat] /\ deaths \in Nat
    BY DEF TypeOK
  <2> QED
    BY <2>1, <2>2, <2>3, MsgsAssumption DEF DispatchInv
<1>5. ASSUME NEW m \in Msgs, MarkHandled(m) PROVE DispatchInv'
  <2>1. /\ doing = m /\ doing' = NoMsg /\ todo' = todo \ {m}
        /\ UNCHANGED <<runs, deaths>>
        /\ inbox' = [inbox EXCEPT ![m] = "handled"]
    BY <1>5 DEF MarkHandled
  <2>2. inbox \in [Msgs -> {"absent", "new", "handled"}] /\ todo \subseteq Msgs
    BY DEF TypeOK
  <2>3. runs[m] >= 1
    BY <2>1, MsgsAssumption DEF DispatchInv
  <2> QED
    BY <2>1, <2>2, <2>3, MsgsAssumption DEF DispatchInv
<1>6. CASE ReceiverDies
  <2>1. /\ todo' = {} /\ doing' = NoMsg /\ deaths' = deaths + 1
        /\ UNCHANGED <<inbox, runs>>
    BY <1>6 DEF ReceiverDies
  <2>2. runs \in [Msgs -> Nat] /\ deaths \in Nat
    BY DEF TypeOK
  <2> QED
    BY <2>1, <2>2 DEF DispatchInv
<1>7. CASE SenderNext \/ ServerNext
  <2>1. UNCHANGED <<dispatchVars, inbox>>
    BY <1>7 DEF SenderNext, ServerNext, Send, FlushStart, FlushPublish, FlushBreak, PublishOk, PublishFails,
         Disconnect, Reconnect, ServerStore, WindowExpires, AckWaitExpires, receiverVars
  <2> QED
    BY <2>1, <1>1
<1>8. ASSUME NEW s \in Sequenced, Fetch(s) \/ Terminate(s) \/ Ack(s) \/ AckLost(s) PROVE DispatchInv'
  <2>1. UNCHANGED <<dispatchVars, inbox>>
    BY <1>8 DEF Fetch, Terminate, Ack, AckLost
  <2> QED
    BY <2>1, <1>1
<1>9. CASE UNCHANGED vars
  BY <1>1, <1>9 DEF vars, receiverVars
<1> QED
  BY <1>2, <1>3, <1>4, <1>5, <1>6, <1>7, <1>8, <1>9 DEF Next, RecipientNext

(* The dispatcher works on a snapshot of new rows, and each death of the   *)
(* daemon accounts for at most one run of a handler that is repeated.      *)
THEOREM DispatchCorrect == Spec => []DispatchInv
<1>1. Init => DispatchInv
  BY DEF Init, DispatchInv
<1> QED
  BY <1>1, DispatchStep, TypeCorrect, PTL DEF Spec

(* Handlers run at least once, and again only after a death.               *)
THEOREM HandledOnce == Spec => []HandledOncePerLife
<1>1. TypeOK /\ DispatchInv => HandledOncePerLife
  BY DEF TypeOK, DispatchInv, HandledOncePerLife
<1> QED
  BY <1>1, TypeCorrect, DispatchCorrect, PTL

(* A handled message stays handled and its handler never runs again.       *)
THEOREM HandledForGood == Spec => HandledIsFinal
<1>1. TypeOK /\ DispatchInv /\ [Next]_vars => [LeavesHandledAlone]_vars
  <2> SUFFICES ASSUME TypeOK, DispatchInv, Next PROVE LeavesHandledAlone
    OBVIOUS
  <2> USE DEF LeavesHandledAlone
  <2>1. ASSUME UNCHANGED <<inbox, runs>> PROVE LeavesHandledAlone
    BY <2>1
  <2>2. ASSUME NEW s \in Sequenced, Ingest(s) PROVE LeavesHandledAlone
    BY <2>2 DEF Ingest, dispatchVars, TypeOK
  <2>3. ASSUME NEW m \in Msgs, Handle(m) PROVE LeavesHandledAlone
    BY <2>3 DEF Handle, IsFirst, DispatchInv, receiverVars, TypeOK
  <2>4. ASSUME NEW m \in Msgs, MarkHandled(m) PROVE LeavesHandledAlone
    BY <2>4 DEF MarkHandled, TypeOK
  <2>5. CASE SenderNext \/ ServerNext \/ Snapshot \/ ReceiverDies
    <3>1. UNCHANGED <<inbox, runs>>
      BY <2>5 DEF SenderNext, ServerNext, Send, FlushStart, FlushPublish, FlushBreak, PublishOk, PublishFails,
           Disconnect, Reconnect, ServerStore, WindowExpires, AckWaitExpires, Snapshot, ReceiverDies,
           receiverVars, dispatchVars
    <3> QED
      BY <3>1, <2>1
  <2>6. ASSUME NEW s \in Sequenced, Fetch(s) \/ Terminate(s) \/ Ack(s) \/ AckLost(s) PROVE LeavesHandledAlone
    BY <2>1, <2>6 DEF Fetch, Terminate, Ack, AckLost, dispatchVars
  <2> QED
    BY <2>2, <2>3, <2>4, <2>5, <2>6 DEF Next, RecipientNext
<1> QED
  BY <1>1, TypeCorrect, DispatchCorrect, PTL DEF Spec, HandledIsFinal

-----------------------------------------------------------------------------
(* The refinement of ReliableMailbox *)

(* Sets of messages have a size, which a new member makes one larger.      *)
LEMMA MessagesCount ==
  ASSUME NEW S \in SUBSET Msgs
  PROVE  /\ Cardinality(S) \in Nat
         /\ \A m \in Msgs \ S : Cardinality(S \cup {m}) = Cardinality(S) + 1
<1>1. IsFiniteSet(S)
  BY MsgsAssumption, FS_Subset
<1>2. Cardinality(S) \in Nat
  BY <1>1, FS_CardinalityType
<1>3. ASSUME NEW m \in Msgs \ S PROVE Cardinality(S \cup {m}) = Cardinality(S) + 1
  BY <1>1, FS_AddElement
<1> QED
  BY <1>2, <1>3

(* A step that adds no row to the inbox, and puts nothing but queued       *)
(* messages on their way, keeps RowsInv.                                   *)
LEMMA NoNewRowKeepsRows ==
  ASSUME TypeOK, RowsInv, Rows' = Rows, UNCHANGED inRow, Queued \subseteq Queued',
         \A m \in Msgs : m \in batch' => m \in Queued',
         \A m \in Msgs : (\E p \in Publishers : <<p, m>> \in wire') => m \in Queued',
         \A m \in Msgs : Stored(m)' => m \in Queued'
  PROVE  RowsInv'
<1>1. \A m \in Msgs : Ingested(m)' <=> Ingested(m)
  BY DEF Rows
<1> QED
  BY <1>1 DEF RowsInv

(* The message that _receive_one commits gets the next rowid.              *)
LEMMA IngestKeepsRows ==
  ASSUME TypeOK, RowsInv, NEW s \in Sequenced, Ingest(s)
  PROVE  RowsInv'
<1> DEFINE m == stream[s]
           N == Cardinality(Rows)
<1>1. m \in Msgs /\ m \in Queued /\ m \notin Refused
  BY DEF TypeOK, Sequenced, Ingest, RowsInv, Stored
<1>2. UNCHANGED <<outbox, batch, wire, stream>> /\ Queued' = Queued /\ \A n \in Msgs : Stored(n)' <=> Stored(n)
  BY DEF Ingest, senderVars, serverVars, Queued, Stored, Sequenced
<1>3. CASE Ingested(m)
  <2>1. Rows' = Rows /\ UNCHANGED inRow
    BY <1>3 DEF Ingest, Ingested, Rows
  <2> QED
    BY <1>2, <2>1, NoNewRowKeepsRows DEF RowsInv
<1>4. CASE ~Ingested(m)
  <2>0. N \in Nat /\ NextRow(inbox) = N + 1
    BY MessagesCount DEF NextRow, Rows, Ingested
  <2>1. inbox' = [inbox EXCEPT ![m] = "new"] /\ inRow' = [inRow EXCEPT ![m] = N + 1]
    BY <1>4, <2>0 DEF Ingest, Ingested
  <2>2. Rows' = Rows \cup {m} /\ m \notin Rows /\ \A n \in Msgs : Ingested(n)' <=> n = m \/ Ingested(n)
    BY <1>1, <1>4, <2>1 DEF TypeOK, Rows, Ingested
  <2>3. N \in Nat /\ Cardinality(Rows') = N + 1
    BY <1>1, <2>2, MessagesCount DEF Rows
  <2>4. inRow'[m] = N + 1 /\ \A n \in Rows : inRow'[n] = inRow[n] /\ inRow[n] \in 1 .. N
    <3>1. inRow \in [Msgs -> Nat] /\ Rows \subseteq Msgs
      BY DEF TypeOK, Rows
    <3>2. \A n \in Rows : inRow[n] \in 1 .. N
      BY DEF RowsInv
    <3> QED
      BY <1>1, <2>1, <2>2, <3>1, <3>2
  <2>5. {inRow'[n] : n \in Rows'} = 1 .. N + 1
    <3>1. {inRow'[n] : n \in Rows'} = {inRow[n] : n \in Rows} \cup {N + 1}
      BY <2>2, <2>4
    <3> QED
      BY <2>3, <3>1 DEF RowsInv
  <2>6. \A n, o \in Rows' : inRow'[n] = inRow'[o] => n = o
    BY <2>2, <2>3, <2>4 DEF RowsInv
  <2>7. \A n \in Msgs : Ingested(n)' <=> inRow'[n] # 0
    BY <1>1, <2>1, <2>2, <2>3 DEF TypeOK, RowsInv
  <2>8. Rows' \subseteq Queued' \ Refused
    BY <1>1, <1>2, <2>2 DEF RowsInv
  <2> QED
    BY <1>2, <2>3, <2>5, <2>6, <2>7, <2>8 DEF RowsInv
<1> QED
  BY <1>3, <1>4

(* Every step keeps the numbering of the inbox. *)
LEMMA RowsStep == TypeOK /\ DispatchInv /\ RowsInv /\ [Next]_vars => RowsInv'
<1> SUFFICES ASSUME TypeOK, DispatchInv, RowsInv, [Next]_vars PROVE RowsInv'
  OBVIOUS
<1> USE DEF senderVars, serverVars, receiverVars, dispatchVars
<1>1. ASSUME UNCHANGED <<outbox, stream, inbox, inRow>>, batch' \subseteq Queued, wire' \subseteq wire PROVE RowsInv'
  <2>1. Queued' = Queued /\ \A m \in Msgs : Stored(m)' <=> Stored(m)
    BY <1>1 DEF Queued, Stored, Sequenced
  <2> QED
    BY <1>1, <2>1, NoNewRowKeepsRows DEF RowsInv, Rows, Ingested
<1>2. batch \subseteq Queued
  BY DEF RowsInv, TypeOK
<1>3. ASSUME NEW m \in Msgs, Send(m) PROVE RowsInv'
  <2>1. Queued' = Queued \cup {m}
    BY <1>3 DEF Send, Queued, TypeOK
  <2>2. UNCHANGED <<batch, stream, inbox, inRow>> /\ wire' \subseteq wire \cup {<<"direct", m>>}
    BY <1>3 DEF Send
  <2>3. \A n \in Msgs : Stored(n)' <=> Stored(n)
    BY <2>2 DEF Stored, Sequenced
  <2> QED
    BY <2>1, <2>2, <2>3, NoNewRowKeepsRows DEF RowsInv, Rows, Ingested
<1>4. ASSUME NEW m \in Msgs, FlushPublish(m) PROVE RowsInv'
  <2>1. m \in Queued
    BY <1>2, <1>4 DEF FlushPublish, IsFirst
  <2>2. UNCHANGED <<batch, outbox, stream, inbox, inRow>> /\ wire' = wire \cup {<<"flusher", m>>}
    BY <1>4 DEF FlushPublish
  <2>3. Queued' = Queued /\ \A n \in Msgs : Stored(n)' <=> Stored(n)
    BY <2>2 DEF Stored, Sequenced, Queued
  <2> QED
    BY <2>1, <2>2, <2>3, NoNewRowKeepsRows DEF RowsInv, Rows, Ingested
<1>5. CASE FlushStart
  <2>1. batch' \subseteq Queued
    BY <1>5 DEF FlushStart, Queued
  <2> QED
    BY <1>1, <1>5, <2>1 DEF FlushStart
<1>6. CASE FlushBreak \/ Disconnect \/ Reconnect \/ Snapshot \/ ReceiverDies \/ UNCHANGED vars
  BY <1>1, <1>2, <1>6 DEF FlushBreak, Disconnect, Reconnect, Snapshot, ReceiverDies, vars
<1>7. ASSUME NEW p \in Publishers, NEW m \in Msgs, PublishOk(p, m) PROVE RowsInv'
  <2>1. UNCHANGED <<wire, stream, inbox, inRow>> /\ batch' \subseteq batch
    BY <1>7 DEF PublishOk
  <2>2. Queued' = Queued \cup {m}
    BY <1>7 DEF PublishOk, Queued, TypeOK
  <2>3. \A n \in Msgs : Stored(n)' <=> Stored(n)
    BY <2>1 DEF Stored, Sequenced
  <2> QED
    BY <1>2, <2>1, <2>2, <2>3, NoNewRowKeepsRows DEF RowsInv, Rows, Ingested
<1>8. ASSUME NEW p \in Publishers, NEW m \in Msgs, PublishFails(p, m) PROVE RowsInv'
  BY <1>1, <1>2, <1>8 DEF PublishFails
<1>9. ASSUME NEW p \in Publishers, NEW m \in Msgs, ServerStore(p, m) PROVE RowsInv'
  <2>1. UNCHANGED <<batch, outbox, inbox, inRow>> /\ wire' \subseteq wire
    BY <1>9 DEF ServerStore
  <2>2. m \in Queued
    BY <1>9 DEF ServerStore, RowsInv
  <2>3. Queued' = Queued
    BY <2>1 DEF Queued
  <2>4. ASSUME NEW n \in Msgs, Stored(n)' PROVE n = m \/ Stored(n)
    <3>1. stream \in Seq(Msgs) /\ (stream' = stream \/ stream' = Append(stream, m))
      BY <1>9 DEF ServerStore, TypeOK
    <3> QED
      BY <2>4, <3>1 DEF Stored, Sequenced
  <2> QED
    BY <2>1, <2>2, <2>3, <2>4, NoNewRowKeepsRows DEF RowsInv, Rows, Ingested
<1>10. ASSUME NEW m \in Msgs, WindowExpires(m) \/ Handle(m) PROVE RowsInv'
  BY <1>1, <1>2, <1>10 DEF WindowExpires, Handle
<1>11. ASSUME NEW s \in Sequenced, AckWaitExpires(s) \/ Fetch(s) \/ Terminate(s) \/ Ack(s) \/ AckLost(s) PROVE RowsInv'
  BY <1>1, <1>2, <1>11 DEF AckWaitExpires, Fetch, Terminate, Ack, AckLost
<1>12. ASSUME NEW m \in Msgs, MarkHandled(m) PROVE RowsInv'
  <2>1. inbox[m] = "new"
    BY <1>12 DEF MarkHandled, DispatchInv
  <2>2. Rows' = Rows
    BY <1>12, <2>1 DEF MarkHandled, Rows, Ingested, TypeOK
  <2>3. Queued' = Queued /\ \A n \in Msgs : Stored(n)' <=> Stored(n)
    BY <1>12 DEF MarkHandled, Queued, Stored, Sequenced
  <2> QED
    BY <1>12, <2>2, <2>3, NoNewRowKeepsRows DEF MarkHandled, RowsInv
<1> QED
  BY <1>3, <1>4, <1>5, <1>6, <1>7, <1>8, <1>9, <1>10, <1>11, <1>12, IngestKeepsRows
  DEF Next, SenderNext, ServerNext, RecipientNext

(* What the dispatcher marks handled is the row after the handled ones.    *)
LEMMA DoingIsNext ==
  ASSUME TypeOK, DispatchInv, RowsInv, PrefixInv, doing # NoMsg
  PROVE  doing \in Rows \ Handled /\ inRow[doing] = Cardinality(Handled) + 1
<1> DEFINE k == Cardinality(Handled)
           N == Cardinality(Rows)
<1>1. k \in Nat /\ N \in Nat
  BY MessagesCount DEF Handled, Rows
<1>2. doing \in Msgs /\ inbox[doing] = "new" /\ doing \in Rows \ Handled
  BY DEF TypeOK, DispatchInv, Rows, Ingested, Handled
<1>3. inRow[doing] \in 1 .. N /\ inRow[doing] > k
  <2>1. inRow[doing] \in 1 .. N
    BY <1>2 DEF RowsInv
  <2>2. ~(inRow[doing] <= k)
    BY <1>2 DEF PrefixInv
  <2> HIDE DEF k, N
  <2> QED
    BY <1>1, <2>1, <2>2
<1>4. ASSUME inRow[doing] # k + 1 PROVE FALSE
  <2>1. k + 1 \in 1 .. N /\ k + 1 < inRow[doing]
    <3> HIDE DEF k, N
    <3> QED
      BY <1>1, <1>3, <1>4
  <2>2. PICK n \in Rows : inRow[n] = k + 1
    BY <2>1 DEF RowsInv
  <2>3. n \notin Handled
    <3>1. ~(inRow[n] <= k)
      <4> HIDE DEF k, N
      <4> QED
        BY <1>1, <2>2
    <3> QED
      BY <3>1 DEF PrefixInv
  <2>4. n \in Msgs /\ inbox[n] = "new"
    BY <2>3 DEF TypeOK, Rows, Ingested, Handled
  <2>5. inRow[doing] <= inRow[n]
    <3>1. IsFirst(doing, todo, inRow)
      BY DEF PrefixInv
    <3>2. CASE n \in todo
      BY <3>1, <3>2 DEF IsFirst
    <3>3. CASE n \notin todo
      <4>1. inRow[doing] < inRow[n]
        BY <2>4, <3>1, <3>3 DEF PrefixInv, IsFirst
      <4> QED
        BY <4>1, <2>4, <1>2 DEF TypeOK
    <3> QED
      BY <3>2, <3>3
  <2> HIDE DEF k, N
  <2> QED
    BY <1>1, <1>3, <2>1, <2>2, <2>5
<1> HIDE DEF k, N
<1>5. inRow[doing] = k + 1
  BY <1>4
<1> QED
  BY <1>2, <1>5 DEF k

(* ... so that the handled rows stay the first ones.                       *)
LEMMA PrefixStep == TypeOK /\ DispatchInv /\ RowsInv /\ PrefixInv /\ [Next]_vars => PrefixInv'
<1> SUFFICES ASSUME TypeOK, DispatchInv, RowsInv, PrefixInv, [Next]_vars PROVE PrefixInv'
  OBVIOUS
<1> USE DEF senderVars, serverVars, receiverVars, dispatchVars
<1>0. Rows \subseteq Msgs /\ todo \subseteq Msgs /\ doing \in Msgs \cup {NoMsg} /\ inRow \in [Msgs -> Nat]
  BY DEF TypeOK, Rows
<1>1. ASSUME UNCHANGED <<inbox, inRow, todo, doing>> PROVE PrefixInv'
  <2>1. Rows' = Rows /\ Handled' = Handled
    BY <1>1 DEF Rows, Ingested, Handled
  <2> QED
    BY <1>1, <2>1 DEF PrefixInv, IsFirst
<1>2. ASSUME NEW s \in Sequenced, Ingest(s), ~Ingested(stream[s]) PROVE PrefixInv'
  <2> DEFINE m == stream[s]
             N == Cardinality(Rows)
             k == Cardinality(Handled)
  <2>1. m \in Msgs
    BY DEF TypeOK, Sequenced
  <2>2. N \in Nat /\ k \in Nat /\ NextRow(inbox) = N + 1
    BY MessagesCount DEF NextRow, Rows, Ingested, Handled
  <2>3. /\ inbox' = [inbox EXCEPT ![m] = "new"] /\ inRow' = [inRow EXCEPT ![m] = N + 1]
        /\ UNCHANGED <<todo, doing>>
    BY <1>2, <2>2 DEF Ingest, Ingested
  <2>4. Rows' = Rows \cup {m} /\ m \notin Rows /\ Handled' = Handled /\ m \notin Handled
    BY <1>2, <2>1, <2>3 DEF TypeOK, Rows, Ingested, Handled
  <2>5. \A n \in Rows : inRow'[n] = inRow[n] /\ inRow[n] \in 1 .. N
    <3>1. \A n \in Rows : inRow[n] \in 1 .. N
      BY DEF RowsInv
    <3> QED
      BY <1>0, <2>3, <2>4, <3>1
  <2>6. inRow'[m] = N + 1
    BY <1>0, <2>1, <2>3
  <2>7. k <= N
    <3>1. IsFiniteSet(Rows) /\ Handled \subseteq Rows
      BY MsgsAssumption, FS_Subset DEF Rows, Ingested, Handled
    <3> QED
      BY <3>1, FS_Subset
  <2>8. \A n \in Rows' : n \in Handled' <=> inRow'[n] <= Cardinality(Handled')
    <3>1. ~(N + 1 <= k)
      <4> HIDE DEF N, k
      <4> QED
        BY <2>2, <2>7
    <3> QED
      BY <2>4, <2>5, <2>6, <3>1 DEF PrefixInv
  <2>9. todo \subseteq Rows
    BY DEF DispatchInv, Rows, Ingested, TypeOK
  <2>10. ASSUME NEW a \in todo', NEW b \in Msgs \ todo', inbox'[b] = "new" PROVE inRow'[a] < inRow'[b]
    <3>1. a \in todo /\ a \in Rows /\ b \in Msgs \ todo
      BY <2>3, <2>9, <2>10
    <3>2. CASE b = m
      <4> HIDE DEF N, m
      <4> QED
        BY <2>2, <2>5, <2>6, <3>1, <3>2
    <3>3. CASE b # m
      <4>1. inbox[b] = "new" /\ b \in Rows
        BY <2>3, <2>10, <3>1, <3>3 DEF TypeOK, Rows, Ingested
      <4>2. inRow[a] < inRow[b]
        BY <3>1, <4>1 DEF PrefixInv
      <4> QED
        BY <2>5, <3>1, <4>1, <4>2
    <3> QED
      BY <3>2, <3>3
  <2>11. doing' # NoMsg => IsFirst(doing, todo, inRow)'
    BY <2>3, <2>5, <2>9 DEF PrefixInv, IsFirst
  <2> QED
    BY <2>8, <2>10, <2>11 DEF PrefixInv
<1>3. ASSUME NEW s \in Sequenced, Ingest(s), Ingested(stream[s]) PROVE PrefixInv'
  BY <1>1, <1>3 DEF Ingest, Ingested
<1>4. CASE Snapshot
  <2>1. Rows' = Rows /\ Handled' = Handled
    BY <1>4 DEF Snapshot, Rows, Ingested, Handled
  <2> QED
    BY <1>4, <2>1 DEF Snapshot, PrefixInv
<1>5. ASSUME NEW m \in Msgs, Handle(m) PROVE PrefixInv'
  <2>1. Rows' = Rows /\ Handled' = Handled
    BY <1>5 DEF Handle, Rows, Ingested, Handled
  <2> QED
    BY <1>5, <2>1 DEF Handle, PrefixInv, IsFirst
<1>6. ASSUME NEW m \in Msgs, MarkHandled(m) PROVE PrefixInv'
  <2> DEFINE k == Cardinality(Handled)
  <2>1. /\ doing = m /\ m # NoMsg /\ doing' = NoMsg /\ todo' = todo \ {m}
        /\ inbox' = [inbox EXCEPT ![m] = "handled"] /\ UNCHANGED inRow
    BY <1>6 DEF MarkHandled
  <2>2. m \in Rows \ Handled /\ inRow[m] = k + 1 /\ k \in Nat
    BY <2>1, DoingIsNext, MessagesCount DEF Handled
  <2>3. Rows' = Rows /\ Handled' = Handled \cup {m}
    BY <2>1, <2>2 DEF Rows, Ingested, Handled, TypeOK
  <2>4. Cardinality(Handled') = k + 1
    BY <2>2, <2>3, MessagesCount DEF Handled
  <2>5. ASSUME NEW n \in Rows PROVE n \in Handled' <=> inRow[n] <= k + 1
    <3>1. CASE n = m
      BY <2>2, <2>3, <3>1
    <3>2. CASE n # m
      <4>1. inRow[n] # k + 1 /\ inRow[n] \in Nat
        BY <1>0, <2>2, <3>2 DEF RowsInv
      <4>2. n \in Handled <=> inRow[n] <= k
        BY DEF PrefixInv
      <4> HIDE DEF k
      <4> QED
        BY <2>2, <2>3, <3>2, <4>1, <4>2
    <3> QED
      BY <3>1, <3>2
  <2>6. ASSUME NEW a \in todo', NEW b \in Msgs \ todo', inbox'[b] = "new" PROVE inRow'[a] < inRow'[b]
    <3>1. a \in todo /\ b \in Msgs \ todo /\ inbox[b] = "new"
      BY <1>0, <2>1, <2>6 DEF TypeOK
    <3> QED
      BY <2>1, <3>1 DEF PrefixInv
  <2> QED
    BY <2>1, <2>3, <2>4, <2>5, <2>6 DEF PrefixInv
<1>7. CASE ReceiverDies
  <2>1. Rows' = Rows /\ Handled' = Handled
    BY <1>7 DEF ReceiverDies, Rows, Ingested, Handled
  <2> QED
    BY <1>7, <2>1 DEF ReceiverDies, PrefixInv
<1>8. CASE SenderNext \/ ServerNext
  <2>1. UNCHANGED <<inbox, inRow, todo, doing>>
    BY <1>8 DEF SenderNext, ServerNext, Send, FlushStart, FlushPublish, FlushBreak, PublishOk, PublishFails,
         Disconnect, Reconnect, ServerStore, WindowExpires, AckWaitExpires
  <2> QED
    BY <2>1, <1>1
<1>9. ASSUME NEW s \in Sequenced, Fetch(s) \/ Terminate(s) \/ Ack(s) \/ AckLost(s) PROVE PrefixInv'
  BY <1>1, <1>9 DEF Fetch, Terminate, Ack, AckLost
<1>10. CASE UNCHANGED vars
  BY <1>1, <1>10 DEF vars
<1> QED
  BY <1>2, <1>3, <1>4, <1>5, <1>6, <1>7, <1>8, <1>9, <1>10 DEF Next, RecipientNext

(* Rowids number the inbox without a gap, and the dispatcher handles rows  *)
(* in their order, whatever it is interrupted by.                          *)
THEOREM RowsCorrect == Spec => [](RowsInv /\ PrefixInv)
<1>1. Init => RowsInv /\ PrefixInv
  <2> SUFFICES ASSUME Init PROVE RowsInv /\ PrefixInv
    OBVIOUS
  <2>1. Rows = {} /\ Handled = {} /\ Queued = {} /\ \A m \in Msgs : ~Stored(m)
    BY DEF Init, Rows, Ingested, Handled, Queued, Stored, Sequenced
  <2>2. Cardinality(Rows) = 0
    BY <2>1, FS_EmptySet
  <2>3. {inRow[m] : m \in Rows} = 1 .. Cardinality(Rows)
    BY <2>1, <2>2
  <2>4. \A m \in Msgs : ~Ingested(m) /\ inRow[m] = 0
    BY <2>1 DEF Init, Rows
  <2>5. batch = {} /\ wire = {} /\ todo = {} /\ doing = NoMsg
    BY DEF Init
  <2> QED
    BY <2>1, <2>3, <2>4, <2>5 DEF RowsInv, PrefixInv
<1> QED
  BY <1>1, RowsStep, PrefixStep, TypeCorrect, DispatchCorrect, PTL DEF Spec

(* The log of the mapping lists the rows of the inbox by their rowid.      *)
LogInv ==
  /\ Log \in Seq(Msgs) /\ Len(Log) = Cardinality(Rows) /\ Cardinality(Rows) \in Nat
  /\ \A m \in Rows : inRow[m] \in 1 .. Cardinality(Rows) /\ Log[inRow[m]] = m
  /\ \A i \in 1 .. Cardinality(Rows) : Log[i] \in Rows /\ inRow[Log[i]] = i

LEMMA LogEntries == TypeOK /\ RowsInv => LogInv
<1> SUFFICES ASSUME TypeOK, RowsInv PROVE LogInv
  OBVIOUS
<1> DEFINE N == Cardinality(Rows)
<1>1. N \in Nat
  BY MessagesCount DEF Rows
<1>2. ASSUME NEW i \in 1 .. N PROVE Log[i] \in Rows /\ inRow[Log[i]] = i
  <2>1. PICK m \in Rows : inRow[m] = i
    BY DEF RowsInv
  <2>2. \E n \in Msgs : inRow[n] = i
    BY <2>1 DEF Rows
  <2>3. Log[i] = CHOOSE n \in Msgs : inRow[n] = i
    BY DEF Log
  <2>4. Log[i] \in Msgs /\ inRow[Log[i]] = i
    BY <2>2, <2>3
  <2> QED
    BY <1>1, <2>4 DEF RowsInv, Rows
<1>3. ASSUME NEW m \in Rows PROVE inRow[m] \in 1 .. N /\ Log[inRow[m]] = m
  BY <1>2 DEF RowsInv
<1>4. Log \in Seq(Msgs) /\ Len(Log) = N
  <2>1. Log \in [1 .. N -> Msgs]
    <3>1. \A i \in 1 .. N : (CHOOSE n \in Msgs : inRow[n] = i) \in Msgs
      BY <1>2 DEF Log, Rows
    <3> QED
      BY <3>1 DEF Log
  <2> HIDE DEF N
  <2> QED
    BY <1>1, <2>1
<1> QED
  BY <1>1, <1>2, <1>3, <1>4 DEF LogInv

(* Committing a message appends it to the log: a message that was queued,  *)
(* that the recipient does not refuse, and that is not in the log yet.     *)
LEMMA IngestCommits ==
  ASSUME TypeOK, RowsInv, LogInv, LogInv', NEW s \in Sequenced, Ingest(s), ~Ingested(stream[s])
  PROVE  Reliable!Commit(stream[s])
<1> DEFINE m == stream[s]
           N == Cardinality(Rows)
<1>1. m \in Msgs /\ m \in Queued /\ m \notin Refused
  BY DEF TypeOK, Sequenced, Ingest, RowsInv, Stored
<1>2. /\ inbox' = [inbox EXCEPT ![m] = "new"] /\ inRow' = [inRow EXCEPT ![m] = NextRow(inbox)]
      /\ UNCHANGED outbox
  BY DEF Ingest, Ingested, senderVars
<1>3. N \in Nat /\ NextRow(inbox) = N + 1
  BY MessagesCount DEF NextRow, Rows, Ingested
<1>4. Rows' = Rows \cup {m} /\ m \notin Rows /\ Handled' = Handled
  BY <1>1, <1>2 DEF TypeOK, Rows, Ingested, Handled
<1>5. Cardinality(Rows') = N + 1
  BY <1>1, <1>4, MessagesCount DEF Rows
<1>6. inRow'[m] = N + 1 /\ \A n \in Rows : inRow'[n] = inRow[n] /\ n \in Rows'
  BY <1>1, <1>2, <1>3, <1>4 DEF TypeOK, Rows
<1>7. Log' = Append(Log, m)
  <2>1. Log \in Seq(Msgs) /\ Len(Log) = N /\ Log' \in Seq(Msgs) /\ Len(Log') = N + 1
    BY <1>5 DEF LogInv
  <2>2. ASSUME NEW i \in 1 .. N PROVE Log'[i] = Log[i]
    <3>1. Log[i] \in Rows /\ inRow[Log[i]] = i
      BY DEF LogInv
    <3> QED
      BY <1>6, <3>1 DEF LogInv
  <2>3. Log'[N + 1] = m
    BY <1>4, <1>6 DEF LogInv
  <2> HIDE DEF N, m
  <2> QED
    BY <1>1, <1>3, <2>1, <2>2, <2>3 DEF m
<1>8. m \notin {Log[i] : i \in DOMAIN Log}
  <2>1. \A i \in DOMAIN Log : Log[i] \in Rows
    BY DEF LogInv
  <2> QED
    BY <1>4, <2>1
<1>9. Queued' = Queued
  BY <1>2 DEF Queued
<1> QED
  BY <1>1, <1>4, <1>7, <1>8, <1>9 DEF Reliable!Commit, Reliable!Logged

(* Marking a row handled consumes the next entry of the log.               *)
LEMMA MarkHandledConsumes ==
  ASSUME TypeOK, DispatchInv, RowsInv, PrefixInv, LogInv, NEW m \in Msgs, MarkHandled(m)
  PROVE  Reliable!Consume
<1> DEFINE k == Cardinality(Handled)
<1>1. doing = m /\ m # NoMsg /\ inbox' = [inbox EXCEPT ![m] = "handled"] /\ UNCHANGED <<outbox, inRow>>
  BY DEF MarkHandled, senderVars
<1>2. m \in Rows \ Handled /\ inRow[m] = k + 1
  BY <1>1, DoingIsNext
<1>3. Rows' = Rows /\ Handled' = Handled \cup {m} /\ Queued' = Queued
  BY <1>1, <1>2 DEF Rows, Ingested, Handled, Queued, TypeOK
<1>4. Log[k + 1] = m /\ k + 1 <= Len(Log) /\ k \in Nat /\ Len(Log) \in Nat
  BY <1>2, MessagesCount DEF LogInv, Handled
<1>5. Log' = Log
  BY <1>1, <1>3 DEF Log
<1>6. k < Len(Log)
  <2> HIDE DEF k
  <2> QED
    BY <1>4
\* The instance has a copy of its own of every operator it extends.
<1>7. \A S : Reliable!Cardinality(S) = Cardinality(S)
  BY DEF Reliable!Cardinality, Cardinality
<1> QED
  BY <1>3, <1>4, <1>5, <1>6, <1>7 DEF Reliable!Consume

(* A step of Mailbox is a step of ReliableMailbox, or changes none of its  *)
(* state: Send queues, a first Ingest commits, MarkHandled consumes.       *)
LEMMA MailboxStepRefines ==
  ASSUME TypeOK, CopiesInv, DispatchInv, RowsInv, PrefixInv, LogInv, LogInv', [Next]_vars
  PROVE  [Reliable!Next]_(Reliable!vars)
<1> USE DEF senderVars, serverVars, receiverVars, dispatchVars
<1>1. ASSUME Queued' = Queued, UNCHANGED <<inbox, inRow>> PROVE UNCHANGED Reliable!vars
  BY <1>1 DEF Reliable!vars, Log, Rows, Ingested, Handled
<1>2. ASSUME NEW m \in Msgs, Send(m) PROVE Reliable!Queue(m)
  <2>1. m \notin Queued /\ Queued' = Queued \cup {m}
    BY <1>2 DEF Send, Queued, TypeOK
  <2>2. Log' = Log /\ Handled' = Handled
    BY <1>2 DEF Send, Log, Rows, Ingested, Handled
  <2> QED
    BY <2>1, <2>2 DEF Reliable!Queue
<1>3. ASSUME NEW m \in Msgs, FlushPublish(m) \/ WindowExpires(m) \/ Handle(m) PROVE UNCHANGED Reliable!vars
  BY <1>1, <1>3 DEF FlushPublish, WindowExpires, Handle, Queued
<1>4. CASE FlushStart \/ FlushBreak \/ Disconnect \/ Reconnect \/ Snapshot \/ ReceiverDies \/ UNCHANGED vars
  BY <1>1, <1>4 DEF FlushStart, FlushBreak, Disconnect, Reconnect, Snapshot, ReceiverDies, vars, Queued
<1>5. ASSUME NEW p \in Publishers, NEW m \in Msgs, PublishOk(p, m) PROVE UNCHANGED Reliable!vars
  <2>1. m \in Queued
    BY <1>5 DEF PublishOk, CopiesInv, RowsInv
  <2>2. Queued' = Queued
    BY <1>5, <2>1 DEF PublishOk, Queued, TypeOK
  <2> QED
    BY <1>1, <1>5, <2>2 DEF PublishOk
<1>6. ASSUME NEW p \in Publishers, NEW m \in Msgs, PublishFails(p, m) \/ ServerStore(p, m) PROVE UNCHANGED Reliable!vars
  BY <1>1, <1>6 DEF PublishFails, ServerStore, Queued
<1>7. ASSUME NEW s \in Sequenced, AckWaitExpires(s) \/ Fetch(s) \/ Terminate(s) \/ Ack(s) \/ AckLost(s)
      PROVE  UNCHANGED Reliable!vars
  BY <1>1, <1>7 DEF AckWaitExpires, Fetch, Terminate, Ack, AckLost, Queued
<1>8. ASSUME NEW s \in Sequenced, Ingest(s) PROVE UNCHANGED Reliable!vars \/ \E m \in Msgs : Reliable!Commit(m)
  <2>1. stream[s] \in Msgs
    BY DEF TypeOK, Sequenced
  <2>2. CASE Ingested(stream[s])
    BY <1>1, <1>8, <2>2 DEF Ingest, Ingested, Queued
  <2> QED
    BY <1>8, <2>1, <2>2, IngestCommits
<1>9. ASSUME NEW m \in Msgs, MarkHandled(m) PROVE Reliable!Consume
  BY <1>9, MarkHandledConsumes
<1> QED
  BY <1>2, <1>3, <1>4, <1>5, <1>6, <1>7, <1>8, <1>9
  DEF Next, SenderNext, ServerNext, RecipientNext, Reliable!Next

(* Mailbox implements ReliableMailbox, for any messages and any faults.    *)
THEOREM KeepsReliableMailbox == Spec => ImplementsReliableMailbox
<1>1. Init => Reliable!Init
  <2> SUFFICES ASSUME Init PROVE Reliable!Init
    OBVIOUS
  <2>1. Rows = {} /\ Handled = {} /\ Queued = {}
    BY DEF Init, Rows, Ingested, Handled, Queued
  <2>2. Cardinality(Rows) = 0
    BY <2>1, FS_EmptySet
  <2>3. Log = <<>>
    BY <2>2 DEF Log
  <2> QED
    BY <2>1, <2>3 DEF Reliable!Init
<1> QED
  BY <1>1, MailboxStepRefines, LogEntries, TypeCorrect, CopiesCorrect, DispatchCorrect, RowsCorrect, PTL
  DEF Spec, ImplementsReliableMailbox, Reliable!Spec
=============================================================================
