-------------------------- MODULE DelegationProofs --------------------------
(* Proofs about Delegation for every set of tasks, sessions and bounds.    *)
EXTENDS Delegation, TLAPS

-----------------------------------------------------------------------------
(* What the helpers do to the mail and to the owner's ledger *)

States == Open \cup Terminal \cup {"none"}

(* Counts stay counts, and only what is queued is new.                     *)
LEMMA QueueEffect ==
  ASSUME mail \in [Messages -> Nat], NEW out, Queue(out)
  PROVE  /\ mail' \in [Messages -> Nat]
         /\ \A m \in Messages : mail'[m] > 0 => mail[m] > 0 \/ m \in out
BY DEF Queue

LEMMA HandledEffect ==
  ASSUME mail \in [Messages -> Nat], kills \in Nat, NEW x, NEW out, Handled(x, out)
  PROVE  /\ mail' \in [Messages -> Nat] /\ kills' \in Nat
         /\ \A m \in Messages : mail'[m] > 0 => mail[m] > 0 \/ m \in out
<1>1. CASE Queue(out) /\ kills' = kills + 1
  BY <1>1, QueueEffect
<1>2. CASE kills' = kills /\ mail' = [m \in Messages |-> mail[m] + (IF m \in out THEN 1 ELSE 0) - IF m = x THEN 1 ELSE 0]
  <2>1. mail[x] > 0
    BY DEF Handled
  <2>2. ASSUME NEW m \in Messages
        PROVE  mail'[m] \in Nat /\ (mail'[m] > 0 => mail[m] > 0 \/ m \in out)
    <3>1. mail[m] \in Nat /\ mail'[m] = mail[m] + (IF m \in out THEN 1 ELSE 0) - IF m = x THEN 1 ELSE 0
      BY <1>2
    <3> QED
      BY <2>1, <3>1
  <2> QED
    BY <1>2, <2>2
<1> QED
  BY <1>1, <1>2 DEF Handled

OwnerType ==
  /\ status \in [Tasks -> States] /\ closings \in [Tasks -> Nat] /\ answers \in [Tasks -> Nat]
  /\ result \subseteq Tasks /\ creating \in Tasks \cup {NoOp}

SessionType == op \in [Sessions -> Ops]

RequesterType ==
  /\ reqStatus \in [Tasks -> States]
  /\ cancelling \subseteq Tasks /\ withdrawn \subseteq Tasks

MailType == mail \in [Messages -> Nat] /\ calls \in Nat /\ kills \in Nat

LEMMA TypeParts ==
  /\ TypeOK <=> OwnerType /\ SessionType /\ RequesterType /\ MailType
  /\ TypeOK' <=> OwnerType' /\ SessionType' /\ RequesterType' /\ MailType'
BY DEF TypeOK, OwnerType, SessionType, RequesterType, MailType, States

(* Hub.owner_transition and Hub.finish: what an open task becomes, and     *)
(* that a closed task and all other tasks stay as they are.                *)
LEMMA SetStatusEffect ==
  ASSUME status \in [Tasks -> States], closings \in [Tasks -> Nat],
         NEW t \in Tasks, NEW s \in Open \cup Terminal, SetStatus(t, s)
  PROVE  /\ status' \in [Tasks -> States] /\ closings' \in [Tasks -> Nat]
         /\ status'[t] = s /\ \A u \in Tasks \ {t} : status'[u] = status[u]
BY DEF SetStatus, States

LEMMA OwnerTransitionEffect ==
  ASSUME OwnerType, MailType, UNCHANGED <<kills, creating>>, UNCHANGED calls \/ Call,
         NEW t \in Tasks, NEW s \in Open \cup Terminal, NEW m, OwnerTransition(t, s, m)
  PROVE  OwnerType' /\ MailType'
<1>1. calls' \in Nat /\ kills' \in Nat
  BY DEF MailType, Call
<1>2. CASE Moves(t)
  <2>1. SetStatus(t, s) /\ Queue({m}) /\ UNCHANGED <<result, answers>>
    BY <1>2 DEF OwnerTransition
  <2> QED
    BY <1>1, <2>1, SetStatusEffect, QueueEffect DEF OwnerType, MailType
<1>3. CASE ~Moves(t)
  BY <1>1, <1>3 DEF OwnerTransition, OwnerType, MailType
<1> QED
  BY <1>2, <1>3

LEMMA FinishEffect ==
  ASSUME OwnerType, MailType, UNCHANGED <<calls, kills, creating>>,
         NEW t \in Tasks, NEW s \in Results, Finish(t, s)
  PROVE  OwnerType' /\ MailType'
<1>1. CASE Moves(t)
  <2>1. SetStatus(t, s) /\ Queue({Msg("RESULT", s, t)}) /\ result' = result \cup {t}
        /\ answers' = [answers EXCEPT ![t] = @ + 1]
    BY <1>1 DEF Finish
  <2>2. s \in Open \cup Terminal
    BY DEF Results, Terminal
  <2> QED
    BY <2>1, <2>2, SetStatusEffect, QueueEffect DEF OwnerType, MailType
<1>2. CASE ~Moves(t)
  BY <1>2 DEF Finish, OwnerType, MailType
<1> QED
  BY <1>1, <1>2

(* What a reply makes of the requester's row is a task state.              *)
LEMMA ReplyState ==
  ASSUME NEW m \in Messages, m[1] \in ToRequester
  PROVE  RequesterState(m) \in Open \cup Terminal /\ m[2] \in Tasks
BY DEF Messages, ToRequester, ToOwner, RequesterState, Results, Open, Terminal

-----------------------------------------------------------------------------
(* Type correctness *)

LEMMA InitType == Init => TypeOK
BY DEF Init, TypeOK, Ops, Open, Terminal

LEMMA DispatcherType ==
  ASSUME TypeOK, NEW t \in Tasks, OnRequest(t) \/ OnCancel(t) \/ KilledWhileCreating
  PROVE  TypeOK'
<1>0. OwnerType /\ SessionType /\ RequesterType /\ MailType
  BY TypeParts
<1>1. SessionType' /\ RequesterType' /\ calls' \in Nat
  BY <1>0 DEF OnRequest, CreateTask, AnnounceTask, DenyTask, OnKnownRequest, OnCancel, KilledWhileCreating,
     requesterVars, SessionType, RequesterType, MailType
<1>2. MailType'
  <2>1. CASE CreateTask(t) \/ KilledWhileCreating
    BY <1>0, <2>1 DEF CreateTask, KilledWhileCreating, MailType
  <2>2. CASE \E x, out : Handled(x, out)
    BY <1>0, <1>1, <2>2, HandledEffect DEF MailType
  <2> QED
    BY <2>1, <2>2 DEF OnRequest, AnnounceTask, DenyTask, OnKnownRequest, OnCancel
<1>3. status' \in [Tasks -> States] /\ closings' \in [Tasks -> Nat]
  <2>1. CASE UNCHANGED <<status, closings>>
    BY <1>0, <2>1 DEF OwnerType
  <2>2. CASE \E s \in Open \cup Terminal : SetStatus(t, s)
    BY <1>0, <2>2, SetStatusEffect DEF OwnerType
  <2> QED
    BY <2>1, <2>2 DEF OnRequest, CreateTask, AnnounceTask, DenyTask, OnKnownRequest, OnCancel, KilledWhileCreating,
       Open, Terminal
<1>4. result' \subseteq Tasks /\ creating' \in Tasks \cup {NoOp}
  BY <1>0 DEF OnRequest, CreateTask, AnnounceTask, DenyTask, OnKnownRequest, OnCancel, KilledWhileCreating, OwnerType
<1>5. answers' \in [Tasks -> Nat]
  BY <1>0 DEF OnRequest, CreateTask, AnnounceTask, DenyTask, OnKnownRequest, OnCancel, KilledWhileCreating, OwnerType
<1> QED
  BY <1>1, <1>2, <1>3, <1>4, <1>5, TypeParts DEF OwnerType

LEMMA SessionStepType ==
  ASSUME TypeOK, NEW s \in Sessions, Session(s)
  PROVE  TypeOK'
<1>0. OwnerType /\ SessionType /\ RequesterType /\ MailType
  BY TypeParts
<1>1. RequesterType'
  BY <1>0 DEF Session, AcceptTask, RejectTask, AskQuestion, ReadToReport, ReadToSubmit, WriteReport, WriteResult,
     SessionDies, requesterVars, RequesterType
<1>2. ASSUME NEW t \in Tasks, AcceptTask(s, t) \/ RejectTask(s, t)
      PROVE  TypeOK'
  <2>1. OwnerType' /\ MailType'
    BY <1>0, <1>2, OwnerTransitionEffect DEF AcceptTask, RejectTask, Open, Terminal
  <2> QED
    BY <1>0, <1>1, <1>2, <2>1, TypeParts DEF AcceptTask, RejectTask, SessionType
<1>3. ASSUME NEW t \in Tasks, AskQuestion(s, t)
      PROVE  TypeOK'
  <2>1. MailType'
    BY <1>0, <1>3, QueueEffect DEF AskQuestion, MailType, Call
  <2> QED
    BY <1>0, <1>1, <1>3, <2>1, TypeParts DEF AskQuestion, SessionType, ownerVars, OwnerType
<1>4. ASSUME NEW t \in Tasks, ReadToReport(s, t) \/ ReadToSubmit(s, t)
      PROVE  TypeOK'
  <2>1. PICK call \in Ops : op' = [op EXCEPT ![s] = call]
    BY <1>4 DEF ReadToReport, ReadToSubmit, Ops, ReadCalls, Reports, Results
  <2>2. SessionType' /\ MailType' /\ OwnerType'
    BY <1>0, <1>4, <2>1 DEF ReadToReport, ReadToSubmit, SessionType, MailType, Call, ownerVars, OwnerType
  <2> QED
    BY <1>1, <2>2, TypeParts
<1>5. ASSUME NEW t \in Tasks, NEW state \in Reports, WriteReport(s, t, state)
      PROVE  TypeOK'
  <2>1. OwnerType' /\ MailType'
    <3>1. state \in Open \cup Terminal
      BY DEF Reports, Open
    <3>2. PICK m : OwnerTransition(t, state, m)
      BY <1>5 DEF WriteReport
    <3>3. UNCHANGED <<calls, kills, creating>>
      BY <1>5 DEF WriteReport
    <3> QED
      BY <1>0, <3>1, <3>2, <3>3, OwnerTransitionEffect
  <2>2. SessionType'
    BY <1>0, <1>5 DEF WriteReport, SessionType, Ops
  <2> QED
    BY <1>1, <2>1, <2>2, TypeParts
<1>6. ASSUME NEW t \in Tasks, NEW r \in Results, WriteResult(s, t, r)
      PROVE  TypeOK'
  <2>1. OwnerType' /\ MailType'
    BY <1>0, <1>6, FinishEffect DEF WriteResult
  <2>2. SessionType'
    BY <1>0, <1>6 DEF WriteResult, SessionType, Ops
  <2> QED
    BY <1>1, <2>1, <2>2, TypeParts
<1>7. CASE SessionDies(s)
  BY <1>0, <1>1, <1>7, TypeParts DEF SessionDies, ownerVars, SessionType, MailType, OwnerType, Ops
<1> QED
  BY <1>2, <1>3, <1>4, <1>5, <1>6, <1>7 DEF Session

LEMMA RequesterStepType ==
  ASSUME TypeOK, NEW t \in Tasks, Request(t) \/ CancelTask(t) \/ Withdraw(t)
  PROVE  TypeOK'
<1>0. OwnerType /\ SessionType /\ RequesterType /\ MailType
  BY TypeParts
<1>1. OwnerType' /\ SessionType'
  BY <1>0 DEF Request, CancelTask, Withdraw, ownerVars, OwnerType, SessionType
<1>2. RequesterType'
  BY <1>0 DEF Request, CancelTask, Withdraw, RequesterType, States, Open, Terminal
<1>3. MailType'
  <2>1. CASE Withdraw(t)
    BY <1>0, <2>1 DEF Withdraw, MailType
  <2>2. CASE Request(t) \/ CancelTask(t)
    <3>1. PICK type \in {"REQUEST", "CANCEL"} : Queue({Msg(type, "-", t)})
      BY <2>2 DEF Request, CancelTask
    <3>2. mail' \in [Messages -> Nat]
      BY <1>0, <3>1, QueueEffect DEF MailType
    <3> QED
      BY <1>0, <2>2, <3>2 DEF Request, CancelTask, MailType, Call
  <2> QED
    BY <2>1, <2>2
<1> QED
  BY <1>1, <1>2, <1>3, TypeParts

LEMMA ReplyType ==
  ASSUME TypeOK, NEW m \in Messages, OnReply(m)
  PROVE  TypeOK'
<1>0. OwnerType /\ SessionType /\ RequesterType /\ MailType
  BY TypeParts
<1>1. MailType'
  BY <1>0, HandledEffect DEF OnReply, MailType
<1>2. RequesterType'
  BY <1>0, ReplyState DEF OnReply, RequesterType, States
<1> QED
  BY <1>0, <1>1, <1>2, TypeParts DEF OnReply, ownerVars, OwnerType, SessionType

LEMMA NextType == TypeOK /\ [Next]_vars => TypeOK'
<1> SUFFICES ASSUME TypeOK, [Next]_vars PROVE TypeOK'
  OBVIOUS
<1>1. CASE UNCHANGED vars
  BY <1>1 DEF vars, ownerVars, requesterVars, TypeOK
<1>2. CASE KilledWhileCreating
  <2>1. OwnerType /\ SessionType /\ RequesterType /\ MailType
    BY TypeParts
  <2> QED
    BY <1>2, <2>1, TypeParts DEF KilledWhileCreating, OwnerType, SessionType, RequesterType, MailType,
       requesterVars
<1> QED
  BY <1>1, <1>2, DispatcherType, SessionStepType, RequesterStepType, ReplyType DEF Next

(* Every variable keeps its type.                                          *)
THEOREM TypeCorrect == Spec => []TypeOK
<1>1. Init => TypeOK
  BY InitType
<1>2. TypeOK /\ [Next]_vars => TypeOK'
  BY NextType
<1> QED
  BY <1>1, <1>2, PTL DEF Spec
-----------------------------------------------------------------------------
(* The requester agrees with the owner *)

(* An announcement under way that closes the requester's row tells the     *)
(* state the owner's row is closed in.                                     *)
MailTrue == \A m \in Messages : mail[m] > 0 /\ Closes(m) => status[m[2]] = RequesterState(m)

AgreeInv == TypeOK /\ MailTrue /\ RowIsTrue

(* A task the owner has closed stays as it is.                             *)
LEMMA ClosedIsFinal ==
  ASSUME TypeOK, [Next]_vars, NEW t \in Tasks, status[t] \in Terminal
  PROVE  status'[t] = status[t]
<1>1. status \in [Tasks -> States] /\ t \notin {u \in Tasks : Moves(u)} /\ status[t] # "none"
  BY DEF TypeOK, States, Moves, Terminal
<1>2. CASE UNCHANGED status
  BY <1>2
<1>3. CASE \E u \in Tasks, s \in Open \cup Terminal : u # t /\ SetStatus(u, s)
  BY <1>1, <1>3 DEF SetStatus
<1>4. UNCHANGED status \/ \E u \in Tasks, s \in Open \cup Terminal : u # t /\ SetStatus(u, s)
  <2>1. ASSUME NEW u \in Tasks, NEW s \in Open \cup Terminal, NEW m,
               OwnerTransition(u, s, m) \/ Finish(u, s)
        PROVE  UNCHANGED status \/ (u # t /\ SetStatus(u, s))
    BY <1>1, <2>1 DEF OwnerTransition, Finish
  <2>2. CASE UNCHANGED vars
    BY <2>2 DEF vars, ownerVars
  <2>3. ASSUME NEW u \in Tasks, OnRequest(u) \/ OnCancel(u) \/ KilledWhileCreating
        PROVE  UNCHANGED status \/ \E s \in Open \cup Terminal : u # t /\ SetStatus(u, s)
    BY <1>1, <2>3 DEF OnRequest, CreateTask, AnnounceTask, DenyTask, OnKnownRequest, OnCancel, KilledWhileCreating,
       Open, Terminal
  <2>4. ASSUME NEW s \in Sessions, Session(s)
        PROVE  UNCHANGED status \/ \E u \in Tasks, x \in Open \cup Terminal : u # t /\ SetStatus(u, x)
    <3>1. ASSUME NEW u \in Tasks, AcceptTask(s, u) \/ RejectTask(s, u)
          PROVE  UNCHANGED status \/ \E x \in Open \cup Terminal : u # t /\ SetStatus(u, x)
      BY <2>1, <3>1 DEF AcceptTask, RejectTask, Open, Terminal
    <3>2. ASSUME NEW u \in Tasks, NEW state \in Reports, WriteReport(s, u, state)
          PROVE  UNCHANGED status \/ \E x \in Open \cup Terminal : u # t /\ SetStatus(u, x)
      <4>1. PICK m : OwnerTransition(u, state, m)
        BY <3>2 DEF WriteReport
      <4> QED
        BY <2>1, <4>1 DEF Reports, Open
    <3>3. ASSUME NEW u \in Tasks, NEW r \in Results, WriteResult(s, u, r)
          PROVE  UNCHANGED status \/ \E x \in Open \cup Terminal : u # t /\ SetStatus(u, x)
      BY <2>1, <3>3 DEF WriteResult, Results, Terminal
    <3>4. ASSUME NEW u \in Tasks,
                 AskQuestion(s, u) \/ ReadToReport(s, u) \/ ReadToSubmit(s, u) \/ SessionDies(s)
          PROVE  UNCHANGED status
      BY <3>4 DEF AskQuestion, ReadToReport, ReadToSubmit, SessionDies, ownerVars
    <3> QED
      BY <2>4, <3>1, <3>2, <3>3, <3>4 DEF Session
  <2>5. ASSUME NEW u \in Tasks, Request(u) \/ CancelTask(u) \/ Withdraw(u)
        PROVE  UNCHANGED status
    BY <2>5 DEF Request, CancelTask, Withdraw, ownerVars
  <2>6. ASSUME NEW m \in Messages, OnReply(m)
        PROVE  UNCHANGED status
    BY <2>6 DEF OnReply, ownerVars
  <2> QED
    BY <2>2, <2>3, <2>4, <2>5, <2>6 DEF Next
<1> QED
  BY <1>2, <1>3, <1>4

(* What a step newly announces is what it closes.                          *)
LEMMA NewMailTrue ==
  ASSUME TypeOK, Next, NEW m \in Messages, mail[m] = 0, mail'[m] > 0, Closes(m)
  PROVE  status'[m[2]] = RequesterState(m)
<1>0. OwnerType /\ MailType
  BY TypeParts
<1> DEFINE True(out) == \A x \in out : Closes(x) => status'[x[2]] = RequesterState(x)
<1>1. ASSUME NEW out, Queue(out) \/ \E x : Handled(x, out), True(out)
      PROVE  status'[m[2]] = RequesterState(m)
  BY <1>0, <1>1, QueueEffect, HandledEffect DEF MailType
<1>2. ASSUME NEW t \in Tasks, NEW s \in Open \cup Terminal, status'[t] = s
      PROVE  /\ True({Msg("UPDATE", s, t)}) /\ True({Msg("RESULT", s, t)})
             /\ s = "FAILED" => True({Msg("REJECT", "-", t)})
             /\ True({Msg("ACK", "RUNNING", t)}) /\ True({Msg("BLOCKED", "-", t)})
             /\ True({Msg("QUESTION", "-", t)}) /\ True({Msg("REQUEST", "-", t)}) /\ True({Msg("CANCEL", "-", t)})
  BY <1>2 DEF Closes, RequesterState, Msg, ToRequester, Terminal
<1>3. ASSUME NEW t \in Tasks, NEW s \in Open \cup Terminal, NEW x,
             OwnerTransition(t, s, x), status'[t] = s => True({x})
      PROVE  status'[m[2]] = RequesterState(m)
  <2>1. CASE Moves(t)
    <3>1. SetStatus(t, s) /\ Queue({x})
      BY <1>3, <2>1 DEF OwnerTransition
    <3>2. status'[t] = s
      BY <1>0, <3>1, SetStatusEffect DEF OwnerType
    <3> QED
      BY <1>1, <1>3, <3>1, <3>2
  <2>2. CASE ~Moves(t)
    BY <1>3, <2>2 DEF OwnerTransition
  <2> QED
    BY <2>1, <2>2
<1>4. ASSUME NEW t \in Tasks, OnRequest(t) \/ OnCancel(t)
      PROVE  status'[m[2]] = RequesterState(m)
  <2>1. CASE UNCHANGED mail
    BY <2>1
  <2>2. CASE \E x : Handled(x, {})
    BY <1>1, <2>2
  <2>3. CASE AnnounceTask(t)
    <3>1. True({Msg("UPDATE", "PENDING", t)})
      BY DEF Closes, RequesterState, Msg, Terminal
    <3> QED
      BY <1>1, <2>3, <3>1 DEF AnnounceTask
  <2>4. CASE DenyTask(t) /\ Moves(t)
    <3>1. SetStatus(t, "FAILED") /\ Handled(Msg("REQUEST", "-", t), {Msg("REJECT", "-", t)})
      BY <2>4 DEF DenyTask
    <3>2. status'[t] = "FAILED"
      BY <1>0, <3>1, SetStatusEffect DEF OwnerType, Terminal
    <3>3. True({Msg("REJECT", "-", t)})
      BY <1>2, <3>2 DEF Terminal
    <3> QED
      BY <1>1, <3>1, <3>3
  <2>5. CASE OnKnownRequest(t) /\ status[t] \in Terminal
    <3>1. status'[t] = status[t]
      BY <2>5 DEF OnKnownRequest
    <3>2. True({Msg("RESULT", status[t], t)})
      BY <1>2, <2>5, <3>1
    <3> QED
      BY <1>1, <2>5, <3>2 DEF OnKnownRequest
  <2>6. CASE OnCancel(t) /\ status[t] \in Open
    <3>1. SetStatus(t, "CANCELLED") /\ Handled(Msg("CANCEL", "-", t), {Msg("UPDATE", "CANCELLED", t)})
      BY <2>6 DEF OnCancel
    <3>2. status'[t] = "CANCELLED"
      BY <1>0, <3>1, SetStatusEffect DEF OwnerType, Terminal
    <3> QED
      BY <1>1, <1>2, <3>1, <3>2 DEF Terminal
  <2> QED
    BY <1>4, <2>1, <2>2, <2>3, <2>4, <2>5, <2>6
    DEF OnRequest, CreateTask, DenyTask, OnKnownRequest, OnCancel
<1>5. ASSUME NEW s \in Sessions, Session(s)
      PROVE  status'[m[2]] = RequesterState(m)
  <2>1. ASSUME NEW t \in Tasks, AcceptTask(s, t)
        PROVE  status'[m[2]] = RequesterState(m)
    BY <1>2, <1>3, <2>1 DEF AcceptTask, Open
  <2>2. ASSUME NEW t \in Tasks, RejectTask(s, t)
        PROVE  status'[m[2]] = RequesterState(m)
    BY <1>2, <1>3, <2>2 DEF RejectTask, Terminal
  <2>3. ASSUME NEW t \in Tasks, NEW state \in Reports, WriteReport(s, t, state)
        PROVE  status'[m[2]] = RequesterState(m)
    <3>1. state \in Open \cup Terminal
      BY DEF Reports, Open
    <3>2. PICK x \in {Msg("BLOCKED", "-", t), Msg("UPDATE", state, t)} : OwnerTransition(t, state, x)
      BY <2>3 DEF WriteReport
    <3> QED
      BY <1>2, <1>3, <3>1, <3>2
  <2>4. ASSUME NEW t \in Tasks, NEW r \in Results, WriteResult(s, t, r)
        PROVE  status'[m[2]] = RequesterState(m)
    <3>1. CASE Moves(t)
      <4>1. SetStatus(t, r) /\ Queue({Msg("RESULT", r, t)}) /\ r \in Open \cup Terminal
        BY <2>4, <3>1 DEF WriteResult, Finish, Results, Terminal
      <4>2. status'[t] = r
        BY <1>0, <4>1, SetStatusEffect DEF OwnerType
      <4> QED
        BY <1>1, <1>2, <4>1, <4>2
    <3>2. CASE ~Moves(t)
      BY <2>4, <3>2 DEF WriteResult, Finish
    <3> QED
      BY <3>1, <3>2
  <2>5. ASSUME NEW t \in Tasks, AskQuestion(s, t)
        PROVE  status'[m[2]] = RequesterState(m)
    <3>1. True({Msg("QUESTION", "-", t)})
      BY DEF Closes, RequesterState, Msg, Terminal
    <3> QED
      BY <1>1, <2>5, <3>1 DEF AskQuestion
  <2>6. ASSUME NEW t \in Tasks, ReadToReport(s, t) \/ ReadToSubmit(s, t)
        PROVE  UNCHANGED mail
    BY <2>6 DEF ReadToReport, ReadToSubmit
  <2>7. CASE SessionDies(s)
    BY <2>7 DEF SessionDies
  <2>8. UNCHANGED mail => status'[m[2]] = RequesterState(m)
    OBVIOUS
  <2> QED
    BY <1>5, <2>1, <2>2, <2>3, <2>4, <2>5, <2>6, <2>7, <2>8 DEF Session
<1>6. ASSUME NEW t \in Tasks, Request(t) \/ CancelTask(t) \/ Withdraw(t)
      PROVE  status'[m[2]] = RequesterState(m)
  <2>1. CASE Withdraw(t)
    BY <2>1 DEF Withdraw
  <2>2. PICK type \in {"REQUEST", "CANCEL"} : ~Withdraw(t) => Queue({Msg(type, "-", t)})
    BY <1>6 DEF Request, CancelTask
  <2>3. True({Msg(type, "-", t)})
    BY DEF Closes, ToRequester, Msg
  <2> QED
    BY <1>1, <2>1, <2>2, <2>3
<1>7. ASSUME NEW x \in Messages, OnReply(x)
      PROVE  status'[m[2]] = RequesterState(m)
  <2>1. Handled(x, {}) /\ True({})
    BY <1>7 DEF OnReply
  <2> QED
    BY <1>1, <2>1
<1>8. CASE KilledWhileCreating
  BY <1>8 DEF KilledWhileCreating
<1> QED
  BY <1>4, <1>5, <1>6, <1>7, <1>8 DEF Next

LEMMA InitAgree == Init => AgreeInv
BY InitType DEF Init, AgreeInv, MailTrue, RowIsTrue, Terminal

LEMMA NextAgree == AgreeInv /\ [Next]_vars => AgreeInv'
<1> SUFFICES ASSUME AgreeInv, [Next]_vars PROVE AgreeInv'
  OBVIOUS
<1>0. TypeOK /\ TypeOK' /\ MailTrue /\ RowIsTrue
  BY NextType DEF AgreeInv
<1>1. MailTrue'
  <2> SUFFICES ASSUME NEW m \in Messages, mail'[m] > 0, Closes(m)
               PROVE  status'[m[2]] = RequesterState(m)
    BY DEF MailTrue, Closes, RequesterState
  <2>1. CASE mail[m] > 0
    <3>1. status[m[2]] = RequesterState(m) /\ m[2] \in Tasks
      BY <1>0, <2>1 DEF MailTrue, Messages
    <3> QED
      BY <1>0, <3>1, ClosedIsFinal DEF Closes
  <2>2. CASE mail[m] = 0
    <3>1. Next
      BY <2>2 DEF vars
    <3> QED
      BY <1>0, <2>2, <3>1, NewMailTrue
  <2> QED
    BY <1>0, <2>1, <2>2 DEF TypeOK
<1>2. RowIsTrue'
  <2> SUFFICES ASSUME NEW t \in Tasks, t \notin withdrawn', reqStatus'[t] \in Terminal
               PROVE  reqStatus'[t] = status'[t]
    BY DEF RowIsTrue
  <2>1. CASE reqStatus'[t] = reqStatus[t] /\ t \notin withdrawn
    BY <1>0, <2>1, ClosedIsFinal DEF RowIsTrue
  <2>2. CASE \E m \in Messages : OnReply(m) /\ m[2] = t
    <3>1. PICK m \in Messages : OnReply(m) /\ m[2] = t
      BY <2>2
    <3>2. CASE reqStatus'[t] = reqStatus[t]
      BY <1>0, <3>1, <3>2, ClosedIsFinal DEF RowIsTrue, OnReply
    <3>3. CASE reqStatus'[t] = RequesterState(m)
      <4>1. status[t] = RequesterState(m)
        BY <1>0, <3>1, <3>3 DEF MailTrue, Closes, OnReply, Handled
      <4> QED
        BY <1>0, <3>3, <4>1, ClosedIsFinal
    <3> QED
      BY <1>0, <3>1, <3>2, <3>3 DEF OnReply, TypeOK
  <2>3. ASSUME NEW u \in Tasks, Request(u) \/ CancelTask(u) \/ Withdraw(u)
        PROVE  reqStatus'[t] = reqStatus[t] /\ t \notin withdrawn
    BY <1>0, <2>3 DEF Request, CancelTask, Withdraw, TypeOK, Terminal
  <2>4. ASSUME NEW m \in Messages, OnReply(m), m[2] # t
        PROVE  reqStatus'[t] = reqStatus[t] /\ t \notin withdrawn
    BY <1>0, <2>4 DEF OnReply, TypeOK
  <2>5. ASSUME NEW u \in Tasks, OnRequest(u) \/ OnCancel(u) \/ KilledWhileCreating
        PROVE  UNCHANGED requesterVars
    BY <2>5 DEF OnRequest, CreateTask, AnnounceTask, DenyTask, OnKnownRequest, OnCancel, KilledWhileCreating
  <2>6. ASSUME NEW s \in Sessions, Session(s)
        PROVE  UNCHANGED requesterVars
    BY <2>6 DEF Session, AcceptTask, RejectTask, AskQuestion, ReadToReport, ReadToSubmit, WriteReport, WriteResult,
       SessionDies
  <2>7. CASE UNCHANGED vars
    BY <2>1, <2>7 DEF vars, requesterVars
  <2> QED
    BY <2>1, <2>2, <2>3, <2>4, <2>5, <2>6, <2>7 DEF Next, requesterVars
<1> QED
  BY <1>0, <1>1, <1>2 DEF AgreeInv

-----------------------------------------------------------------------------
(* The requester is told *)

(* Mail stays until it is handled, and what is queued is mail.             *)
LEMMA QueueKeeps ==
  ASSUME MailType, NEW out, Queue(out), NEW m \in Messages
  PROVE  (mail[m] > 0 => mail'[m] > 0) /\ (m \in out => mail'[m] > 0)
<1>1. mail[m] \in Nat /\ mail'[m] = mail[m] + IF m \in out THEN 1 ELSE 0 BY DEF MailType, Queue
<1> QED BY <1>1

LEMMA HandledKeeps ==
  ASSUME MailType, NEW x, NEW out, Handled(x, out), NEW m \in Messages, m # x
  PROVE  (mail[m] > 0 => mail'[m] > 0) /\ (m \in out => mail'[m] > 0)
<1>1. mail[m] \in Nat BY DEF MailType
<1>2. mail'[m] = mail[m] + IF m \in out THEN 1 ELSE 0 BY <1>1 DEF Handled, Queue
<1> QED BY <1>1, <1>2

(* Which announcements close a row.                                        *)
LEMMA ClosingMessages ==
  ASSUME NEW t \in Tasks
  PROVE  \A m \in {Msg("UPDATE", "CANCELLED", t), Msg("REJECT", "-", t)} \cup {Msg("RESULT", r, t) : r \in Results} :
           m \in Messages /\ m[2] = t /\ Closes(m) /\ m[1] \notin ToOwner
BY DEF Msg, Messages, ToRequester, ToOwner, Closes, RequesterState, Terminal, Results

Told(t) == \E m \in Messages : m[2] = t /\ Closes(m) /\ mail[m] > 0

(* The step that closes a task queues the announcement of that, too.       *)
LEMMA ClosingAnnounces ==
  ASSUME TypeOK, [Next]_vars, NEW t \in Tasks, status[t] \notin Terminal, status'[t] \in Terminal
  PROVE  Told(t)'
<1>0. OwnerType /\ MailType BY TypeParts
<1>1. ASSUME NEW m \in Messages, m[2] = t, Closes(m), mail'[m] > 0 PROVE Told(t)'
  BY <1>1 DEF Told, Closes, RequesterState
<1> DEFINE Closing == {Msg("UPDATE", "CANCELLED", t), Msg("REJECT", "-", t)} \cup {Msg("RESULT", r, t) : r \in Results}
<1>2. ASSUME NEW m \in Closing, Queue({m}) PROVE Told(t)'
  <2>1. m \in Messages /\ m[2] = t /\ Closes(m) BY ClosingMessages
  <2> QED BY <1>0, <1>1, <1>2, <2>1, QueueKeeps
<1>3. ASSUME NEW m \in Closing, NEW x, x[1] \in ToOwner, Handled(x, {m}) PROVE Told(t)'
  <2>1. m \in Messages /\ m[2] = t /\ Closes(m) /\ m # x BY <1>3, ClosingMessages
  <2> QED BY <1>0, <1>1, <1>3, <2>1, HandledKeeps
<1>4. ASSUME NEW u \in Tasks, NEW s, SetStatus(u, s) PROVE u = t /\ s \in Terminal
  BY <1>0, <1>4 DEF SetStatus, OwnerType
<1>5. ASSUME NEW u \in Tasks, OnRequest(u) \/ OnCancel(u) PROVE Told(t)'
  <2>1. CASE CreateTask(u)
    <3>1. SetStatus(u, "PENDING") BY <2>1 DEF CreateTask
    <3> QED BY <1>4, <3>1 DEF Terminal
  <2>2. CASE AnnounceTask(u) \/ OnKnownRequest(u) BY <2>2 DEF AnnounceTask, OnKnownRequest
  <2>3. CASE DenyTask(u)
    <3>1. SetStatus(u, "FAILED") /\ Handled(Msg("REQUEST", "-", u), {Msg("REJECT", "-", u)})
      BY <2>3 DEF DenyTask
    <3>2. u = t BY <1>4, <3>1
    <3>3. Msg("REQUEST", "-", u)[1] \in ToOwner BY DEF Msg, ToOwner
    <3> QED BY <1>3, <3>1, <3>2, <3>3
  <2>4. CASE OnCancel(u)
    <3>1. SetStatus(u, "CANCELLED") /\ Handled(Msg("CANCEL", "-", u), {Msg("UPDATE", "CANCELLED", u)})
      BY <2>4 DEF OnCancel
    <3>2. u = t BY <1>4, <3>1
    <3>3. Msg("CANCEL", "-", u)[1] \in ToOwner BY DEF Msg, ToOwner
    <3> QED BY <1>3, <3>1, <3>2, <3>3
  <2> QED BY <1>5, <2>1, <2>2, <2>3, <2>4 DEF OnRequest
<1>6. ASSUME NEW s \in Sessions, Session(s) PROVE Told(t)'
  <2>1. ASSUME NEW u \in Tasks, NEW state \in Open, NEW m, OwnerTransition(u, state, m) PROVE FALSE
    BY <1>4, <2>1 DEF OwnerTransition, Open, Terminal
  <2>2. ASSUME NEW u \in Tasks, AcceptTask(s, u) PROVE FALSE BY <2>1, <2>2 DEF AcceptTask, Open
  <2>3. ASSUME NEW u \in Tasks, RejectTask(s, u) PROVE Told(t)'
    <3>1. SetStatus(u, "FAILED") /\ Queue({Msg("REJECT", "-", u)}) BY <2>3 DEF RejectTask, OwnerTransition
    <3>2. u = t BY <1>4, <3>1
    <3> QED BY <1>2, <3>1, <3>2
  <2>4. ASSUME NEW u \in Tasks, NEW state \in Reports, WriteReport(s, u, state) PROVE FALSE
    <3>1. PICK m : OwnerTransition(u, state, m) BY <2>4 DEF WriteReport
    <3> QED BY <2>1, <3>1 DEF Reports, Open
  <2>5. ASSUME NEW u \in Tasks, NEW r \in Results, WriteResult(s, u, r) PROVE Told(t)'
    <3>1. SetStatus(u, r) /\ Queue({Msg("RESULT", r, u)}) BY <2>5 DEF WriteResult, Finish
    <3>2. u = t BY <1>4, <3>1
    <3> QED BY <1>2, <3>1, <3>2
  <2>6. ASSUME NEW u \in Tasks, AskQuestion(s, u) \/ ReadToReport(s, u) \/ ReadToSubmit(s, u) \/ SessionDies(s)
        PROVE  FALSE
    BY <2>6 DEF AskQuestion, ReadToReport, ReadToSubmit, SessionDies, ownerVars
  <2>7. CASE SessionDies(s) BY <2>7 DEF SessionDies, ownerVars
  <2> QED BY <1>6, <2>2, <2>3, <2>4, <2>5, <2>6, <2>7 DEF Session
<1>7. ~UNCHANGED status OBVIOUS
<1>8. /\ ~KilledWhileCreating /\ ~UNCHANGED vars /\ \A m \in Messages : ~OnReply(m)
      /\ \A u \in Tasks : ~Request(u) /\ ~CancelTask(u) /\ ~Withdraw(u)
  BY <1>7 DEF KilledWhileCreating, vars, OnReply, Request, CancelTask, Withdraw, ownerVars
<1> QED BY <1>5, <1>6, <1>8 DEF Next

(* An announcement stays in the mail until OnReply has handled it.         *)
LEMMA MailWaits ==
  ASSUME TypeOK, [Next]_vars, NEW m \in Messages, Closes(m), mail[m] > 0, ~OnReply(m)
  PROVE  mail'[m] > 0
<1>0. MailType BY TypeParts
<1>1. \A t \in Tasks : m # Msg("REQUEST", "-", t) /\ m # Msg("CANCEL", "-", t)
  BY DEF Closes, ToRequester, Msg
<1>2. ASSUME NEW out, Queue(out) \/ (\E x : x # m /\ Handled(x, out)) PROVE mail'[m] > 0
  BY <1>0, <1>2, QueueKeeps, HandledKeeps
<1>3. ASSUME NEW t \in Tasks, OnRequest(t) \/ OnCancel(t) PROVE mail'[m] > 0
  <2>1. UNCHANGED mail \/ \E out : Handled(Msg("REQUEST", "-", t), out) \/ Handled(Msg("CANCEL", "-", t), out)
    BY <1>3 DEF OnRequest, CreateTask, AnnounceTask, DenyTask, OnKnownRequest, OnCancel
  <2> QED BY <1>1, <1>2, <2>1
<1>4. ASSUME NEW s \in Sessions, Session(s) PROVE mail'[m] > 0
  <2>1. ASSUME NEW t \in Tasks, AcceptTask(s, t) \/ RejectTask(s, t) \/ AskQuestion(s, t)
        PROVE  UNCHANGED mail \/ \E out : Queue(out)
    BY <2>1 DEF AcceptTask, RejectTask, AskQuestion, OwnerTransition
  <2>2. ASSUME NEW t \in Tasks, NEW state \in Reports, WriteReport(s, t, state)
        PROVE  UNCHANGED mail \/ \E out : Queue(out)
    BY <2>2 DEF WriteReport, OwnerTransition
  <2>3. ASSUME NEW t \in Tasks, NEW r \in Results, WriteResult(s, t, r)
        PROVE  UNCHANGED mail \/ \E out : Queue(out)
    BY <2>3 DEF WriteResult, Finish
  <2>4. ASSUME NEW t \in Tasks, ReadToReport(s, t) \/ ReadToSubmit(s, t) PROVE UNCHANGED mail
    BY <2>4 DEF ReadToReport, ReadToSubmit
  <2>5. SessionDies(s) => UNCHANGED mail BY DEF SessionDies
  <2>6. UNCHANGED mail \/ \E out : Queue(out) BY <1>4, <2>1, <2>2, <2>3, <2>4, <2>5 DEF Session
  <2> QED BY <1>2, <2>6
<1>5. ASSUME NEW t \in Tasks, Request(t) \/ CancelTask(t) \/ Withdraw(t) PROVE mail'[m] > 0
  <2>1. UNCHANGED mail \/ \E out : Queue(out) BY <1>5 DEF Request, CancelTask, Withdraw
  <2> QED BY <1>2, <2>1
<1>6. ASSUME NEW x \in Messages, OnReply(x) PROVE mail'[m] > 0
  <2>1. x # m /\ Handled(x, {}) BY <1>6 DEF OnReply
  <2> QED BY <1>2, <2>1
<1>7. KilledWhileCreating \/ UNCHANGED vars => mail'[m] > 0 BY DEF KilledWhileCreating, vars
<1> QED BY <1>3, <1>4, <1>5, <1>6, <1>7 DEF Next

(* The requester's row stays closed.                                       *)
LEMMA RowStaysClosed ==
  ASSUME TypeOK, [Next]_vars, NEW t \in Tasks, reqStatus[t] \in Terminal
  PROVE  reqStatus'[t] = reqStatus[t]
<1>0. reqStatus \in [Tasks -> States] BY TypeParts DEF RequesterType
<1>1. ASSUME NEW u \in Tasks, Request(u) \/ CancelTask(u) \/ Withdraw(u) PROVE reqStatus'[t] = reqStatus[t]
  BY <1>0, <1>1 DEF Request, CancelTask, Withdraw, Terminal
<1>2. ASSUME NEW m \in Messages, OnReply(m) PROVE reqStatus'[t] = reqStatus[t] BY <1>0, <1>2 DEF OnReply
<1>3. ASSUME NEW u \in Tasks, OnRequest(u) \/ OnCancel(u) \/ KilledWhileCreating PROVE UNCHANGED reqStatus
  BY <1>3 DEF OnRequest, CreateTask, AnnounceTask, DenyTask, OnKnownRequest, OnCancel, KilledWhileCreating,
     requesterVars
<1>4. ASSUME NEW s \in Sessions, Session(s) PROVE UNCHANGED reqStatus
  BY <1>4 DEF Session, AcceptTask, RejectTask, AskQuestion, ReadToReport, ReadToSubmit, WriteReport, WriteResult,
     SessionDies, requesterVars
<1>5. KilledWhileCreating \/ UNCHANGED vars => UNCHANGED reqStatus BY DEF KilledWhileCreating, vars, requesterVars
<1> QED BY <1>1, <1>2, <1>3, <1>4, <1>5 DEF Next

LEMMA NextTold == TypeOK /\ ClosingIsTold /\ [Next]_vars => ClosingIsTold'
<1> SUFFICES ASSUME TypeOK, ClosingIsTold, [Next]_vars,
                    NEW t \in Tasks, status'[t] \in Terminal, reqStatus'[t] \notin Terminal
             PROVE  Told(t)'
  BY DEF ClosingIsTold, Told, Closes, RequesterState
<1>1. reqStatus[t] \notin Terminal BY RowStaysClosed
<1>2. CASE status[t] \in Terminal
  <2>1. PICK m \in Messages : m[2] = t /\ Closes(m) /\ mail[m] > 0 BY <1>1, <1>2 DEF ClosingIsTold
  <2>2. ~OnReply(m)
    <3> SUFFICES ASSUME OnReply(m) PROVE FALSE OBVIOUS
    <3>1. reqStatus'[t] = RequesterState(m) BY <1>1, <2>1, TypeParts DEF OnReply, RequesterType
    <3> QED BY <2>1, <3>1 DEF Closes
  <2>3. mail'[m] > 0 BY <2>1, <2>2, MailWaits
  <2> QED BY <2>1, <2>3 DEF Told, Closes, RequesterState
<1>3. CASE status[t] \notin Terminal BY <1>3, ClosingAnnounces
<1> QED BY <1>2, <1>3

(* A requester that did not withdraw sees a task closed only as its owner  *)
(* closed it, and as long as it does not, what will tell it is under way.  *)
THEOREM RequesterFollows == Spec => []RequesterAgrees
<1>1. Init => AgreeInv BY InitAgree
<1>2. AgreeInv /\ [Next]_vars => AgreeInv' BY NextAgree
<1>3. Init => ClosingIsTold BY DEF Init, ClosingIsTold, Terminal
<1>4. AgreeInv /\ ClosingIsTold /\ [Next]_vars => ClosingIsTold' BY NextTold DEF AgreeInv
<1>5. AgreeInv /\ ClosingIsTold => RequesterAgrees BY DEF AgreeInv, RequesterAgrees
<1> QED BY <1>1, <1>2, <1>3, <1>4, <1>5, PTL DEF Spec

-----------------------------------------------------------------------------
(* The owner keeps the promise of TaskLifecycle *)

ResultsFinished == \A t \in result : status[t] \in Results

(* submit_result has found the task it will finish.                        *)
SubmitOwned == \A s \in Sessions, r \in Results, t \in Tasks : op[s] = <<"submit", r, t>> => Owned(t)

LifecycleInv == TypeOK /\ ResultsFinished /\ SubmitOwned

(* An open task moves, or is withdrawn or refused.                         *)
LEMMA MoveImplements ==
  ASSUME OwnerType, NEW t \in Tasks, Moves(t), NEW s \in Open \cup {"FAILED", "CANCELLED"}, SetStatus(t, s),
         UNCHANGED <<result, answers>>
  PROVE  Lifecycle!Next
<1>1. status[t] \in Open \cup {"none"}
  BY DEF Moves, OwnerType, States
<1>2. Lifecycle!Moves(t) \/ Lifecycle!Withdraws(t)
  BY <1>1 DEF SetStatus, OwnerType, Lifecycle!Moves, Lifecycle!Withdraws, Lifecycle!Open, Lifecycle!Keeps,
     Open, Terminal, States
<1>3. ASSUME NEW u \in Tasks \ {t}
      PROVE  Lifecycle!Stays(u)
  BY DEF SetStatus, OwnerType, Lifecycle!Stays, Lifecycle!Keeps
<1> QED
  BY <1>2, <1>3 DEF Lifecycle!Next

LEMMA FinishImplements ==
  ASSUME OwnerType, NEW t \in Tasks, Owned(t), NEW s \in Results, Finish(t, s)
  PROVE  Lifecycle!Next \/ UNCHANGED <<status, result, closings, answers>>
<1>1. CASE Moves(t)
  <2>1. status[t] \in Open
    BY <1>1 DEF Moves, Owned, OwnerType, States
  <2>2. SetStatus(t, s) /\ result' = result \cup {t} /\ answers' = [answers EXCEPT ![t] = @ + 1]
    BY <1>1 DEF Finish
  <2>3. Lifecycle!Finishes(t)
    BY <2>1, <2>2 DEF SetStatus, OwnerType, Lifecycle!Finishes, Lifecycle!Open, Lifecycle!Finished,
       Open, Results, Terminal
  <2>4. ASSUME NEW u \in Tasks \ {t}
        PROVE  Lifecycle!Stays(u)
    BY <2>2 DEF SetStatus, OwnerType, Lifecycle!Stays, Lifecycle!Keeps
  <2> QED
    BY <2>3, <2>4 DEF Lifecycle!Next
<1>2. CASE ~Moves(t)
  BY <1>2 DEF Finish
<1> QED
  BY <1>1, <1>2

LEMMA AgainImplements ==
  ASSUME OwnerType, ResultsFinished, NEW t \in result,
         answers' = [answers EXCEPT ![t] = @ + 1], UNCHANGED <<status, result, closings>>
  PROVE  Lifecycle!Next
BY DEF OwnerType, ResultsFinished, Results, Lifecycle!Next, Lifecycle!Stays, Lifecycle!Keeps, Lifecycle!Finished

(* Every step of the owner, its sessions and the requester is one of the   *)
(* promise, or leaves the ledger alone.                                    *)
LEMMA StepImplements ==
  ASSUME LifecycleInv, [Next]_vars
  PROVE  [Lifecycle!Next]_(Lifecycle!vars)
<1> DEFINE Same == UNCHANGED <<status, result, closings, answers>>
<1>0. OwnerType /\ ResultsFinished /\ SubmitOwned
  BY TypeParts DEF LifecycleInv
<1>1. ASSUME NEW t \in Tasks, NEW s \in Open \cup {"FAILED", "CANCELLED"}, NEW m, OwnerTransition(t, s, m)
      PROVE  Lifecycle!Next \/ Same
  BY <1>0, <1>1, MoveImplements DEF OwnerTransition
<1>2. ASSUME NEW t \in Tasks, OnRequest(t) \/ OnCancel(t)
      PROVE  Lifecycle!Next \/ Same
  <2>1. CASE Same
    BY <2>1
  <2>2. CASE CreateTask(t)
    <3>1. Moves(t) /\ SetStatus(t, "PENDING") /\ UNCHANGED <<result, answers>>
      BY <2>2 DEF CreateTask, Moves, Terminal
    <3> QED
      BY <1>0, <3>1, MoveImplements DEF Open
  <2>3. CASE DenyTask(t) /\ Moves(t)
    BY <1>0, <2>3, MoveImplements DEF DenyTask
  <2>4. CASE OnKnownRequest(t) /\ status[t] \in Terminal /\ t \in result
    BY <1>0, <2>4, AgainImplements DEF OnKnownRequest
  <2>5. CASE OnCancel(t) /\ status[t] \in Open
    <3>1. Moves(t) /\ SetStatus(t, "CANCELLED") /\ UNCHANGED <<result, answers>>
      BY <2>5 DEF OnCancel, Moves, Open, Terminal
    <3> QED
      BY <1>0, <3>1, MoveImplements
  <2> QED
    BY <1>2, <2>1, <2>2, <2>3, <2>4, <2>5 DEF OnRequest, AnnounceTask, DenyTask, OnKnownRequest, OnCancel
<1>3. ASSUME NEW s \in Sessions, Session(s)
      PROVE  Lifecycle!Next \/ Same
  <2>1. ASSUME NEW t \in Tasks, AcceptTask(s, t) \/ RejectTask(s, t)
        PROVE  Lifecycle!Next \/ Same
    BY <1>1, <2>1 DEF AcceptTask, RejectTask, Open
  <2>2. ASSUME NEW t \in Tasks, NEW state \in Reports, WriteReport(s, t, state)
        PROVE  Lifecycle!Next \/ Same
    <3>1. PICK m : OwnerTransition(t, state, m)
      BY <2>2 DEF WriteReport
    <3> QED
      BY <1>1, <3>1 DEF Reports, Open
  <2>3. ASSUME NEW t \in Tasks, NEW r \in Results, WriteResult(s, t, r)
        PROVE  Lifecycle!Next \/ Same
    BY <1>0, <2>3, FinishImplements DEF WriteResult, SubmitOwned
  <2>4. ASSUME NEW t \in Tasks,
               AskQuestion(s, t) \/ ReadToReport(s, t) \/ ReadToSubmit(s, t)
        PROVE  Same
    BY <2>4 DEF AskQuestion, ReadToReport, ReadToSubmit, ownerVars
  <2>5. CASE SessionDies(s)
    BY <2>5 DEF SessionDies, ownerVars
  <2> QED
    BY <1>3, <2>1, <2>2, <2>3, <2>4, <2>5 DEF Session
<1>4. ASSUME NEW t \in Tasks, Request(t) \/ CancelTask(t) \/ Withdraw(t)
      PROVE  Same
  BY <1>4 DEF Request, CancelTask, Withdraw, ownerVars
<1>5. ASSUME NEW m \in Messages, OnReply(m)
      PROVE  Same
  BY <1>5 DEF OnReply, ownerVars
<1>6. KilledWhileCreating \/ UNCHANGED vars => Same
  BY DEF KilledWhileCreating, vars, ownerVars
<1>7. Lifecycle!Next \/ Same
  BY <1>2, <1>3, <1>4, <1>5, <1>6 DEF Next
<1> QED
  BY <1>7 DEF Lifecycle!vars

(* A step of the promise never closes a task without its result, nor       *)
(* forgets a task.                                                         *)
LEMMA LifecycleStep ==
  ASSUME OwnerType, OwnerType', ResultsFinished, [Lifecycle!Next]_(Lifecycle!vars)
  PROVE  ResultsFinished' /\ \A t \in Tasks : Owned(t) => Owned(t)'
<1>1. CASE UNCHANGED <<status, result, closings, answers>>
  BY <1>1 DEF ResultsFinished, Owned
<1>2. CASE Lifecycle!Next
  <2>1. ASSUME NEW t \in Tasks
        PROVE  (t \in result' => status'[t] \in Results) /\ (Owned(t) => Owned(t)')
    <3>1. Lifecycle!Moves(t) \/ Lifecycle!Withdraws(t) \/ Lifecycle!Finishes(t) \/ Lifecycle!Stays(t)
      BY <1>2 DEF Lifecycle!Next
    <3>2. t \in result => status[t] \in Results
      BY DEF ResultsFinished
    <3> QED
      BY <3>1, <3>2 DEF Lifecycle!Moves, Lifecycle!Withdraws, Lifecycle!Finishes, Lifecycle!Stays, Lifecycle!Keeps,
         Lifecycle!Open, Lifecycle!Finished, Results, Owned
  <2> QED
    BY <2>1 DEF ResultsFinished, OwnerType
<1> QED
  BY <1>1, <1>2 DEF Lifecycle!vars

LEMMA NextLifecycle == LifecycleInv /\ [Next]_vars => LifecycleInv'
<1> SUFFICES ASSUME LifecycleInv, [Next]_vars PROVE LifecycleInv'
  OBVIOUS
<1>0. TypeOK /\ TypeOK' /\ OwnerType /\ OwnerType' /\ SessionType /\ ResultsFinished /\ SubmitOwned
  BY NextType, TypeParts DEF LifecycleInv
<1>1. ResultsFinished' /\ \A t \in Tasks : Owned(t) => Owned(t)'
  BY <1>0, StepImplements, LifecycleStep
<1>2. SubmitOwned'
  <2> SUFFICES ASSUME NEW s \in Sessions, NEW r \in Results, NEW t \in Tasks, op'[s] = <<"submit", r, t>>
               PROVE  Owned(t)
    BY <1>1 DEF SubmitOwned
  <2>1. CASE op'[s] = op[s]
    BY <1>0, <2>1 DEF SubmitOwned
  <2>2. CASE \E u \in Tasks : ReadToSubmit(s, u)
    BY <1>0, <2>2 DEF ReadToSubmit, SessionType
  <2>3. ASSUME NEW u \in Tasks, ReadToReport(s, u)
        PROVE  op'[s] # <<"submit", r, t>>
    BY <1>0, <2>3 DEF ReadToReport, SessionType
  <2>4. ASSUME NEW x \in Sessions, Session(x), x # s
        PROVE  op'[s] = op[s]
    BY <1>0, <2>4 DEF Session, AcceptTask, RejectTask, AskQuestion, ReadToReport, ReadToSubmit, WriteReport,
       WriteResult, SessionDies, SessionType
  <2>5. CASE Session(s)
    <3>1. CASE op'[s] = NoOp
      BY <2>5, <3>1, NullAssumption DEF ReadCalls
    <3> QED
      BY <1>0, <2>1, <2>2, <2>3, <2>5, <3>1
      DEF Session, AcceptTask, RejectTask, AskQuestion, WriteReport, WriteResult, SessionDies, SessionType
  <2>6. CASE UNCHANGED op
    BY <2>1, <2>6
  <2>7. UNCHANGED op \/ \E x \in Sessions : Session(x)
    BY DEF Next, vars, OnRequest, CreateTask, AnnounceTask, DenyTask, OnKnownRequest, OnCancel,
       KilledWhileCreating, Request, CancelTask, Withdraw, OnReply
  <2> QED
    BY <2>1, <2>4, <2>5, <2>6, <2>7
<1> QED
  BY <1>0, <1>1, <1>2 DEF LifecycleInv

(* Every behaviour of the owner is one its promise allows.                 *)
THEOREM KeepsLifecycle == Spec => ImplementsTaskLifecycle
<1>1. Init => LifecycleInv /\ Lifecycle!Init
  <2>1. Init => TypeOK
    BY InitType
  <2> QED
    BY <2>1, NullAssumption DEF Init, LifecycleInv, ResultsFinished, SubmitOwned, ReadCalls, Lifecycle!Init
<1>2. LifecycleInv /\ [Next]_vars => LifecycleInv'
  BY NextLifecycle
<1>3. LifecycleInv /\ [Next]_vars => [Lifecycle!Next]_(Lifecycle!vars)
  BY StepImplements
<1> QED
  BY <1>1, <1>2, <1>3, PTL DEF Spec, ImplementsTaskLifecycle, Lifecycle!Spec

(* The promise bounds what is announced: its inductive part, by task.      *)
PromiseKept ==
  /\ Lifecycle!ClosedOnce
  /\ \A t \in Tasks : answers[t] \in Nat /\ status[t] \in Lifecycle!Open \cup Lifecycle!Terminal \cup {"none"}

LEMMA PromiseIsKept == Lifecycle!Spec => []PromiseKept
<1>1. Lifecycle!Init => PromiseKept
  BY DEF Lifecycle!Init, PromiseKept, Lifecycle!ClosedOnce, Lifecycle!Terminal, Lifecycle!Finished
<1>2. PromiseKept /\ [Lifecycle!Next]_(Lifecycle!vars) => PromiseKept'
  <2> SUFFICES ASSUME PromiseKept, Lifecycle!Next PROVE PromiseKept'
    BY DEF PromiseKept, Lifecycle!ClosedOnce, Lifecycle!vars
  <2> SUFFICES ASSUME NEW t \in Tasks
               PROVE  /\ closings'[t] = IF status'[t] \in Lifecycle!Terminal THEN 1 ELSE 0
                      /\ answers'[t] > 0 <=> t \in result'
                      /\ t \in result' => status'[t] \in Lifecycle!Finished
                      /\ answers'[t] \in Nat
                      /\ status'[t] \in Lifecycle!Open \cup Lifecycle!Terminal \cup {"none"}
    BY DEF PromiseKept, Lifecycle!ClosedOnce
  <2> USE DEF PromiseKept, Lifecycle!ClosedOnce, Lifecycle!Terminal, Lifecycle!Finished, Lifecycle!Open, Lifecycle!Keeps
  <2>1. CASE Lifecycle!Moves(t) BY <2>1 DEF Lifecycle!Moves
  <2>2. CASE Lifecycle!Withdraws(t) BY <2>2 DEF Lifecycle!Withdraws
  <2>3. CASE Lifecycle!Finishes(t) BY <2>3 DEF Lifecycle!Finishes
  <2>4. CASE Lifecycle!Stays(t) BY <2>4 DEF Lifecycle!Stays
  <2> QED BY <2>1, <2>2, <2>3, <2>4 DEF Lifecycle!Next
<1> QED BY <1>1, <1>2, PTL DEF Lifecycle!Spec

(* However many sessions, CANCELs and deaths meet on a task: it is          *)
(* announced as closed once when it is closed, and has answers only then.  *)
THEOREM ClosingIsAnnouncedOnce == Spec => []Lifecycle!ClosedOnce
<1>1. PromiseKept => Lifecycle!ClosedOnce BY DEF PromiseKept
<1> QED BY <1>1, KeepsLifecycle, PromiseIsKept, PTL DEF ImplementsTaskLifecycle
=============================================================================
