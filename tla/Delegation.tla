----------------------------- MODULE Delegation -----------------------------
(***************************************************************************)
(* A requester on one node and an interactive agent that owns its tasks on *)
(* another: the requester's request, cancel_task and dispatcher; the       *)
(* owner's dispatcher; and the owner's sessions, separate processes that   *)
(* accept, reject, report on, question and finish tasks through tools.py.  *)
(*                                                                         *)
(* Messages travel as module Mailbox shows they do: each one queued is     *)
(* handled, in any order, once or, when a daemon dies before mark_handled, *)
(* again.  `mail` counts the copies of each message still to be handled.   *)
(*                                                                         *)
(* Grain: a ledger transaction with the reads of the same call before it,  *)
(* but for report_progress, submit_result and cancel_task, whose two       *)
(* accesses another process can come between. A daemon that dies after the *)
(* last transaction of a handler will handle the message again.            *)
(*                                                                         *)
(* Abstracted: result bodies (a result is the state it closes the task     *)
(* with); ANSWER and fyi messages, which change no task; ERROR replies     *)
(* (node.py:206), which a node sends for a message it cannot decode: every *)
(* message is validated by the same rules before it is queued (hub.py:142, *)
(* 279, 296), so one needs nodes of different versions; seen flags: a      *)
(* session may act on any task its agent owns (_owned), seen or not.       *)
(***************************************************************************)
EXTENDS Naturals, FiniteSets

CONSTANTS
  Tasks,        \* task ids
  Denied,       \* those _check_policy of the owner refuses
  Sessions,     \* processes acting as the owning agent
  NoOp,         \* "no call, or no handler, under way"
  MaxCalls,     \* bound: calls of the requester and the sessions
  MaxKills      \* bound: deaths of a daemon inside a handler, in all

ASSUME TasksAssumption == IsFiniteSet(Tasks) /\ Denied \subseteq Tasks
ASSUME BoundsAssumption == MaxCalls \in Nat /\ MaxKills \in Nat

Terminal == {"COMPLETED", "FAILED", "CANCELLED"}
Open     == {"PENDING", "ACCEPTED", "RUNNING", "WAITING", "BLOCKED"}
Results  == {"COMPLETED", "FAILED"}
Reports  == {"RUNNING", "WAITING", "BLOCKED"}

(* Calls that have read the task and will write what they read.            *)
ReadCalls == ({"report"} \X Reports \X Tasks) \cup ({"submit"} \X Results \X Tasks)
Ops == ReadCalls \cup {NoOp}

ASSUME NullAssumption == NoOp \notin Tasks /\ NoOp \notin ReadCalls

(* Message types with the task state their body carries, if any. *)
ToOwner == {<<"REQUEST", "-">>, <<"CANCEL", "-">>}
ToRequester ==
  ({"UPDATE"} \X {"PENDING", "RUNNING", "WAITING", "CANCELLED"}) \cup ({"RESULT"} \X Results)
    \cup {<<"ACK", "RUNNING">>, <<"BLOCKED", "-">>, <<"QUESTION", "-">>, <<"REJECT", "-">>}
Messages == (ToOwner \cup ToRequester) \X Tasks

Msg(type, state, t) == <<<<type, state>>, t>>

VARIABLES
  status,      \* owner's ledger: task -> state ("none": no row)
  result,      \* owner's ledger: tasks with a result
  closings,    \* owner's ledger: task -> closing announcements queued
  answers,     \* owner's ledger: task -> RESULT messages queued
  creating,    \* task _on_request has created and not yet answered for
  op,          \* session -> call that has read the task and not yet written
  reqStatus,   \* requester's ledger: task -> state
  cancelling,  \* cancel_task has queued its CANCEL and not closed the row
  withdrawn,   \* tasks cancel_task has closed on the requester's side
  mail,        \* message -> copies queued and not yet handled
  calls, kills

ownerVars     == <<status, result, closings, answers, creating>>
requesterVars == <<reqStatus, cancelling, withdrawn>>
vars == <<ownerVars, op, requesterVars, mail, calls, kills>>

-----------------------------------------------------------------------------
Call == calls < MaxCalls /\ calls' = calls + 1

Queue(out) == mail' = [m \in Messages |-> mail[m] + IF m \in out THEN 1 ELSE 0]

(* Message m is handled and its handler queues `out`; unless the daemon    *)
(* dies before mark_handled.                                               *)
Handled(m, out) ==
  /\ mail[m] > 0
  /\ \/ kills' = kills /\ mail' = [x \in Messages |-> mail[x] + (IF x \in out THEN 1 ELSE 0) - IF x = m THEN 1 ELSE 0]
     \/ kills < MaxKills /\ kills' = kills + 1 /\ Queue(out)

(* ledger.update_task on an owned task: closed tasks refuse. *)
Moves(t) == status[t] \notin Terminal

SetStatus(t, s) ==
  /\ status' = [status EXCEPT ![t] = s]
  /\ closings' = IF s \in Terminal THEN [closings EXCEPT ![t] = @ + 1] ELSE closings

(* Hub.owner_transition: the state and its announcement, or nothing. *)
OwnerTransition(t, s, announcement) ==
  IF Moves(t)
    THEN SetStatus(t, s) /\ Queue({announcement}) /\ UNCHANGED <<result, answers>>
    ELSE UNCHANGED <<status, closings, result, answers, mail>>

(* Mutant of Finish: no look at the state of the task. *)
FinishAnyway(t, s) ==
  /\ SetStatus(t, s)
  /\ result' = result \cup {t} /\ answers' = [answers EXCEPT ![t] = @ + 1]
  /\ Queue({Msg("RESULT", s, t)})

(* Hub.finish: the state, the result and its RESULT, or nothing. *)
Finish(t, s) ==
  IF Moves(t)
    THEN /\ SetStatus(t, s)
         /\ result' = result \cup {t} /\ answers' = [answers EXCEPT ![t] = @ + 1]
         /\ Queue({Msg("RESULT", s, t)})
    ELSE UNCHANGED <<status, closings, result, answers, mail>>

Init ==
  /\ status = [t \in Tasks |-> "none"] /\ reqStatus = [t \in Tasks |-> "none"]
  /\ result = {} /\ creating = NoOp
  /\ closings = [t \in Tasks |-> 0] /\ answers = [t \in Tasks |-> 0]
  /\ op = [s \in Sessions |-> NoOp]
  /\ cancelling = {} /\ withdrawn = {}
  /\ mail = [m \in Messages |-> 0]
  /\ calls = 0 /\ kills = 0

-----------------------------------------------------------------------------
(* Owner's dispatcher *)

(* _on_request of a new task: create_owned_task, a transaction of its own. *)
CreateTask(t) ==
  /\ creating = NoOp
  /\ mail[Msg("REQUEST", "-", t)] > 0 /\ status[t] = "none"
  /\ SetStatus(t, "PENDING")
  /\ creating' = t
  /\ UNCHANGED <<result, answers, op, requesterVars, mail, calls, kills>>

(* The requester learns that the task has reached the inbox. *)
AnnounceTask(t) ==
  /\ creating = t /\ t \notin Denied
  /\ creating' = NoOp
  /\ Handled(Msg("REQUEST", "-", t), {Msg("UPDATE", "PENDING", t)})
  /\ UNCHANGED <<status, result, closings, answers, op, requesterVars, calls>>

(* _check_policy refuses: FAILED and REJECT, if nobody has closed the task *)
(* meanwhile.                                                              *)
DenyTask(t) ==
  /\ creating = t /\ t \in Denied
  /\ creating' = NoOp
  /\ IF Moves(t)
       THEN SetStatus(t, "FAILED") /\ Handled(Msg("REQUEST", "-", t), {Msg("REJECT", "-", t)})
       ELSE UNCHANGED <<status, closings>> /\ Handled(Msg("REQUEST", "-", t), {})
  /\ UNCHANGED <<result, answers, op, requesterVars, calls>>

(* The daemon dies in between; recover() leaves interactive tasks alone.   *)
KilledWhileCreating ==
  /\ creating # NoOp /\ creating' = NoOp
  /\ kills < MaxKills /\ kills' = kills + 1
  /\ UNCHANGED <<status, result, closings, answers, op, requesterVars, mail, calls>>

(* A REQUEST for a task the ledger knows: a stored result is sent again. *)
OnKnownRequest(t) ==
  LET again == status[t] \in Terminal /\ t \in result IN
  /\ creating = NoOp /\ status[t] # "none"
  /\ answers' = IF again THEN [answers EXCEPT ![t] = @ + 1] ELSE answers
  /\ Handled(Msg("REQUEST", "-", t), IF again THEN {Msg("RESULT", status[t], t)} ELSE {})
  /\ UNCHANGED <<status, result, closings, creating, op, requesterVars, calls>>

(* Mutant of OnCancel: the requester, who asked for it, is not told.       *)
OnCancelUntold(t) ==
  LET open == status[t] \in Open IN
  /\ creating = NoOp /\ Handled(Msg("CANCEL", "-", t), {})
  /\ IF open THEN SetStatus(t, "CANCELLED") ELSE UNCHANGED <<status, closings>>
  /\ UNCHANGED <<result, answers, creating, op, requesterVars, calls>>

(* _on_cancel: an open task is closed (an interactive one has no runner);  *)
(* for an unknown or closed one nothing happens.                           *)
OnCancel(t) ==
  LET open == status[t] \in Open IN
  /\ creating = NoOp /\ Handled(Msg("CANCEL", "-", t), IF open THEN {Msg("UPDATE", "CANCELLED", t)} ELSE {})
  /\ IF open THEN SetStatus(t, "CANCELLED") ELSE UNCHANGED <<status, closings>>
  /\ UNCHANGED <<result, answers, creating, op, requesterVars, calls>>

-----------------------------------------------------------------------------
(* Owner's sessions *)

Idle(s) == op[s] = NoOp
Owned(t) == status[t] # "none"

(* accept_task and reject_task. *)
AcceptTask(s, t) ==
  /\ Idle(s) /\ Owned(t) /\ Call
  /\ OwnerTransition(t, "RUNNING", Msg("ACK", "RUNNING", t))
  /\ UNCHANGED <<creating, op, requesterVars, kills>>

RejectTask(s, t) ==
  /\ Idle(s) /\ Owned(t) /\ Call
  /\ OwnerTransition(t, "FAILED", Msg("REJECT", "-", t))
  /\ UNCHANGED <<creating, op, requesterVars, kills>>

(* ask_question: no task changes here. *)
AskQuestion(s, t) ==
  /\ Idle(s) /\ Owned(t) /\ Call
  /\ Queue({Msg("QUESTION", "-", t)})
  /\ UNCHANGED <<ownerVars, op, requesterVars, kills>>

(* Mutant of ReadToReport: the state just read is repeated as it is. *)
ReadToRepeat(s, t) ==
  /\ Idle(s) /\ Owned(t) /\ Call
  /\ \E state \in Reports \cup {status[t]} : op' = [op EXCEPT ![s] = <<"report", state, t>>]
  /\ UNCHANGED <<ownerVars, requesterVars, mail, kills>>

(* report_progress reads the task: without a state of its own the report   *)
(* repeats the one just read, or RUNNING.                                  *)
ReadToReport(s, t) ==
  /\ Idle(s) /\ Owned(t) /\ Call
  /\ \E state \in Reports \cup {status[t]} :
       op' = [op EXCEPT ![s] = <<"report", IF state \in Reports THEN state ELSE "RUNNING", t>>]
  /\ UNCHANGED <<ownerVars, requesterVars, mail, kills>>

(* submit_result reads the task: a closed one is an error. *)
ReadToSubmit(s, t) ==
  /\ Idle(s) /\ Owned(t) /\ Call
  /\ Moves(t)
  /\ \E r \in Results : op' = [op EXCEPT ![s] = <<"submit", r, t>>]
  /\ UNCHANGED <<ownerVars, requesterVars, mail, kills>>

WriteReport(s, t, state) ==
  /\ op[s] = <<"report", state, t>>
  /\ OwnerTransition(t, state, IF state = "BLOCKED" THEN Msg("BLOCKED", "-", t) ELSE Msg("UPDATE", state, t))
  /\ op' = [op EXCEPT ![s] = NoOp]
  /\ UNCHANGED <<creating, requesterVars, calls, kills>>

(* submit_result finishes the task, or does not; the answer is the same.  *)
WriteResult(s, t, r) ==
  /\ op[s] = <<"submit", r, t>>
  /\ Finish(t, r)
  /\ op' = [op EXCEPT ![s] = NoOp]
  /\ UNCHANGED <<creating, requesterVars, calls, kills>>

(* The session's process dies inside a call. *)
SessionDies(s) ==
  /\ ~Idle(s)
  /\ op' = [op EXCEPT ![s] = NoOp]
  /\ UNCHANGED <<ownerVars, requesterVars, mail, calls, kills>>

-----------------------------------------------------------------------------
(* Requester *)

(* Hub.request, again for a task id already used: the row stays as it is. *)
Request(t) ==
  /\ Call
  /\ reqStatus' = IF reqStatus[t] = "none" THEN [reqStatus EXCEPT ![t] = "PENDING"] ELSE reqStatus
  /\ Queue({Msg("REQUEST", "-", t)})
  /\ UNCHANGED <<ownerVars, op, cancelling, withdrawn, kills>>

(* cancel_task, one at a time for a task: the CANCEL is queued whatever    *)
(* the task's state, ...                                                   *)
CancelTask(t) ==
  /\ reqStatus[t] # "none" /\ t \notin cancelling /\ Call
  /\ Queue({Msg("CANCEL", "-", t)})
  /\ cancelling' = cancelling \cup {t}
  /\ UNCHANGED <<ownerVars, op, reqStatus, withdrawn, kills>>

(* ... then the requester's row is closed, if it is still open. *)
Withdraw(t) ==
  /\ t \in cancelling
  /\ cancelling' = cancelling \ {t}
  /\ IF reqStatus[t] \in Terminal
       THEN UNCHANGED <<reqStatus, withdrawn>>
       ELSE reqStatus' = [reqStatus EXCEPT ![t] = "CANCELLED"] /\ withdrawn' = withdrawn \cup {t}
  /\ UNCHANGED <<ownerVars, op, mail, calls, kills>>

(* _on_reply: how a message moves the requester's row. *)
RequesterState(m) ==
  LET type == m[1][1]  state == m[1][2] IN
  CASE type = "ACK" -> "ACCEPTED" [] type = "BLOCKED" -> "BLOCKED" [] type = "QUESTION" -> "WAITING"
    [] type = "REJECT" -> "FAILED" [] type \in {"UPDATE", "RESULT"} -> state

(* Mutants of OnReply: the row is moved whatever its state ... *)
OnReplyForced(m) ==
  /\ m[1] \in ToRequester
  /\ Handled(m, {})
  /\ reqStatus' = [reqStatus EXCEPT ![m[2]] = RequesterState(m)]
  /\ UNCHANGED <<ownerVars, op, cancelling, withdrawn, calls>>

(* ... or a BLOCKED task is given up. *)
OnReplyGivesUp(m) ==
  /\ m[1] \in ToRequester
  /\ Handled(m, {})
  /\ reqStatus' = IF reqStatus[m[2]] \in Terminal THEN reqStatus
                  ELSE [reqStatus EXCEPT ![m[2]] = IF m[1][1] = "BLOCKED" THEN "FAILED" ELSE RequesterState(m)]
  /\ UNCHANGED <<ownerVars, op, cancelling, withdrawn, calls>>

OnReply(m) ==
  /\ m[1] \in ToRequester
  /\ Handled(m, {})
  /\ reqStatus' = IF reqStatus[m[2]] \in Terminal THEN reqStatus
                  ELSE [reqStatus EXCEPT ![m[2]] = RequesterState(m)]
  /\ UNCHANGED <<ownerVars, op, cancelling, withdrawn, calls>>

-----------------------------------------------------------------------------
OnRequest(t) == CreateTask(t) \/ AnnounceTask(t) \/ DenyTask(t) \/ OnKnownRequest(t)

Session(s) ==
  \/ \E t \in Tasks : AcceptTask(s, t) \/ RejectTask(s, t) \/ AskQuestion(s, t)
                      \/ ReadToReport(s, t) \/ ReadToSubmit(s, t)
  \/ \E t \in Tasks, state \in Reports : WriteReport(s, t, state)
  \/ \E t \in Tasks, r \in Results : WriteResult(s, t, r)
  \/ SessionDies(s)

Next ==
  \/ \E t \in Tasks : OnRequest(t) \/ OnCancel(t)
  \/ KilledWhileCreating
  \/ \E t \in Tasks : Request(t) \/ CancelTask(t) \/ Withdraw(t)
  \/ \E m \in Messages : OnReply(m)
  \/ \E s \in Sessions : Session(s)

(* Every message queued is handled in the end (Mailbox!EventuallyHandled). *)
(* Sessions and the requester need do nothing.                             *)
Fairness ==
  /\ \A t \in Tasks : WF_vars(OnRequest(t)) /\ WF_vars(OnCancel(t))
  /\ \A m \in Messages : WF_vars(OnReply(m))

Spec == Init /\ [][Next]_vars
FairSpec == Spec /\ Fairness

-----------------------------------------------------------------------------
(* Every variable has its type. *)
TypeOK ==
  /\ status \in [Tasks -> Open \cup Terminal \cup {"none"}]
  /\ reqStatus \in [Tasks -> Open \cup Terminal \cup {"none"}]
  /\ closings \in [Tasks -> Nat] /\ answers \in [Tasks -> Nat]
  /\ result \subseteq Tasks /\ creating \in Tasks \cup {NoOp}
  /\ op \in [Sessions -> Ops]
  /\ cancelling \subseteq Tasks /\ withdrawn \subseteq Tasks
  /\ mail \in [Messages -> Nat] /\ calls \in Nat /\ kills \in Nat

(* The interactive owner keeps the promise the worker keeps: closed once,  *)
(* announced in the step that closes it, never changed again, although     *)
(* _on_cancel and several sessions close tasks they read earlier.          *)
Lifecycle == INSTANCE TaskLifecycle
ImplementsTaskLifecycle == Lifecycle!Spec

(* An announcement that closes the requester's row.                        *)
Closes(m) == m[1] \in ToRequester /\ RequesterState(m) \in Terminal

(* The requester's row closes only as the owner closed the task, unless    *)
(* the requester withdrew it; in whatever order the announcements arrive   *)
(* and however often they are handled.                                     *)
RowIsTrue == \A t \in Tasks \ withdrawn : reqStatus[t] \in Terminal => reqStatus[t] = status[t]

(* ... and while it is open after that, one that closes it is on its way,  *)
(* whoever closed the task and whoever died in between: nothing else would *)
(* ever tell the requester.                                                *)
ClosingIsTold ==
  \A t \in Tasks : status[t] \in Terminal /\ reqStatus[t] \notin Terminal =>
    \E m \in Messages : m[2] = t /\ Closes(m) /\ mail[m] > 0

RequesterAgrees == RowIsTrue /\ ClosingIsTold

(* Once the owner has closed a task the requester's row closes, for good:  *)
(* late announcements do not reopen it (docs/MESSAGE_PROTOCOL.md:121).     *)
RequesterLearns == \A t \in Tasks : status[t] \in Terminal ~> [](reqStatus[t] \in Terminal)
=============================================================================
