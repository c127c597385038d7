----------------------------- MODULE OwnerNode -----------------------------
(***************************************************************************)
(* A worker agent's tasks on the node that owns them: the dispatcher that  *)
(* turns REQUEST and CANCEL rows into tasks, the runners that execute      *)
(* them, the agent's own process calling report_progress, submit_result    *)
(* and reject_task, and the daemon's crash, graceful stop and recovery.    *)
(*                                                                         *)
(* Grain: the daemon is one asyncio thread, and what it does between two   *)
(* awaits that really suspend is one step where nobody can tell: agent     *)
(* processes share the ledger and may write to it at any time, and a kill  *)
(* may come at any time. Where that shows, every access to the ledger is a *)
(* step of its own, and the thread is held until the next await (start of  *)
(* _execute), or the kill is an action (KilledBeforeReject). Elsewhere a   *)
(* write in between is as if before the step, because closed tasks refuse. *)
(*                                                                         *)
(* Abstracted: which of the committed rows the dispatcher takes next (they *)
(* are handled in commit order, see Mailbox, and may be committed in any   *)
(* order); the FIFO order of the run queue; result bodies (a result is its *)
(* task state); publishing, since every announcement is queued in the same *)
(* transaction as the change it announces; awaits after a task is closed.  *)
(***************************************************************************)
EXTENDS Naturals, FiniteSets

CONSTANTS
  Tasks,         \* task ids requested of this agent
  Denied,        \* those _check_policy refuses
  Code,          \* those of kind "code": they run in a git worktree
  Slots,         \* runner loops (max_concurrent)
  NoTask, NoMsg, \* "no task", "no message"
  MaxAttempts,   \* AgentConfig.max_attempts
  Cancelled,     \* bound: tasks whose requester sends a CANCEL
  Copies,        \* bound: how often a REQUEST is sent for one task
  Reports,       \* bound: the states the agent reports
  MaxRestarts,   \* bound: crashes and stops of the daemon
  Orphans,       \* do agent processes survive a kill of the daemon?
  DeliveryRaises \* may delivering a result raise?

ASSUME TasksAssumption ==
  /\ IsFiniteSet(Tasks) /\ Denied \subseteq Tasks /\ Code \subseteq Tasks
  /\ NoTask \notin Tasks /\ Cancelled \subseteq Tasks
ASSUME BoundsAssumption ==
  /\ MaxAttempts \in Nat \ {0} /\ Copies \in Nat /\ MaxRestarts \in Nat
  /\ Reports \subseteq {"RUNNING", "WAITING", "BLOCKED"}
  /\ Orphans \in BOOLEAN /\ DeliveryRaises \in BOOLEAN

Terminal == {"COMPLETED", "FAILED", "CANCELLED"}
Open     == {"PENDING", "ACCEPTED", "RUNNING", "WAITING", "BLOCKED"}

(* Inbound rows: type, task, and which copy of it (resends have fresh ids). *)
Messages == ({"REQUEST"} \X Tasks \X (1 .. Copies)) \cup ({"CANCEL"} \X Cancelled \X {1})
TypeOf(m) == m[1]
TaskOf(m) == m[2]
ASSUME MessagesAssumption == NoMsg \notin Messages

VARIABLES
  \* ledger
  inbox,       \* inbound row -> "absent", "new" or "handled"
  status,      \* task -> owner-side state ("none": no row)
  attempts,    \* task -> executions started
  draft,       \* tasks with a stored result_draft
  result,      \* tasks with a stored result
  closings,    \* task -> closing announcements put in the outbox
  answers,     \* task -> RESULT messages put in the outbox
  \* daemon memory
  handling,    \* the row the dispatcher is handling
  step,        \* where in it: "next", "accept", "enqueue", "mark"
  queue,       \* _queues: accepted tasks waiting for a runner
  queued,      \* _queued: tasks waiting or running
  at,          \* runner -> where it is
  on,          \* runner -> its task (the inverse of _running)
  signalled,   \* runners whose _execute was cancelled and has not resumed
  cancelReq,   \* _cancel_requested
  recovery,    \* recover(): "boot", "resume", "done"
  snapshot,    \* recover(): <<task, status read>> still to be resumed
  resuming,    \* recover(): task moved and not yet enqueued
  \* the machine
  orphans,     \* tasks whose agent process outlived its daemon
  restarts,
  \* history
  launched,    \* task -> agent processes started for it
  outlived,    \* tasks that had an orphan when this life of the daemon began
  dropped      \* tasks with which a runner loop ended in this life

ledgerVars   == <<inbox, status, attempts, draft, result, closings, answers>>
dispatchVars == <<handling, step>>
runnerVars   == <<queue, queued, at, on, signalled>>
recoverVars  == <<recovery, snapshot, resuming>>
machineVars  == <<orphans, restarts, launched, outlived, dropped>>
vars == <<ledgerVars, dispatchVars, runnerVars, cancelReq, recoverVars, machineVars>>

-----------------------------------------------------------------------------
(* Mutant of Transition: terminal states are not sticky (force=True). *)
TransitionForced(T, s) ==
  /\ status' = [t \in Tasks |-> IF t \in T THEN s ELSE status[t]]
  /\ closings' = [t \in Tasks |-> IF t \in T /\ s \in Terminal THEN closings[t] + 1 ELSE closings[t]]

(* ledger.update_task with an announcement, for every task of T at once    *)
(* (T has one task but in a graceful stop): a closed task refuses.         *)
Transition(T, s) ==
  LET M == {t \in T : status[t] \notin Terminal} IN
  /\ status' = [t \in Tasks |-> IF t \in M THEN s ELSE status[t]]
  /\ closings' = [t \in Tasks |-> IF t \in M /\ s \in Terminal THEN closings[t] + 1 ELSE closings[t]]

(* Hub.owner_transition: the state and its announcement, nothing else. *)
OwnerTransition(t, s) == Transition({t}, s) /\ UNCHANGED <<attempts, draft, result, answers>>

(* Hub.finish: the state, the result and its RESULT message. *)
Finish(t, s) ==
  /\ Transition({t}, s)
  /\ IF status[t] \in Terminal
       THEN UNCHANGED <<result, answers>>
       ELSE result' = result \cup {t} /\ answers' = [answers EXCEPT ![t] = @ + 1]
  /\ UNCHANGED <<attempts, draft>>

Results == {"COMPLETED", "FAILED"}

(* Mutant of Enqueue: no look at _queued. *)
EnqueueAgain(t) ==
  /\ queue' = queue \cup {t}
  /\ queued' = queued \cup {t}
  /\ UNCHANGED <<at, on, signalled>>

(* NodeDaemon._enqueue. *)
Enqueue(t) ==
  /\ queue' = IF t \in queued THEN queue ELSE queue \cup {t}
  /\ queued' = queued \cup {t}
  /\ UNCHANGED <<at, on, signalled>>

(* _runner's finally clause: the runner takes the next task. *)
Release(s) ==
  /\ at' = [at EXCEPT ![s] = "idle"] /\ on' = [on EXCEPT ![s] = NoTask]
  /\ queued' = queued \ {on[s]}
  /\ signalled' = signalled \ {s}
  /\ UNCHANGED queue

(* No runner is between two awaits: the thread can go to somebody else. *)
ThreadFree == \A s \in Slots : at[s] \notin {"admitted", "spent", "counted", "cleared"}

MoveTo(s, place) == at' = [at EXCEPT ![s] = place] /\ UNCHANGED <<queue, queued, on, signalled>>

Init ==
  /\ inbox = [m \in Messages |-> "absent"]
  /\ status = [t \in Tasks |-> "none"] /\ attempts = [t \in Tasks |-> 0]
  /\ draft = {} /\ result = {}
  /\ closings = [t \in Tasks |-> 0] /\ answers = [t \in Tasks |-> 0]
  /\ handling = NoMsg /\ step = "next"
  /\ queue = {} /\ queued = {}
  /\ at = [s \in Slots |-> "idle"] /\ on = [s \in Slots |-> NoTask]
  /\ signalled = {} /\ cancelReq = {}
  /\ recovery = "boot" /\ snapshot = {} /\ resuming = NoTask
  /\ orphans = {} /\ restarts = 0
  /\ launched = [t \in Tasks |-> 0] /\ outlived = {} /\ dropped = {}

-----------------------------------------------------------------------------
(* Dispatcher *)

(* The receiver commits a message (module Mailbox). *)
Arrive(m) ==
  /\ inbox[m] = "absent"
  /\ m[3] > 1 => inbox[<<m[1], m[2], m[3] - 1>>] # "absent"
  /\ inbox' = [inbox EXCEPT ![m] = "new"]
  /\ UNCHANGED <<status, attempts, draft, result, closings, answers, dispatchVars, runnerVars,
                 cancelReq, recoverVars, machineVars>>

Take(m) == step = "next" /\ inbox[m] = "new" /\ handling' = m

(* _on_request for a task the ledger knows: never executed again; a stored *)
(* result is sent again.                                                   *)
OnKnownRequest(m) ==
  LET t == TaskOf(m) IN
  /\ Take(m) /\ TypeOf(m) = "REQUEST" /\ status[t] # "none"
  /\ answers' = IF status[t] \in Terminal /\ t \in result
                  THEN [answers EXCEPT ![t] = @ + 1] ELSE answers
  /\ step' = "mark"
  /\ UNCHANGED <<inbox, status, attempts, draft, result, closings, runnerVars, cancelReq, recoverVars, machineVars>>

(* _on_request for a new task the policy refuses: create_owned_task, then  *)
(* FAILED and REJECT in one transaction.                                   *)
OnDeniedRequest(m) ==
  LET t == TaskOf(m) IN
  /\ Take(m) /\ TypeOf(m) = "REQUEST" /\ status[t] = "none" /\ t \in Denied
  /\ OwnerTransition(t, "FAILED")
  /\ step' = "mark"
  /\ UNCHANGED <<inbox, runnerVars, cancelReq, recoverVars, machineVars>>

(* Mutant of OnNewRequest: the policy is not asked. *)
OnNewRequestUnchecked(m) ==
  LET t == TaskOf(m) IN
  /\ Take(m) /\ TypeOf(m) = "REQUEST" /\ status[t] = "none"
  /\ status' = [status EXCEPT ![t] = "PENDING"]
  /\ step' = "accept"
  /\ UNCHANGED <<inbox, attempts, draft, result, closings, answers, runnerVars, cancelReq, recoverVars, machineVars>>

(* _on_request for a new task that is allowed: create_owned_task, then the *)
(* await of publish_task_record.                                           *)
OnNewRequest(m) ==
  LET t == TaskOf(m) IN
  /\ Take(m) /\ TypeOf(m) = "REQUEST" /\ status[t] = "none" /\ t \notin Denied
  /\ status' = [status EXCEPT ![t] = "PENDING"]
  /\ step' = "accept"
  /\ UNCHANGED <<inbox, attempts, draft, result, closings, answers, runnerVars, cancelReq, recoverVars, machineVars>>

(* ... _accept: ACCEPTED and its ACK ... *)
Accept ==
  /\ step = "accept"
  /\ OwnerTransition(TaskOf(handling), "ACCEPTED")
  /\ step' = "enqueue"
  /\ UNCHANGED <<inbox, handling, runnerVars, cancelReq, recoverVars, machineVars>>

(* ... _enqueue. *)
EnqueueNew ==
  /\ step = "enqueue"
  /\ Enqueue(TaskOf(handling))
  /\ step' = "mark"
  /\ UNCHANGED <<ledgerVars, handling, cancelReq, recoverVars, machineVars>>

(* _on_cancel for a task that is unknown or closed. *)
OnLateCancel(m) ==
  /\ Take(m) /\ TypeOf(m) = "CANCEL" /\ status[TaskOf(m)] \notin Open
  /\ step' = "mark"
  /\ UNCHANGED <<ledgerVars, runnerVars, cancelReq, recoverVars, machineVars>>

(* _on_cancel for a task nobody has accepted yet. *)
OnPendingCancel(m) ==
  /\ Take(m) /\ TypeOf(m) = "CANCEL" /\ status[TaskOf(m)] = "PENDING"
  /\ OwnerTransition(TaskOf(m), "CANCELLED")
  /\ step' = "mark"
  /\ UNCHANGED <<inbox, runnerVars, cancelReq, recoverVars, machineVars>>

(* Mutant of OnCancel: the task is closed at once, its runner told too.    *)
OnCancelAtOnce(m) ==
  LET t == TaskOf(m) IN
  /\ Take(m) /\ TypeOf(m) = "CANCEL" /\ status[t] \in Open \ {"PENDING"}
  /\ cancelReq' = cancelReq \cup {t}
  /\ OwnerTransition(t, "CANCELLED") /\ UNCHANGED <<inbox, signalled>>
  /\ step' = "mark"
  /\ UNCHANGED <<queue, queued, at, on, recoverVars, machineVars>>

(* _on_cancel for an accepted task: its runner is cancelled, or, if it has *)
(* none, the task is closed here.                                          *)
OnCancel(m) ==
  LET t == TaskOf(m)
      runners == {s \in Slots : on[s] = t} IN
  /\ Take(m) /\ TypeOf(m) = "CANCEL" /\ status[t] \in Open \ {"PENDING"}
  /\ cancelReq' = cancelReq \cup {t}
  /\ IF runners # {}
       THEN signalled' = signalled \cup runners /\ UNCHANGED ledgerVars
       ELSE OwnerTransition(t, "CANCELLED") /\ UNCHANGED <<inbox, signalled>>
  /\ step' = "mark"
  /\ UNCHANGED <<queue, queued, at, on, recoverVars, machineVars>>

(* mark_handled. *)
Mark ==
  /\ step = "mark"
  /\ inbox' = [inbox EXCEPT ![handling] = "handled"]
  /\ handling' = NoMsg /\ step' = "next"
  /\ UNCHANGED <<status, attempts, draft, result, closings, answers, runnerVars, cancelReq, recoverVars, machineVars>>

-----------------------------------------------------------------------------
(* Runners *)

(* _runner takes a task off the queue and creates the task of _execute. *)
Pick(s, t) ==
  /\ at[s] = "idle" /\ t \in queue
  /\ queue' = queue \ {t}
  /\ at' = [at EXCEPT ![s] = "picked"] /\ on' = [on EXCEPT ![s] = t]
  /\ UNCHANGED <<queued, signalled, ledgerVars, dispatchVars, cancelReq, recoverVars, machineVars>>

Undisturbed(s, place) == at[s] = place /\ s \notin signalled

(* _execute finds the task closed. *)
StartClosed(s) ==
  /\ Undisturbed(s, "picked") /\ status[on[s]] \in Terminal
  /\ Release(s)
  /\ UNCHANGED <<ledgerVars, dispatchVars, cancelReq, recoverVars, machineVars>>

(* Mutant of Admit: no look at the task's state. *)
AdmitAny(s) ==
  /\ Undisturbed(s, "picked")
  /\ MoveTo(s, "admitted")
  /\ UNCHANGED <<ledgerVars, dispatchVars, cancelReq, recoverVars, machineVars>>

(* _execute finds it open, and holds the thread until its next await. *)
Admit(s) ==
  /\ Undisturbed(s, "picked") /\ status[on[s]] \notin Terminal
  /\ MoveTo(s, "admitted")
  /\ UNCHANGED <<ledgerVars, dispatchVars, cancelReq, recoverVars, machineVars>>

(* Mutant of Count: an off-by-one in the attempts check. *)
CountOnceMore(s) ==
  /\ at[s] = "admitted"
  /\ attempts' = [attempts EXCEPT ![on[s]] = @ + 1]
  /\ MoveTo(s, IF attempts[on[s]] > MaxAttempts THEN "spent" ELSE "counted")
  /\ UNCHANGED <<inbox, status, draft, result, closings, answers, dispatchVars, cancelReq, recoverVars, machineVars>>

(* It counts the attempt: one too many, or ... *)
Count(s) ==
  /\ at[s] = "admitted"
  /\ attempts' = [attempts EXCEPT ![on[s]] = @ + 1]
  /\ MoveTo(s, IF attempts[on[s]] >= MaxAttempts THEN "spent" ELSE "counted")
  /\ UNCHANGED <<inbox, status, draft, result, closings, answers, dispatchVars, cancelReq, recoverVars, machineVars>>

(* (the task is given up) *)
GiveUp(s) ==
  /\ at[s] = "spent"
  /\ Finish(on[s], "FAILED")
  /\ Release(s)
  /\ UNCHANGED <<inbox, dispatchVars, cancelReq, recoverVars, machineVars>>

(* ... a new one, for which the last attempt's draft is dropped. A code    *)
(* task then awaits its worktree, ...                                      *)
ClearDraft(s) ==
  /\ at[s] = "counted"
  /\ draft' = draft \ {on[s]}
  /\ MoveTo(s, IF on[s] \in Code THEN "worktree" ELSE "cleared")
  /\ UNCHANGED <<inbox, status, attempts, result, closings, answers, dispatchVars, cancelReq, recoverVars, machineVars>>

(* ... any other is announced RUNNING at once; whether that was refused    *)
(* does not matter.                                                        *)
Announce(s) ==
  /\ at[s] = "cleared"
  /\ OwnerTransition(on[s], "RUNNING")
  /\ MoveTo(s, "announcing")
  /\ UNCHANGED <<inbox, dispatchVars, cancelReq, recoverVars, machineVars>>

(* The worktree is there: RUNNING is committed, its announcement awaited. *)
WorktreeReady(s) ==
  /\ Undisturbed(s, "worktree")
  /\ OwnerTransition(on[s], "RUNNING")
  /\ MoveTo(s, "announcing")
  /\ UNCHANGED <<inbox, dispatchVars, cancelReq, recoverVars, machineVars>>

(* GitError: the task fails. *)
WorktreeFails(s) ==
  /\ Undisturbed(s, "worktree")
  /\ Finish(on[s], "FAILED")
  /\ Release(s)
  /\ UNCHANGED <<inbox, dispatchVars, cancelReq, recoverVars, machineVars>>

(* The agent's process is started. *)
Launch(s) ==
  /\ Undisturbed(s, "announcing")
  /\ MoveTo(s, "running")
  /\ launched' = [launched EXCEPT ![on[s]] = @ + 1]
  /\ UNCHANGED <<ledgerVars, dispatchVars, cancelReq, recoverVars, orphans, restarts, outlived, dropped>>

(* The agent closed its task, or left it BLOCKED without a draft. *)
NothingToDeliver(t) == status[t] \in Terminal \/ (status[t] = "BLOCKED" /\ t \notin draft)

(* The process ends. A task its agent closed, or left BLOCKED with nothing *)
(* to deliver, is let be; a code task's commits are collected; any other   *)
(* is finished. If a cancel arrives when the run is already over, wait_for *)
(* of Python 3.10 and 3.11 returns the outcome and the cancel is lost.     *)
AgentExits(s) ==
  LET t == on[s] IN
  /\ at[s] = "running"
  /\ IF NothingToDeliver(t)
       THEN Release(s) /\ UNCHANGED ledgerVars
       ELSE IF t \in Code
       THEN /\ at' = [at EXCEPT ![s] = "attaching"]
            /\ signalled' = signalled \ {s}
            /\ UNCHANGED <<queue, queued, on, ledgerVars>>
       ELSE /\ \E r \in Results : Finish(t, r)
            /\ Release(s)
            /\ UNCHANGED inbox
  /\ UNCHANGED <<dispatchVars, cancelReq, recoverVars, machineVars>>

(* The deadline passes, or the runtime raises: process killed, FAILED. *)
RunFails(s) ==
  /\ Undisturbed(s, "running")
  /\ Finish(on[s], "FAILED")
  /\ Release(s)
  /\ UNCHANGED <<inbox, dispatchVars, cancelReq, recoverVars, machineVars>>

(* _attach_git is done (or met a GitError): the result is delivered. *)
Deliver(s) ==
  /\ Undisturbed(s, "attaching")
  /\ \E r \in Results : Finish(on[s], r)
  /\ Release(s)
  /\ UNCHANGED <<inbox, dispatchVars, cancelReq, recoverVars, machineVars>>

(* An exception that _execute does not catch ends it, and ends _runner     *)
(* with it: the loop is gone, and _on_loop_done logs it.                   *)
LoopEnds(s) ==
  /\ DeliveryRaises
  /\ at' = [at EXCEPT ![s] = "ended"] /\ on' = [on EXCEPT ![s] = NoTask]
  /\ queued' = queued \ {on[s]}
  /\ signalled' = signalled \ {s}
  /\ dropped' = dropped \cup {on[s]}
  /\ UNCHANGED <<queue, ledgerVars, dispatchVars, cancelReq, recoverVars, orphans, restarts, launched, outlived>>

(* _result_from cannot read what the agent printed (artifacts that are no  *)
(* references, limitations that are no list).                              *)
ResultUnreadable(s) ==
  /\ at[s] = "running" /\ ~NothingToDeliver(on[s])
  /\ LoopEnds(s)

(* _attach_git cannot upload the patch. *)
UploadFails(s) == Undisturbed(s, "attaching") /\ LoopEnds(s)

(* The cancelled _execute resumes. In the run it reports CANCELLED; at any *)
(* other await the CancelledError just ends it, and _runner, whose runner  *)
(* is done, goes on to the next task.                                      *)
CancelLands(s) ==
  LET t == on[s] IN
  /\ s \in signalled
  /\ IF at[s] = "running" /\ t \in cancelReq
       THEN cancelReq' = cancelReq \ {t} /\ OwnerTransition(t, "CANCELLED") /\ UNCHANGED inbox
       ELSE UNCHANGED <<cancelReq, ledgerVars>>
  /\ Release(s)
  /\ UNCHANGED <<dispatchVars, recoverVars, machineVars>>

-----------------------------------------------------------------------------
(* The agent's process, through its tools *)

HasProcess(t) == t \in orphans \/ \E s \in Slots : at[s] = "running" /\ on[s] = t

(* Mutant of Report: the agent's word for its state is taken as it is. *)
ReportUnchecked(t, s) ==
  /\ HasProcess(t)
  /\ OwnerTransition(t, "NEARLY DONE")
  /\ UNCHANGED <<inbox, dispatchVars, runnerVars, cancelReq, recoverVars, machineVars>>

(* report_progress. *)
Report(t, s) ==
  /\ HasProcess(t)
  /\ OwnerTransition(t, s)
  /\ UNCHANGED <<inbox, dispatchVars, runnerVars, cancelReq, recoverVars, machineVars>>

(* submit_result inside a run: a draft, delivered when the process exits. *)
Submit(t) ==
  /\ HasProcess(t) /\ status[t] \notin Terminal
  /\ draft' = draft \cup {t}
  /\ UNCHANGED <<inbox, status, attempts, result, closings, answers, dispatchVars, runnerVars, cancelReq,
                 recoverVars, machineVars>>

(* reject_task. *)
Refuse(t) ==
  /\ HasProcess(t)
  /\ OwnerTransition(t, "FAILED")
  /\ UNCHANGED <<inbox, dispatchVars, runnerVars, cancelReq, recoverVars, machineVars>>

OrphanExits(t) ==
  /\ t \in orphans
  /\ orphans' = orphans \ {t}
  /\ UNCHANGED <<ledgerVars, dispatchVars, runnerVars, cancelReq, recoverVars, restarts, launched, outlived, dropped>>

-----------------------------------------------------------------------------
(* Restart and recovery *)

(* The daemon's memory is gone; it is started again, beside the orphans    *)
(* that are still there.                                                   *)
Restart ==
  /\ restarts < MaxRestarts /\ restarts' = restarts + 1
  /\ handling' = NoMsg /\ step' = "next"
  /\ queue' = {} /\ queued' = {}
  /\ at' = [s \in Slots |-> "idle"] /\ on' = [s \in Slots |-> NoTask]
  /\ signalled' = {} /\ cancelReq' = {}
  /\ recovery' = "boot" /\ snapshot' = {} /\ resuming' = NoTask
  /\ outlived' = orphans' /\ dropped' = {} /\ UNCHANGED launched

(* The daemon is killed. Processes run in sessions of their own. *)
Crash ==
  /\ orphans' \in {orphans, IF Orphans THEN orphans \cup {t \in Tasks : HasProcess(t)} ELSE orphans}
  /\ Restart
  /\ UNCHANGED ledgerVars

(* The daemon is killed inside _on_request, after create_owned_task and    *)
(* before the transaction that rejects the task.                           *)
KilledBeforeReject(m) ==
  LET t == TaskOf(m) IN
  /\ ThreadFree /\ step = "next" /\ inbox[m] = "new"
  /\ TypeOf(m) = "REQUEST" /\ status[t] = "none" /\ t \in Denied
  /\ status' = [status EXCEPT ![t] = "PENDING"]
  /\ UNCHANGED <<inbox, attempts, draft, result, closings, answers, orphans>>
  /\ Restart

(* stop(): every loop is cancelled, running processes are killed. A run    *)
(* whose cancel was requested and has not landed closes as CANCELLED.      *)
GracefulStop ==
  /\ ThreadFree
  /\ Transition({t \in cancelReq : \E s \in Slots : at[s] = "running" /\ on[s] = t}, "CANCELLED")
  /\ UNCHANGED <<inbox, attempts, draft, result, answers, orphans>>
  /\ Restart

Resumable == {"PENDING", "ACCEPTED", "RUNNING"}

(* Mutant of RecoverRead: tasks not yet accepted are forgotten. *)
RecoverReadAccepted ==
  /\ recovery = "boot"
  /\ snapshot' = {<<t, status[t]>> : t \in {u \in Tasks : status[u] \in {"ACCEPTED", "RUNNING"}}}
  /\ recovery' = "resume"
  /\ UNCHANGED <<ledgerVars, dispatchVars, runnerVars, cancelReq, resuming, machineVars>>

(* recover() reads the owned tasks to resume, while the loops already run. *)
RecoverRead ==
  /\ recovery = "boot"
  /\ snapshot' = {<<t, status[t]>> : t \in {u \in Tasks : status[u] \in Resumable}}
  /\ recovery' = "resume"
  /\ UNCHANGED <<ledgerVars, dispatchVars, runnerVars, cancelReq, resuming, machineVars>>

(* An ACCEPTED task is enqueued; a PENDING or RUNNING one becomes ACCEPTED *)
(* first, and its announcement is awaited.                                 *)
RecoverTask(t, s) ==
  /\ recovery = "resume" /\ resuming = NoTask /\ <<t, s>> \in snapshot
  /\ snapshot' = snapshot \ {<<t, s>>}
  /\ IF s = "ACCEPTED"
       THEN Enqueue(t) /\ UNCHANGED <<resuming, ledgerVars>>
       ELSE OwnerTransition(t, "ACCEPTED") /\ resuming' = t /\ UNCHANGED <<inbox, runnerVars>>
  /\ UNCHANGED <<dispatchVars, cancelReq, recovery, machineVars>>

(* Mutant of RecoverEnqueue: the task is announced and not enqueued. *)
RecoverForgets ==
  /\ resuming # NoTask
  /\ resuming' = NoTask
  /\ UNCHANGED <<ledgerVars, dispatchVars, runnerVars, cancelReq, recovery, snapshot, machineVars>>

RecoverEnqueue ==
  /\ resuming # NoTask
  /\ Enqueue(resuming)
  /\ resuming' = NoTask
  /\ UNCHANGED <<ledgerVars, dispatchVars, cancelReq, recovery, snapshot, machineVars>>

RecoverDone ==
  /\ recovery = "resume" /\ snapshot = {} /\ resuming = NoTask
  /\ recovery' = "done"
  /\ UNCHANGED <<ledgerVars, dispatchVars, runnerVars, cancelReq, snapshot, resuming, machineVars>>

-----------------------------------------------------------------------------
Dispatcher ==
  /\ ThreadFree
  /\ \/ \E m \in Messages : OnKnownRequest(m) \/ OnDeniedRequest(m) \/ OnNewRequest(m)
                            \/ OnLateCancel(m) \/ OnPendingCancel(m) \/ OnCancel(m)
     \/ Accept \/ EnqueueNew \/ Mark

Runner(s) ==
  \/ /\ ThreadFree
     /\ \/ \E t \in Tasks : Pick(s, t)
        \/ StartClosed(s) \/ Admit(s) \/ WorktreeReady(s) \/ WorktreeFails(s) \/ Launch(s)
        \/ AgentExits(s) \/ RunFails(s) \/ Deliver(s) \/ ResultUnreadable(s) \/ UploadFails(s)
        \/ CancelLands(s)
  \/ Count(s) \/ GiveUp(s) \/ ClearDraft(s) \/ Announce(s)

Agent(t) == (\E s \in Reports : Report(t, s)) \/ Submit(t) \/ Refuse(t) \/ OrphanExits(t)

Recovery ==
  /\ ThreadFree
  /\ RecoverRead \/ RecoverEnqueue \/ RecoverDone \/ \E t \in Tasks, s \in Resumable : RecoverTask(t, s)

Environment ==
  \/ \E m \in Messages : Arrive(m) \/ KilledBeforeReject(m)
  \/ Crash \/ GracefulStop

Next ==
  \/ Dispatcher \/ Recovery \/ Environment
  \/ \E s \in Slots : Runner(s)
  \/ \E t \in Tasks : Agent(t)

(* The daemon's loops and recover() keep taking steps, and a run ends: the *)
(* process exits or meets its deadline. Agents need do nothing.            *)
Fairness == WF_vars(Dispatcher) /\ WF_vars(Recovery) /\ \A s \in Slots : WF_vars(Runner(s))

Spec == Init /\ [][Next]_vars
FairSpec == Spec /\ Fairness

-----------------------------------------------------------------------------
Places == {"idle", "picked", "admitted", "spent", "counted", "cleared", "worktree", "announcing", "running",
           "attaching", "ended"}

(* Every variable has its type. *)
TypeOK ==
  /\ inbox \in [Messages -> {"absent", "new", "handled"}]
  /\ status \in [Tasks -> Open \cup Terminal \cup {"none"}]
  /\ attempts \in [Tasks -> Nat] /\ closings \in [Tasks -> Nat] /\ answers \in [Tasks -> Nat]
  /\ draft \subseteq Tasks /\ result \subseteq Tasks
  /\ handling \in Messages \cup {NoMsg} /\ step \in {"next", "accept", "enqueue", "mark"}
  /\ (step = "next") <=> (handling = NoMsg)
  /\ queue \subseteq Tasks /\ queued \subseteq Tasks /\ cancelReq \subseteq Tasks
  /\ at \in [Slots -> Places] /\ on \in [Slots -> Tasks \cup {NoTask}]
  /\ \A s \in Slots : on[s] = NoTask <=> at[s] \in {"idle", "ended"}
  /\ signalled \subseteq {s \in Slots : on[s] # NoTask}
  /\ recovery \in {"boot", "resume", "done"} /\ snapshot \subseteq Tasks \X Resumable
  /\ resuming \in Tasks \cup {NoTask}
  /\ orphans \subseteq Tasks /\ outlived \subseteq Tasks /\ dropped \subseteq Tasks
  /\ restarts \in Nat /\ launched \in [Tasks -> Nat]

(* No task is executed by two runners at once, although the dispatcher,    *)
(* recover() and resent REQUESTs enqueue tasks independently: _queued      *)
(* holds exactly the tasks that wait or run, each in one place.            *)
OneRunnerPerTask ==
  /\ \A s, r \in Slots : on[s] = on[r] /\ on[s] # NoTask => s = r
  /\ \A s \in Slots : on[s] \notin queue
  /\ queued = queue \cup {on[s] : s \in {r \in Slots : on[r] # NoTask}}

(* An agent is started for a task at most max_attempts times over all      *)
(* lives of the daemon, whatever is cancelled, resent, crashes or is       *)
(* recovered; and the attempts on record (the row's, and the prompt's) go  *)
(* beyond that once, and once more for each life that ended between        *)
(* counting the attempt and giving the task up.                            *)
AttemptsBounded ==
  \A t \in Tasks : launched[t] <= MaxAttempts /\ attempts[t] <= MaxAttempts + 1 + restarts

(* No agent is started on a closed task, although its queue entry, what    *)
(* recover() read and a resent REQUEST outlive it, and minutes pass        *)
(* between _execute's look at the task and the launch: a CANCEL in between *)
(* closes nothing, it stops the runner. Only a process left over from an   *)
(* earlier life can close the task behind the runner's back.               *)
LaunchesOpen ==
  \A s \in Slots :
    at[s] = "announcing" /\ at'[s] = "running" => status[on[s]] \notin Terminal \/ on[s] \in outlived
NoReexecution == [][LaunchesOpen]_vars

(* The owner keeps its promise to the requester: one closing announcement  *)
(* in the step that closes the task, closed tasks immutable, RESULTs for   *)
(* finished tasks only.                                                    *)
Lifecycle == INSTANCE TaskLifecycle
ImplementsTaskLifecycle == Lifecycle!Spec

(* Somebody still has task t in hand. *)
InHand(t) ==
  \/ t \in queued
  \/ recovery = "boot" \/ resuming = t \/ \E s \in Resumable : <<t, s>> \in snapshot
  \/ step \in {"accept", "enqueue"} /\ TaskOf(handling) = t

(* A task that is PENDING, ACCEPTED or RUNNING is queued, running, or in   *)
(* the hands of recover() or the dispatcher. The exceptions, until the     *)
(* next life: its cancel was requested (see CancelIsHonoured), delivering  *)
(* its result ended a runner loop, or a process left over from an earlier  *)
(* life may have reopened it after recover() passed it over.               *)
OpenTaskIsInHand ==
  \A t \in Tasks : status[t] \in Resumable => InHand(t) \/ t \in cancelReq \cup dropped \cup outlived

(* node.py:13: "On start, recover() re-queues every owned task that was    *)
(* not finished." So an accepted task is finished, through any finite      *)
(* number of crashes, unless its cancellation is requested or its agent    *)
(* left it BLOCKED, or WAITING when the daemon died: recover() resumes     *)
(* neither. Delivering must not raise (it would end the runner loop).      *)
AcceptedGetsDone ==
  \A t \in Tasks :
    status[t] \in {"ACCEPTED", "RUNNING", "WAITING"} ~>
      \/ status[t] \in Terminal \cup {"BLOCKED"} \/ t \in cancelReq
      \/ status[t] = "WAITING" /\ t \notin queued

(* docs/ARCHITECTURE_V1.md:74: a CANCEL kills the running process group,   *)
(* then the task is CANCELLED. (It may also have closed otherwise first.)  *)
CancelIsHonoured ==
  \A t \in Tasks : t \in cancelReq ~> status[t] \in Terminal

(* docs/ARCHITECTURE_V1.md:70: a REQUEST the policy refuses is rejected.   *)
(* It never becomes a task to be worked on, unless a life of the daemon    *)
(* ended inside _on_request (see KilledBeforeReject): nothing enqueues it, *)
(* and while its REQUEST is handled nothing of it shows.                   *)
DeniedRunsOnlyAfterDeath ==
  \A t \in Denied :
    status[t] \in Open \/ t \in queued =>
      restarts > 0 /\ ~(step \in {"accept", "enqueue"} /\ TaskOf(handling) = t)
=============================================================================
