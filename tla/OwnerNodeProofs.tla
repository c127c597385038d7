-------------------------- MODULE OwnerNodeProofs --------------------------
(* Proofs about OwnerNode for every set of tasks, runners and bounds.      *)
EXTENDS OwnerNode, TLAPS

-----------------------------------------------------------------------------
(* What the helpers do to the ledger and to the runners *)

States == Open \cup Terminal \cup {"none"}

LEMMA MessageTask == \A m \in Messages : TaskOf(m) \in Tasks
BY TasksAssumption DEF Messages, TaskOf

(* A transition keeps types, closes what it closes once, and leaves closed *)
(* tasks and other tasks alone.                                            *)
LEMMA TransitionEffect ==
  ASSUME status \in [Tasks -> States], closings \in [Tasks -> Nat],
         NEW T, NEW s \in Open \cup Terminal, Transition(T, s)
  PROVE  /\ status' \in [Tasks -> States] /\ closings' \in [Tasks -> Nat]
         /\ \A t \in Tasks :
              IF t \in T /\ status[t] \notin Terminal
                THEN /\ status'[t] = s
                     /\ closings'[t] = closings[t] + (IF s \in Terminal THEN 1 ELSE 0)
                ELSE status'[t] = status[t] /\ closings'[t] = closings[t]
<1>1. \A t \in Tasks :
        IF t \in T /\ status[t] \notin Terminal
          THEN /\ status'[t] = s
               /\ closings'[t] = closings[t] + (IF s \in Terminal THEN 1 ELSE 0)
          ELSE status'[t] = status[t] /\ closings'[t] = closings[t]
  BY DEF Transition
<1>2. status' \in [Tasks -> States]
  BY DEF Transition, States
<1>3. closings' \in [Tasks -> Nat]
  BY DEF Transition
<1> QED
  BY <1>1, <1>2, <1>3

(* The ledger's part of TypeOK, and the daemon memory's.                   *)
LedgerType ==
  /\ inbox \in [Messages -> {"absent", "new", "handled"}]
  /\ status \in [Tasks -> States]
  /\ attempts \in [Tasks -> Nat] /\ closings \in [Tasks -> Nat] /\ answers \in [Tasks -> Nat]
  /\ draft \subseteq Tasks /\ result \subseteq Tasks

DispatchType ==
  /\ handling \in Messages \cup {NoMsg} /\ step \in {"next", "accept", "enqueue", "mark"}
  /\ (step = "next") <=> (handling = NoMsg)
  /\ cancelReq \subseteq Tasks

RunnerType ==
  /\ queue \subseteq Tasks /\ queued \subseteq Tasks
  /\ at \in [Slots -> Places] /\ on \in [Slots -> Tasks \cup {NoTask}]
  /\ \A s \in Slots : on[s] = NoTask <=> at[s] \in {"idle", "ended"}
  /\ signalled \subseteq {s \in Slots : on[s] # NoTask}

RecoverType ==
  /\ recovery \in {"boot", "resume", "done"} /\ snapshot \subseteq Tasks \X Resumable
  /\ resuming \in Tasks \cup {NoTask}

DaemonType == LedgerType /\ DispatchType /\ RunnerType /\ RecoverType

MachineType ==
  /\ orphans \subseteq Tasks /\ outlived \subseteq Tasks /\ dropped \subseteq Tasks
  /\ restarts \in Nat /\ launched \in [Tasks -> Nat]

LEMMA TypeParts ==
  /\ TypeOK <=> LedgerType /\ DispatchType /\ RunnerType /\ RecoverType /\ MachineType
  /\ TypeOK' <=> LedgerType' /\ DispatchType' /\ RunnerType' /\ RecoverType' /\ MachineType'
BY DEF TypeOK, LedgerType, DispatchType, RunnerType, RecoverType, MachineType, States

(* Hub.owner_transition and Hub.finish keep the ledger's types.            *)
LEMMA LedgerWriteType ==
  ASSUME LedgerType, NEW t \in Tasks, NEW s \in Open \cup Terminal, UNCHANGED inbox,
         OwnerTransition(t, s) \/ Finish(t, s)
  PROVE  LedgerType'
<1>1. Transition({t}, s)
  BY DEF OwnerTransition, Finish
<1>2. status' \in [Tasks -> States] /\ closings' \in [Tasks -> Nat]
  BY <1>1, TransitionEffect DEF LedgerType
<1>3. result' \subseteq Tasks /\ answers' \in [Tasks -> Nat] /\ UNCHANGED <<attempts, draft>>
  BY DEF OwnerTransition, Finish, LedgerType
<1> QED
  BY <1>2, <1>3 DEF LedgerType

LEMMA EnqueueType == ASSUME RunnerType, NEW t \in Tasks, Enqueue(t) PROVE RunnerType'
BY DEF RunnerType, Enqueue

LEMMA ReleaseType == ASSUME RunnerType, NEW s \in Slots, Release(s) PROVE RunnerType'
BY TasksAssumption DEF RunnerType, Release, Places

LEMMA MoveType ==
  ASSUME RunnerType, NEW s \in Slots, on[s] # NoTask,
         NEW place \in Places \ {"idle", "ended"}, MoveTo(s, place)
  PROVE  RunnerType'
BY DEF RunnerType, MoveTo, Places

LEMMA RestartType ==
  ASSUME Restart
  PROVE  DispatchType' /\ RunnerType' /\ RecoverType'
BY DEF Restart, RecoverType, DispatchType, RunnerType, Places

-----------------------------------------------------------------------------
(* Type correctness *)

LEMMA InitType == Init => TypeOK
<1> SUFFICES ASSUME Init PROVE LedgerType /\ DispatchType /\ RunnerType /\ RecoverType /\ MachineType
  BY TypeParts
<1> QED
  BY DEF Init, LedgerType, DispatchType, RunnerType, RecoverType, MachineType, States, Places

LEMMA DispatcherType == TypeOK /\ Dispatcher => DaemonType'
<1> SUFFICES ASSUME LedgerType, DispatchType, RunnerType, RecoverType, Dispatcher
             PROVE  LedgerType' /\ DispatchType' /\ RunnerType' /\ RecoverType'
  BY TypeParts DEF DaemonType
<1> USE DEF runnerVars, recoverVars, ledgerVars, Open, Terminal
<1>1. handling # NoMsg => handling \in Messages /\ TaskOf(handling) \in Tasks
  BY MessageTask DEF DispatchType
<1>2. ASSUME NEW m \in Messages,
             OnKnownRequest(m) \/ OnDeniedRequest(m) \/ OnNewRequest(m)
             \/ OnLateCancel(m) \/ OnPendingCancel(m) \/ OnCancel(m)
      PROVE  LedgerType' /\ DispatchType' /\ RunnerType' /\ RecoverType'
  <2>1. TaskOf(m) \in Tasks /\ m # NoMsg
    BY MessageTask, MessagesAssumption
  <2>2. DispatchType'
    BY <1>2, <2>1 DEF OnKnownRequest, OnDeniedRequest, OnNewRequest, OnLateCancel, OnPendingCancel, OnCancel,
       Take, DispatchType
  <2>3. RunnerType' /\ RecoverType'
    BY <1>2, <2>1, TasksAssumption
    DEF OnKnownRequest, OnDeniedRequest, OnNewRequest, OnLateCancel, OnPendingCancel, OnCancel,
        RunnerType, RecoverType
  <2>4. CASE OnKnownRequest(m) \/ OnNewRequest(m) \/ OnLateCancel(m)
    BY <2>1, <2>2, <2>3, <2>4 DEF OnKnownRequest, OnNewRequest, OnLateCancel, LedgerType, States
  <2>5. CASE OnDeniedRequest(m) \/ OnPendingCancel(m)
    BY <2>1, <2>2, <2>3, <2>5, LedgerWriteType DEF OnDeniedRequest, OnPendingCancel
  <2>6. CASE OnCancel(m)
    <3>1. CASE UNCHANGED ledgerVars
      BY <2>2, <2>3, <3>1 DEF LedgerType
    <3>2. CASE OwnerTransition(TaskOf(m), "CANCELLED") /\ UNCHANGED inbox
      BY <2>1, <2>2, <2>3, <3>2, LedgerWriteType
    <3> QED
      BY <2>6, <3>1, <3>2 DEF OnCancel
  <2> QED
    BY <1>2, <2>4, <2>5, <2>6
<1>3. CASE Accept
  <2>1. LedgerType'
    BY <1>1, <1>3, LedgerWriteType DEF Accept, DispatchType
  <2> QED
    BY <1>3, <2>1 DEF Accept, DispatchType, RunnerType, RecoverType
<1>4. CASE EnqueueNew
  <2>1. RunnerType'
    BY <1>1, <1>4, EnqueueType DEF EnqueueNew, DispatchType
  <2> QED
    BY <1>4, <2>1 DEF EnqueueNew, DispatchType, LedgerType, RecoverType
<1>5. CASE Mark
  BY <1>1, <1>5 DEF Mark, DispatchType, LedgerType, RunnerType, RecoverType
<1> QED
  BY <1>2, <1>3, <1>4, <1>5 DEF Dispatcher

LEMMA RunnersType == \A s \in Slots : TypeOK /\ Runner(s) => DaemonType'
<1> SUFFICES ASSUME NEW s \in Slots, LedgerType, DispatchType, RunnerType, RecoverType, Runner(s)
             PROVE  LedgerType' /\ DispatchType' /\ RunnerType' /\ RecoverType'
  BY TypeParts DEF DaemonType
<1> USE DEF dispatchVars, recoverVars, ledgerVars, Open, Terminal
<1>1. DispatchType' /\ RecoverType'
  BY DEF Runner, Pick, StartClosed, Admit, Count, GiveUp, ClearDraft, Announce, WorktreeReady, WorktreeFails, Launch, AgentExits, RunFails,
     Deliver, ResultUnreadable, UploadFails, LoopEnds, CancelLands, OwnerTransition, Finish, DispatchType, RecoverType
<1>2. at[s] \notin {"idle", "ended"} => on[s] \in Tasks
  BY DEF RunnerType
<1>3. s \in signalled => on[s] \in Tasks
  BY DEF RunnerType
<1>4. ASSUME UNCHANGED ledgerVars PROVE LedgerType'
  BY <1>4 DEF LedgerType
<1>5. ASSUME NEW t \in Tasks, Pick(s, t) PROVE LedgerType' /\ RunnerType'
  BY <1>5, TasksAssumption DEF Pick, LedgerType, RunnerType, Places
<1>6. CASE StartClosed(s)
  BY <1>1, <1>4, <1>6, ReleaseType DEF StartClosed
<1>7. CASE Admit(s)
  <2>1. on[s] \in Tasks
    BY <1>2, <1>7 DEF Admit, Undisturbed
  <2> QED
    BY <1>1, <1>4, <1>7, <2>1, MoveType, TasksAssumption DEF Admit, Places
<1>8. CASE Count(s)
  <2>1. on[s] \in Tasks
    BY <1>2, <1>8 DEF Count
  <2>2. RunnerType'
    BY <1>8, <2>1, MoveType, TasksAssumption DEF Count, Places
  <2>3. LedgerType'
    BY <1>8, <2>1 DEF Count, LedgerType
  <2> QED
    BY <1>1, <2>2, <2>3
<1>9. CASE ClearDraft(s)
  <2>1. on[s] \in Tasks
    BY <1>2, <1>9 DEF ClearDraft
  <2>2. RunnerType'
    BY <1>9, <2>1, MoveType, TasksAssumption DEF ClearDraft, Places
  <2>3. LedgerType'
    BY <1>9, <2>1 DEF ClearDraft, LedgerType
  <2> QED
    BY <1>1, <2>2, <2>3
<1>10. CASE WorktreeReady(s) \/ Announce(s)
  <2>1. on[s] \in Tasks
    BY <1>2, <1>10 DEF WorktreeReady, Announce, Undisturbed
  <2> QED
    BY <1>1, <1>10, <2>1, MoveType, LedgerWriteType, TasksAssumption DEF WorktreeReady, Announce, Places
<1>11. CASE GiveUp(s) \/ WorktreeFails(s) \/ RunFails(s) \/ Deliver(s)
  <2>1. on[s] \in Tasks
    BY <1>2, <1>11 DEF GiveUp, WorktreeFails, RunFails, Deliver, Undisturbed
  <2>2. PICK r \in Results : Finish(on[s], r) /\ Release(s) /\ UNCHANGED inbox
    BY <1>11 DEF GiveUp, WorktreeFails, RunFails, Deliver, Results
  <2> QED
    BY <1>1, <2>1, <2>2, ReleaseType, LedgerWriteType DEF Results
<1>12. CASE Launch(s)
  <2>1. on[s] \in Tasks
    BY <1>2, <1>12 DEF Launch, Undisturbed
  <2> QED
    BY <1>1, <1>4, <1>12, <2>1, MoveType, TasksAssumption DEF Launch, Places
<1>13. CASE AgentExits(s)
  <2>1. on[s] \in Tasks
    BY <1>2, <1>13 DEF AgentExits
  <2>2. CASE Release(s) /\ UNCHANGED ledgerVars
    BY <1>1, <1>4, <2>2, ReleaseType
  <2>3. CASE /\ at' = [at EXCEPT ![s] = "attaching"]
             /\ signalled' = signalled \ {s}
             /\ UNCHANGED <<queue, queued, on, ledgerVars>>
    BY <1>1, <1>4, <2>1, <2>3, TasksAssumption DEF RunnerType, Places
  <2>4. CASE (\E r \in Results : Finish(on[s], r)) /\ Release(s) /\ UNCHANGED inbox
    <3>1. PICK r \in Results : Finish(on[s], r)
      BY <2>4
    <3> QED
      BY <1>1, <2>1, <2>4, <3>1, ReleaseType, LedgerWriteType DEF Results
  <2> QED
    BY <1>13, <2>2, <2>3, <2>4 DEF AgentExits
<1>14. CASE ResultUnreadable(s) \/ UploadFails(s)
  <2>1. on[s] \in Tasks /\ LoopEnds(s)
    BY <1>2, <1>14 DEF ResultUnreadable, UploadFails, Undisturbed
  <2>2. RunnerType'
    BY <2>1, TasksAssumption DEF LoopEnds, RunnerType, Places
  <2> QED
    BY <1>1, <1>4, <2>1, <2>2 DEF LoopEnds
<1>15. CASE CancelLands(s)
  <2>1. LedgerType'
    <3>1. CASE OwnerTransition(on[s], "CANCELLED") /\ UNCHANGED inbox
      BY <1>3, <1>15, <3>1, LedgerWriteType DEF CancelLands
    <3>2. CASE UNCHANGED ledgerVars
      BY <1>4, <3>2
    <3> QED
      BY <1>15, <3>1, <3>2 DEF CancelLands
  <2> QED
    BY <1>1, <1>15, <2>1, ReleaseType DEF CancelLands
<1> QED
  BY <1>1, <1>5, <1>6, <1>7, <1>8, <1>9, <1>10, <1>11, <1>12, <1>13, <1>14, <1>15 DEF Runner

LEMMA AgentType == \A t \in Tasks : TypeOK /\ Agent(t) => DaemonType'
<1> SUFFICES ASSUME NEW t \in Tasks, LedgerType, DispatchType, RunnerType, RecoverType, Agent(t)
             PROVE  LedgerType' /\ DispatchType' /\ RunnerType' /\ RecoverType'
  BY TypeParts DEF DaemonType
<1> USE DEF dispatchVars, recoverVars, ledgerVars, runnerVars, Open, Terminal
<1>1. DispatchType' /\ RunnerType' /\ RecoverType'
  BY DEF Agent, Report, Submit, Refuse, OrphanExits, DispatchType, RunnerType, RecoverType
<1>2. ASSUME NEW s \in Reports, Report(t, s) PROVE LedgerType'
  BY <1>2, LedgerWriteType, BoundsAssumption DEF Report
<1>3. CASE Refuse(t)
  BY <1>1, <1>3, LedgerWriteType DEF Refuse
<1>4. CASE Submit(t) \/ OrphanExits(t)
  BY <1>1, <1>4 DEF Submit, OrphanExits, LedgerType
<1> QED
  BY <1>1, <1>2, <1>3, <1>4 DEF Agent

LEMMA RecoveryType == TypeOK /\ Recovery => DaemonType'
<1> SUFFICES ASSUME LedgerType, DispatchType, RunnerType, RecoverType, Recovery
             PROVE  LedgerType' /\ DispatchType' /\ RunnerType' /\ RecoverType'
  BY TypeParts DEF DaemonType
<1> USE DEF dispatchVars, ledgerVars, runnerVars, Open, Terminal
<1>1. DispatchType'
  BY DEF Recovery, RecoverRead, RecoverTask, RecoverEnqueue, RecoverDone, OwnerTransition, DispatchType
<1>2. CASE RecoverRead
  <2>1. \A t \in Tasks : status[t] \in Resumable => <<t, status[t]>> \in Tasks \X Resumable
    OBVIOUS
  <2>2. RecoverType'
    BY <1>2, <2>1 DEF RecoverRead, RecoverType
  <2> QED
    BY <1>1, <1>2, <2>2 DEF RecoverRead, LedgerType, RunnerType
<1>3. ASSUME NEW t \in Tasks, NEW s \in Resumable, RecoverTask(t, s)
      PROVE  LedgerType' /\ DispatchType' /\ RunnerType' /\ RecoverType'
  <2>1. RecoverType'
    BY <1>3 DEF RecoverTask, RecoverType
  <2>2. CASE Enqueue(t) /\ UNCHANGED ledgerVars
    BY <1>1, <2>1, <2>2, EnqueueType DEF LedgerType
  <2>3. CASE OwnerTransition(t, "ACCEPTED") /\ UNCHANGED <<inbox, runnerVars>>
    BY <1>1, <2>1, <2>3, LedgerWriteType DEF RunnerType
  <2> QED
    BY <1>3, <2>2, <2>3 DEF RecoverTask
<1>4. CASE RecoverEnqueue
  <2>1. RunnerType'
    BY <1>4, EnqueueType DEF RecoverEnqueue, RecoverType
  <2> QED
    BY <1>1, <1>4, <2>1 DEF RecoverEnqueue, LedgerType, RecoverType
<1>5. CASE RecoverDone
  BY <1>1, <1>5 DEF RecoverDone, LedgerType, RunnerType, RecoverType
<1> QED
  BY <1>2, <1>3, <1>4, <1>5 DEF Recovery

LEMMA EnvironmentType == TypeOK /\ Environment => DaemonType'
<1> SUFFICES ASSUME LedgerType, DispatchType, RunnerType, RecoverType, Environment
             PROVE  LedgerType' /\ DispatchType' /\ RunnerType' /\ RecoverType'
  BY TypeParts DEF DaemonType
<1> USE DEF dispatchVars, ledgerVars, runnerVars, recoverVars, Open, Terminal
<1>1. ASSUME NEW m \in Messages, Arrive(m) PROVE LedgerType' /\ DispatchType' /\ RunnerType' /\ RecoverType'
  BY <1>1 DEF Arrive, LedgerType, DispatchType, RunnerType, RecoverType
<1>2. ASSUME NEW m \in Messages, KilledBeforeReject(m)
      PROVE  LedgerType' /\ DispatchType' /\ RunnerType' /\ RecoverType'
  <2>1. LedgerType'
    BY <1>2 DEF KilledBeforeReject, LedgerType, States
  <2> QED
    BY <1>2, <2>1, RestartType DEF KilledBeforeReject
<1>3. CASE Crash
  BY <1>3, RestartType DEF Crash, LedgerType
<1>4. CASE GracefulStop
  <2>1. status' \in [Tasks -> States] /\ closings' \in [Tasks -> Nat]
    BY <1>4, TransitionEffect DEF GracefulStop, LedgerType
  <2> QED
    BY <1>4, <2>1, RestartType DEF GracefulStop, LedgerType
<1> QED
  BY <1>1, <1>2, <1>3, <1>4 DEF Environment

LEMMA MachineStep == TypeOK /\ [Next]_vars => MachineType'
<1> SUFFICES ASSUME RunnerType, MachineType, [Next]_vars PROVE MachineType'
  BY TypeParts
<1> USE DEF machineVars
<1>1. ASSUME Dispatcher \/ Recovery PROVE UNCHANGED machineVars
  BY <1>1 DEF Dispatcher, OnKnownRequest, OnDeniedRequest, OnNewRequest, OnLateCancel, OnPendingCancel, OnCancel,
     Accept, EnqueueNew, Mark, Recovery, RecoverRead, RecoverTask, RecoverEnqueue, RecoverDone
<1>2. ASSUME NEW s \in Slots, Runner(s) PROVE MachineType'
  <2>1. CASE Launch(s)
    <3>1. launched' = [launched EXCEPT ![on[s]] = @ + 1] /\ UNCHANGED <<orphans, restarts, outlived, dropped>>
      BY <2>1 DEF Launch
    <3>2. on[s] \in Tasks
      BY <2>1 DEF Launch, Undisturbed, RunnerType
    <3> QED
      BY <3>1, <3>2 DEF MachineType
  <2>2. CASE ResultUnreadable(s) \/ UploadFails(s)
    BY <2>2 DEF ResultUnreadable, UploadFails, Undisturbed, LoopEnds, RunnerType, MachineType
  <2>3. CASE UNCHANGED machineVars
    BY <2>3 DEF MachineType
  <2> QED
    BY <1>2, <2>1, <2>2, <2>3 DEF Runner, Pick, StartClosed, Admit, Count, GiveUp, ClearDraft, Announce, WorktreeReady,
       WorktreeFails, AgentExits, RunFails, Deliver, CancelLands
<1>3. ASSUME NEW t \in Tasks, Agent(t) PROVE MachineType'
  BY <1>3 DEF Agent, Report, Submit, Refuse, OrphanExits, MachineType
<1>4. ASSUME Environment PROVE MachineType'
  <2>1. ASSUME Restart, orphans' \subseteq Tasks PROVE MachineType'
    BY <2>1 DEF Restart, MachineType
  <2>2. CASE Crash
    <3>1. orphans' \subseteq orphans \cup {t \in Tasks : HasProcess(t)} /\ Restart
      BY <2>2 DEF Crash
    <3> QED
      BY <2>1, <3>1 DEF MachineType
  <2>3. CASE Restart /\ UNCHANGED orphans
    BY <2>1, <2>3 DEF MachineType
  <2>4. CASE UNCHANGED machineVars
    BY <2>4 DEF MachineType
  <2> QED
    BY <1>4, <2>2, <2>3, <2>4 DEF Environment, Arrive, KilledBeforeReject, GracefulStop
<1>5. UNCHANGED machineVars => MachineType'
  BY DEF MachineType
<1> QED
  BY <1>1, <1>2, <1>3, <1>4, <1>5 DEF Next, vars

LEMMA TypeStep == TypeOK /\ [Next]_vars => TypeOK'
<1> SUFFICES ASSUME TypeOK, [Next]_vars PROVE TypeOK'
  OBVIOUS
<1>1. CASE UNCHANGED vars
  BY <1>1 DEF TypeOK, vars, ledgerVars, dispatchVars, runnerVars, recoverVars, machineVars
<1>2. CASE DaemonType'
  BY <1>2, MachineStep, TypeParts DEF DaemonType
<1> QED
  BY <1>1, <1>2, DispatcherType, RunnersType, AgentType, RecoveryType, EnvironmentType DEF Next

(* Every variable keeps its type, in every behaviour.                      *)
THEOREM TypeCorrect == Spec => []TypeOK
<1>1. Init => TypeOK
  BY InitType
<1>2. TypeOK /\ [Next]_vars => TypeOK'
  BY TypeStep
<1> QED
  BY <1>1, <1>2, PTL DEF Spec

-----------------------------------------------------------------------------
(* One runner per task *)

LEMMA EnqueueKeepsOne ==
  ASSUME RunnerType, OneRunnerPerTask, NEW t \in Tasks, Enqueue(t)
  PROVE  OneRunnerPerTask'
<1>1. UNCHANGED on /\ queued' = queued \cup {t}
  BY DEF Enqueue
<1>2. CASE t \in queued
  <2>1. queue' = queue /\ queued' = queued
    BY <1>1, <1>2 DEF Enqueue
  <2> QED
    BY <1>1, <2>1 DEF OneRunnerPerTask
<1>3. CASE t \notin queued
  <2>1. queue' = queue \cup {t}
    BY <1>3 DEF Enqueue
  <2>2. \A s \in Slots : on[s] # t
    BY <1>3, TasksAssumption DEF OneRunnerPerTask, RunnerType
  <2> QED
    BY <1>1, <2>1, <2>2 DEF OneRunnerPerTask
<1> QED
  BY <1>2, <1>3

(* A runner that lets go of its task takes it out of _queued; nobody else  *)
(* had it.                                                                 *)
LEMMA LetGoKeepsOne ==
  ASSUME RunnerType, OneRunnerPerTask, NEW s \in Slots, on[s] # NoTask,
         on' = [on EXCEPT ![s] = NoTask], queued' = queued \ {on[s]}, UNCHANGED queue
  PROVE  OneRunnerPerTask'
<1>1. \A r \in Slots : on'[r] = IF r = s THEN NoTask ELSE on[r]
  BY DEF RunnerType
<1>2. \A r \in Slots \ {s} : on[r] # on[s]
  BY DEF OneRunnerPerTask
<1>3. on[s] \notin queue /\ NoTask \notin queue
  BY TasksAssumption DEF OneRunnerPerTask, RunnerType
<1>4. queued' = queue' \cup {on'[r] : r \in {x \in Slots : on'[x] # NoTask}}
  BY <1>1, <1>2, <1>3 DEF OneRunnerPerTask
<1> QED
  BY <1>1, <1>3, <1>4 DEF OneRunnerPerTask

LEMMA PickKeepsOne ==
  ASSUME RunnerType, OneRunnerPerTask, NEW s \in Slots, NEW t \in Tasks, Pick(s, t)
  PROVE  OneRunnerPerTask'
<1>1. /\ t \in queue /\ on[s] = NoTask /\ UNCHANGED queued
      /\ queue' = queue \ {t} /\ on' = [on EXCEPT ![s] = t]
  BY DEF Pick, RunnerType
<1>2. \A r \in Slots : on'[r] = IF r = s THEN t ELSE on[r]
  BY <1>1 DEF RunnerType
<1>3. \A r \in Slots : on[r] # t
  BY <1>1 DEF OneRunnerPerTask
<1>4. t # NoTask
  BY TasksAssumption
<1>5. queued' = queue' \cup {on'[r] : r \in {x \in Slots : on'[x] # NoTask}}
  BY <1>1, <1>2, <1>4 DEF OneRunnerPerTask
<1> QED
  BY <1>1, <1>2, <1>3, <1>4, <1>5 DEF OneRunnerPerTask

LEMMA OneRunnerStep == TypeOK /\ OneRunnerPerTask /\ [Next]_vars => OneRunnerPerTask'
<1> SUFFICES ASSUME LedgerType, DispatchType, RunnerType, RecoverType, OneRunnerPerTask, [Next]_vars
             PROVE  OneRunnerPerTask'
  BY TypeParts
<1>1. ASSUME UNCHANGED <<queue, queued, on>> PROVE OneRunnerPerTask'
  BY <1>1 DEF OneRunnerPerTask
<1>2. CASE Dispatcher
  <2>1. CASE EnqueueNew
    <3>1. TaskOf(handling) \in Tasks /\ Enqueue(TaskOf(handling))
      BY <2>1, MessageTask DEF EnqueueNew, DispatchType
    <3> QED
      BY <3>1, EnqueueKeepsOne
  <2>2. CASE ~EnqueueNew
    <3>1. UNCHANGED <<queue, queued, on>>
      BY <1>2, <2>2 DEF Dispatcher, OnKnownRequest, OnDeniedRequest, OnNewRequest, OnLateCancel,
         OnPendingCancel, OnCancel, Accept, Mark, runnerVars
    <3> QED
      BY <1>1, <3>1
  <2> QED
    BY <2>1, <2>2
<1>3. CASE Recovery
  <2>1. ASSUME NEW t \in Tasks, Enqueue(t) PROVE OneRunnerPerTask'
    BY <2>1, EnqueueKeepsOne
  <2>2. CASE RecoverEnqueue
    BY <2>1, <2>2 DEF RecoverEnqueue, RecoverType
  <2>3. ASSUME NEW t \in Tasks, NEW s \in Resumable, RecoverTask(t, s) PROVE OneRunnerPerTask'
    BY <1>1, <2>1, <2>3 DEF RecoverTask, runnerVars
  <2>4. CASE RecoverRead \/ RecoverDone
    BY <1>1, <2>4 DEF RecoverRead, RecoverDone, runnerVars
  <2> QED
    BY <1>3, <2>2, <2>3, <2>4 DEF Recovery
<1>4. CASE Environment
  <2>1. CASE Restart
    BY <2>1, TasksAssumption DEF Restart, OneRunnerPerTask
  <2>2. CASE UNCHANGED runnerVars
    BY <1>1, <2>2 DEF runnerVars
  <2> QED
    BY <1>4, <2>1, <2>2 DEF Environment, Arrive, KilledBeforeReject, Crash, GracefulStop
<1>5. ASSUME NEW s \in Slots, Runner(s) PROVE OneRunnerPerTask'
  <2>1. ASSUME NEW t \in Tasks, Pick(s, t) PROVE OneRunnerPerTask'
    BY <2>1, PickKeepsOne
  <2>2. CASE Release(s) /\ on[s] # NoTask
    BY <2>2, LetGoKeepsOne DEF Release
  <2>3. CASE ResultUnreadable(s) \/ UploadFails(s)
    BY <2>3, LetGoKeepsOne, TasksAssumption DEF ResultUnreadable, UploadFails, LoopEnds, Undisturbed, RunnerType
  <2>4. CASE StartClosed(s) \/ GiveUp(s) \/ WorktreeFails(s) \/ RunFails(s) \/ Deliver(s) \/ CancelLands(s)
    BY <2>2, <2>4 DEF StartClosed, GiveUp, WorktreeFails, RunFails, Deliver, CancelLands, Undisturbed, RunnerType
  <2>5. CASE Admit(s) \/ Count(s) \/ ClearDraft(s) \/ Announce(s) \/ WorktreeReady(s) \/ Launch(s)
    BY <1>1, <2>5 DEF Admit, Count, ClearDraft, Announce, WorktreeReady, Launch, MoveTo
  <2>6. CASE AgentExits(s)
    BY <1>1, <2>2, <2>6 DEF AgentExits, RunnerType
  <2> QED
    BY <1>5, <2>1, <2>3, <2>4, <2>5, <2>6 DEF Runner
<1>6. ASSUME NEW t \in Tasks, Agent(t) PROVE OneRunnerPerTask'
  BY <1>1, <1>6 DEF Agent, Report, Submit, Refuse, OrphanExits, runnerVars
<1>7. CASE UNCHANGED vars
  BY <1>1, <1>7 DEF vars, runnerVars
<1> QED
  BY <1>2, <1>3, <1>4, <1>5, <1>6, <1>7 DEF Next

(* No task is executed by two runners at once, for any number of tasks,    *)
(* runners, resends and restarts.                                          *)
THEOREM OneRunner == Spec => []OneRunnerPerTask
<1>1. Init => OneRunnerPerTask
  BY TasksAssumption DEF Init, OneRunnerPerTask
<1> QED
  BY <1>1, OneRunnerStep, TypeCorrect, PTL DEF Spec

-----------------------------------------------------------------------------
(* The owner keeps the promise of TaskLifecycle *)

ResultsFinished == \A t \in result : status[t] \in Results

(* Whatever the daemon has in hand is a task of its ledger.                *)
Known ==
  /\ \A t \in queued : status[t] # "none"
  /\ step \in {"accept", "enqueue"} => status[TaskOf(handling)] # "none"
  /\ \A t \in Tasks, s \in Resumable : <<t, s>> \in snapshot => status[t] # "none"
  /\ resuming # NoTask => status[resuming] # "none"

PromiseInv == TypeOK /\ OneRunnerPerTask /\ ResultsFinished /\ Known

(* Open tasks move, or are withdrawn or refused; closed ones stay.         *)
LEMMA TransitionImplements ==
  ASSUME LedgerType, NEW T, NEW s \in Open \cup {"FAILED", "CANCELLED"}, Transition(T, s),
         UNCHANGED <<result, answers>>
  PROVE  Lifecycle!Next
<1>1. s \in Open \cup Terminal
  BY DEF Terminal
<1>2. ASSUME NEW t \in Tasks
      PROVE  Lifecycle!Moves(t) \/ Lifecycle!Withdraws(t) \/ Lifecycle!Stays(t)
  <2>1. IF t \in T /\ status[t] \notin Terminal
          THEN status'[t] = s /\ closings'[t] = closings[t] + (IF s \in Terminal THEN 1 ELSE 0)
          ELSE status'[t] = status[t] /\ closings'[t] = closings[t]
    BY <1>1, TransitionEffect DEF LedgerType
  <2>2. status[t] \in States /\ closings[t] \in Nat
    BY DEF LedgerType
  <2>3. CASE t \in T /\ status[t] \notin Terminal
    BY <2>1, <2>2, <2>3
    DEF States, Open, Terminal, Lifecycle!Moves, Lifecycle!Withdraws, Lifecycle!Open, Lifecycle!Keeps
  <2>4. CASE ~(t \in T /\ status[t] \notin Terminal)
    BY <2>1, <2>4 DEF Lifecycle!Stays, Lifecycle!Keeps
  <2> QED
    BY <2>3, <2>4
<1> QED
  BY <1>2 DEF Lifecycle!Next

LEMMA FinishImplements ==
  ASSUME LedgerType, NEW t \in Tasks, status[t] \in Open, NEW r \in Results, Transition({t}, r),
         result' = result \cup {t}, answers' = [answers EXCEPT ![t] = @ + 1]
  PROVE  Lifecycle!Next
<1>1. r \in Open \cup Terminal /\ r \in Terminal
  BY DEF Results, Terminal
<1>2. \A u \in Tasks :
        IF u = t THEN status'[u] = r /\ closings'[u] = closings[u] + 1
                 ELSE status'[u] = status[u] /\ closings'[u] = closings[u]
  <2>1. t \in {t} /\ status[t] \notin Terminal
    BY DEF Open, Terminal
  <2> QED
    BY <1>1, <2>1, TransitionEffect DEF LedgerType
<1>3. Lifecycle!Finishes(t)
  BY <1>2 DEF LedgerType, Results, Open, Lifecycle!Finishes, Lifecycle!Open, Lifecycle!Finished
<1>4. ASSUME NEW u \in Tasks \ {t}
      PROVE  Lifecycle!Stays(u)
  BY <1>2 DEF LedgerType, Lifecycle!Stays, Lifecycle!Keeps
<1> QED
  BY <1>3, <1>4 DEF Lifecycle!Next

LEMMA HubFinishImplements ==
  ASSUME LedgerType, NEW t \in Tasks, status[t] # "none", NEW r \in Results, Finish(t, r)
  PROVE  Lifecycle!Next
<1>1. CASE status[t] \in Terminal
  <2>1. r \in Open \cup Terminal
    BY DEF Results, Terminal
  <2>2. \A u \in Tasks : status'[u] = status[u] /\ closings'[u] = closings[u]
    BY <1>1, <2>1, TransitionEffect DEF LedgerType, Finish
  <2> QED
    BY <1>1, <2>2 DEF Finish, Lifecycle!Next, Lifecycle!Stays, Lifecycle!Keeps
<1>2. CASE status[t] \notin Terminal
  <2>1. status[t] \in Open
    BY <1>2 DEF LedgerType, States
  <2> QED
    BY <1>2, <2>1, FinishImplements DEF Finish
<1> QED
  BY <1>1, <1>2

LEMMA CreateImplements ==
  ASSUME LedgerType, NEW t \in Tasks, status[t] = "none", status' = [status EXCEPT ![t] = "PENDING"],
         UNCHANGED <<result, closings, answers>>
  PROVE  Lifecycle!Next
BY DEF LedgerType, Lifecycle!Next, Lifecycle!Moves, Lifecycle!Stays, Lifecycle!Keeps, Lifecycle!Open

LEMMA AgainImplements ==
  ASSUME LedgerType, ResultsFinished, NEW t \in result,
         answers' = [answers EXCEPT ![t] = @ + 1], UNCHANGED <<status, result, closings>>
  PROVE  Lifecycle!Next
BY DEF LedgerType, ResultsFinished, Results, Lifecycle!Next, Lifecycle!Stays, Lifecycle!Keeps, Lifecycle!Finished

LEMMA StepImplements ==
  ASSUME PromiseInv, [Next]_vars
  PROVE  [Lifecycle!Next]_(Lifecycle!vars)
<1> DEFINE Same == UNCHANGED <<status, result, closings, answers>>
<1>0. LedgerType /\ DispatchType /\ RunnerType /\ RecoverType /\ OneRunnerPerTask /\ ResultsFinished /\ Known
  BY TypeParts DEF PromiseInv
<1>1. ASSUME NEW t \in Tasks, NEW s \in Open \cup {"FAILED", "CANCELLED"}, OwnerTransition(t, s)
      PROVE  Lifecycle!Next
  BY <1>0, <1>1, TransitionImplements DEF OwnerTransition
<1>2. \A s \in Slots : on[s] # NoTask => on[s] \in Tasks /\ status[on[s]] # "none"
  BY <1>0 DEF RunnerType, OneRunnerPerTask, Known
<1>3. ASSUME Dispatcher PROVE Lifecycle!Next \/ Same
  <2>1. ASSUME NEW m \in Messages, OnKnownRequest(m) \/ OnNewRequest(m)
        PROVE  Lifecycle!Next \/ Same
    BY <1>0, <2>1, MessageTask, AgainImplements, CreateImplements DEF OnKnownRequest, OnNewRequest
  <2>2. ASSUME NEW m \in Messages, OnDeniedRequest(m) \/ OnPendingCancel(m)
        PROVE  Lifecycle!Next
    BY <1>1, <2>2, MessageTask DEF OnDeniedRequest, OnPendingCancel
  <2>3. ASSUME NEW m \in Messages, OnLateCancel(m) \/ OnCancel(m)
        PROVE  Lifecycle!Next \/ Same
    BY <1>1, <2>3, MessageTask DEF OnLateCancel, OnCancel, ledgerVars
  <2>4. CASE Accept
    <3>1. TaskOf(handling) \in Tasks /\ OwnerTransition(TaskOf(handling), "ACCEPTED")
      BY <1>0, <2>4, MessageTask DEF Accept, DispatchType
    <3> QED
      BY <1>1, <3>1 DEF Open
  <2>5. CASE EnqueueNew \/ Mark
    BY <2>5 DEF EnqueueNew, Mark, ledgerVars
  <2> QED
    BY <1>3, <2>1, <2>2, <2>3, <2>4, <2>5 DEF Dispatcher
<1>4. ASSUME NEW s \in Slots, Runner(s) PROVE Lifecycle!Next \/ Same
  <2>1. at[s] \notin {"idle", "ended"} \/ s \in signalled => on[s] \in Tasks /\ status[on[s]] # "none"
    BY <1>0, <1>2 DEF RunnerType
  <2>2. CASE Admit(s) \/ Count(s) \/ ClearDraft(s)
    BY <2>2 DEF Admit, Count, ClearDraft, ledgerVars
  <2>4. CASE WorktreeReady(s) \/ Announce(s)
    BY <1>1, <2>1, <2>4 DEF WorktreeReady, Announce, Undisturbed, Open
  <2>5. CASE GiveUp(s) \/ WorktreeFails(s) \/ RunFails(s) \/ Deliver(s)
    <3>1. PICK r \in Results : Finish(on[s], r)
      BY <2>5 DEF GiveUp, WorktreeFails, RunFails, Deliver, Results
    <3>2. on[s] \in Tasks /\ status[on[s]] # "none"
      BY <2>1, <2>5 DEF GiveUp, WorktreeFails, RunFails, Deliver, Undisturbed
    <3> QED
      BY <1>0, <3>1, <3>2, HubFinishImplements
  <2>6. CASE AgentExits(s)
    <3>1. Same \/ \E r \in Results : Finish(on[s], r)
      BY <2>6 DEF AgentExits, ledgerVars
    <3>2. on[s] \in Tasks /\ status[on[s]] # "none"
      BY <2>1, <2>6 DEF AgentExits
    <3> QED
      BY <1>0, <3>1, <3>2, HubFinishImplements
  <2>7. CASE CancelLands(s)
    BY <1>1, <2>1, <2>7 DEF CancelLands, ledgerVars
  <2>8. CASE ResultUnreadable(s) \/ UploadFails(s)
    BY <2>8 DEF ResultUnreadable, UploadFails, LoopEnds, ledgerVars
  <2>9. ASSUME NEW t \in Tasks, Pick(s, t) PROVE Same
    BY <2>9 DEF Pick, ledgerVars
  <2>10. CASE StartClosed(s) \/ Launch(s)
    BY <2>10 DEF StartClosed, Launch, ledgerVars
  <2> QED
    BY <1>4, <2>2, <2>4, <2>5, <2>6, <2>7, <2>8, <2>9, <2>10 DEF Runner
<1>5. ASSUME NEW t \in Tasks, Agent(t) PROVE Lifecycle!Next \/ Same
  <2>1. ASSUME NEW s \in Reports, Report(t, s) PROVE Lifecycle!Next
    BY <1>1, <2>1, BoundsAssumption DEF Report, Open
  <2>2. CASE Refuse(t)
    BY <1>1, <2>2 DEF Refuse
  <2>3. CASE Submit(t) \/ OrphanExits(t)
    BY <2>3 DEF Submit, OrphanExits, ledgerVars
  <2> QED
    BY <1>5, <2>1, <2>2, <2>3 DEF Agent
<1>6. ASSUME Recovery PROVE Lifecycle!Next \/ Same
  <2>1. ASSUME NEW t \in Tasks, NEW s \in Resumable, RecoverTask(t, s) PROVE Lifecycle!Next \/ Same
    BY <1>1, <2>1 DEF RecoverTask, ledgerVars, Open
  <2>2. CASE RecoverRead \/ RecoverEnqueue \/ RecoverDone
    BY <2>2 DEF RecoverRead, RecoverEnqueue, RecoverDone, ledgerVars
  <2> QED
    BY <1>6, <2>1, <2>2 DEF Recovery
<1>7. ASSUME Environment PROVE Lifecycle!Next \/ Same
  <2>1. ASSUME NEW m \in Messages, KilledBeforeReject(m) PROVE Lifecycle!Next
    BY <1>0, <2>1, MessageTask, CreateImplements DEF KilledBeforeReject
  <2>2. ASSUME NEW m \in Messages, Arrive(m) PROVE Same
    BY <2>2 DEF Arrive
  <2>3. CASE GracefulStop
    BY <1>0, <2>3, TransitionImplements DEF GracefulStop
  <2>4. CASE Crash
    BY <2>4 DEF Crash, ledgerVars
  <2> QED
    BY <1>7, <2>1, <2>2, <2>3, <2>4 DEF Environment
<1>8. UNCHANGED vars => Same
  BY DEF vars, ledgerVars
<1>9. Lifecycle!Next \/ Same
  BY <1>3, <1>4, <1>5, <1>6, <1>7, <1>8 DEF Next
<1> QED
  BY <1>9 DEF Lifecycle!vars

(* What a step of the promise leaves as it is.                             *)
LEMMA LifecycleStep ==
  ASSUME LedgerType, LedgerType', ResultsFinished, [Lifecycle!Next]_(Lifecycle!vars)
  PROVE  /\ ResultsFinished'
         /\ \A t \in Tasks : status[t] # "none" => status'[t] # "none"
         /\ \A t \in Tasks : status[t] \in Terminal => status'[t] = status[t]
<1>1. CASE UNCHANGED <<status, result, closings, answers>>
  BY <1>1 DEF ResultsFinished
<1>2. CASE Lifecycle!Next
  <2>1. ASSUME NEW t \in Tasks
        PROVE  /\ t \in result' => status'[t] \in Results
               /\ status[t] # "none" => status'[t] # "none"
               /\ status[t] \in Terminal => status'[t] = status[t]
    <3>1. Lifecycle!Moves(t) \/ Lifecycle!Withdraws(t) \/ Lifecycle!Finishes(t) \/ Lifecycle!Stays(t)
      BY <1>2 DEF Lifecycle!Next
    <3>2. t \in result => status[t] \in Results
      BY DEF ResultsFinished
    <3> QED
      BY <3>1, <3>2 DEF Lifecycle!Moves, Lifecycle!Withdraws, Lifecycle!Finishes, Lifecycle!Stays, Lifecycle!Keeps,
         Lifecycle!Open, Lifecycle!Finished, Results, Terminal
  <2> QED
    BY <2>1 DEF ResultsFinished, LedgerType
<1> QED
  BY <1>1, <1>2 DEF Lifecycle!vars

(* A task enters the daemon's hands from its ledger, and the ledger        *)
(* forgets none.                                                           *)
LEMMA KnownStep ==
  ASSUME TypeOK, TypeOK', Known, [Next]_vars,
         \A t \in Tasks : status[t] # "none" => status'[t] # "none"
  PROVE  Known'
<1>0. LedgerType /\ DispatchType /\ RunnerType /\ RecoverType /\ LedgerType'
  BY TypeParts
<1> DEFINE SameHands == UNCHANGED <<queued, dispatchVars, snapshot, resuming>>
<1>1. SameHands => Known'
  BY <1>0, MessageTask DEF dispatchVars, Known, RunnerType, DispatchType, RecoverType
<1>2. ASSUME UNCHANGED <<snapshot, resuming>>,
             \A t \in queued' \ queued : status[t] # "none",
             step' \in {"accept", "enqueue"} => status'[TaskOf(handling')] # "none"
      PROVE  Known'
  <2>1. queued' \subseteq Tasks
    BY TypeParts DEF RunnerType
  <2> QED
    BY <1>0, <1>2, <2>1 DEF Known, RunnerType, RecoverType
<1>3. ASSUME Dispatcher PROVE Known'
  <2>1. ASSUME NEW m \in Messages, OnNewRequest(m) PROVE Known'
    <3>1. TaskOf(m) \in Tasks /\ handling' = m /\ status'[TaskOf(m)] = "PENDING"
      BY <1>0, <2>1, MessageTask DEF OnNewRequest, Take, LedgerType
    <3> QED
      BY <1>2, <2>1, <3>1 DEF OnNewRequest, runnerVars, recoverVars
  <2>2. CASE Accept
    BY <1>0, <1>2, <2>2, MessageTask DEF Accept, Known, DispatchType, runnerVars, recoverVars
  <2>3. CASE EnqueueNew
    BY <1>2, <2>3 DEF EnqueueNew, Enqueue, Known, recoverVars
  <2>4. CASE Mark
    BY <1>2, <2>4 DEF Mark, runnerVars, recoverVars
  <2>5. ASSUME NEW m \in Messages,
               OnKnownRequest(m) \/ OnDeniedRequest(m) \/ OnLateCancel(m) \/ OnPendingCancel(m) \/ OnCancel(m)
        PROVE  Known'
    BY <1>2, <2>5 DEF OnKnownRequest, OnDeniedRequest, OnLateCancel, OnPendingCancel, OnCancel, runnerVars, recoverVars
  <2> QED
    BY <1>3, <2>1, <2>2, <2>3, <2>4, <2>5 DEF Dispatcher
<1>4. ASSUME NEW s \in Slots, Runner(s) PROVE Known'
  <2>1. UNCHANGED <<snapshot, resuming, dispatchVars>> /\ queued' \subseteq queued
    BY <1>4 DEF Runner, Pick, StartClosed, Admit, Count, GiveUp, ClearDraft, Announce, WorktreeReady, WorktreeFails, Launch, AgentExits, RunFails,
       Deliver, ResultUnreadable, UploadFails, LoopEnds, CancelLands, Release, MoveTo, recoverVars
  <2> QED
    BY <1>0, <1>2, <2>1, MessageTask DEF Known, DispatchType, dispatchVars
<1>5. ASSUME NEW t \in Tasks, Agent(t) PROVE Known'
  BY <1>1, <1>5 DEF Agent, Report, Submit, Refuse, OrphanExits, runnerVars, recoverVars
<1>6. ASSUME Recovery PROVE Known'
  <2>1. CASE RecoverRead
    <3>1. \A t \in Tasks, s \in Resumable : <<t, s>> \in snapshot' => status[t] \in Resumable
      BY <2>1 DEF RecoverRead
    <3>2. UNCHANGED <<queued, dispatchVars, resuming>>
      BY <2>1 DEF RecoverRead, runnerVars
    <3> QED
      BY <1>0, <3>1, <3>2, MessageTask DEF dispatchVars, Known, RunnerType, DispatchType, RecoverType, Resumable
  <2>2. ASSUME NEW t \in Tasks, NEW s \in Resumable, RecoverTask(t, s) PROVE Known'
    <3>1. status[t] # "none" /\ snapshot' \subseteq snapshot /\ resuming' \in {resuming, t}
          /\ queued' \subseteq queued \cup {t} /\ UNCHANGED dispatchVars
      BY <2>2 DEF RecoverTask, Known, Enqueue, runnerVars
    <3> QED
      BY <1>0, <3>1, MessageTask DEF dispatchVars, Known, RunnerType, DispatchType, RecoverType
  <2>3. CASE RecoverEnqueue
    <3>1. resuming' = NoTask /\ queued' = queued \cup {resuming} /\ resuming # NoTask
          /\ UNCHANGED <<snapshot, dispatchVars>>
      BY <2>3 DEF RecoverEnqueue, Enqueue
    <3> QED
      BY <1>0, <3>1, MessageTask DEF dispatchVars, Known, RunnerType, DispatchType, RecoverType
  <2>4. CASE RecoverDone
    BY <1>1, <2>4 DEF RecoverDone, runnerVars
  <2> QED
    BY <1>6, <2>1, <2>2, <2>3, <2>4 DEF Recovery
<1>7. ASSUME Environment PROVE Known'
  <2>1. CASE Restart
    BY <2>1 DEF Restart, Known
  <2>2. ASSUME NEW m \in Messages, Arrive(m) PROVE Known'
    BY <1>1, <2>2 DEF Arrive, runnerVars, recoverVars
  <2> QED
    BY <1>7, <2>1, <2>2 DEF Environment, KilledBeforeReject, Crash, GracefulStop
<1>8. CASE UNCHANGED vars
  BY <1>1, <1>8 DEF vars, runnerVars, recoverVars
<1> QED
  BY <1>3, <1>4, <1>5, <1>6, <1>7, <1>8 DEF Next

LEMMA PromiseStep ==
  ASSUME PromiseInv, [Next]_vars
  PROVE  /\ PromiseInv'
         /\ \A t \in Tasks : status[t] # "none" => status'[t] # "none"
         /\ \A t \in Tasks : status[t] \in Terminal => status'[t] = status[t]
<1>1. TypeOK /\ TypeOK' /\ LedgerType /\ LedgerType' /\ OneRunnerPerTask'
  BY TypeStep, OneRunnerStep, TypeParts DEF PromiseInv
<1>2. [Lifecycle!Next]_(Lifecycle!vars)
  BY StepImplements
<1>3. /\ ResultsFinished'
      /\ \A t \in Tasks : status[t] # "none" => status'[t] # "none"
      /\ \A t \in Tasks : status[t] \in Terminal => status'[t] = status[t]
  BY <1>1, <1>2, LifecycleStep DEF PromiseInv
<1>4. Known'
  BY <1>1, <1>3, KnownStep DEF PromiseInv
<1> QED
  BY <1>1, <1>3, <1>4 DEF PromiseInv

LEMMA PromiseInit == Init => PromiseInv
<1>1. Init => OneRunnerPerTask
  BY TasksAssumption DEF Init, OneRunnerPerTask
<1> QED
  BY <1>1, InitType DEF Init, PromiseInv, ResultsFinished, Known

(* Every behaviour of the owner, its agents and its crashes is one the     *)
(* promise allows.                                                         *)
THEOREM KeepsLifecycle == Spec => ImplementsTaskLifecycle
<1>1. Init => PromiseInv /\ Lifecycle!Init
  BY PromiseInit DEF Init, Lifecycle!Init
<1>2. PromiseInv /\ [Next]_vars => PromiseInv'
  BY PromiseStep
<1>3. PromiseInv /\ [Next]_vars => [Lifecycle!Next]_(Lifecycle!vars)
  BY StepImplements
<1> QED
  BY <1>1, <1>2, <1>3, PTL DEF Spec, ImplementsTaskLifecycle, Lifecycle!Spec

(* The promise bounds what is announced: its inductive part, by task.      *)
PromiseKept ==
  /\ Lifecycle!ClosedOnce
  /\ \A t \in Tasks : answers[t] \in Nat /\ status[t] \in Lifecycle!Open \cup Lifecycle!Terminal \cup {"none"}

LEMMA PromiseIsKept == Lifecycle!Spec => []PromiseKept
<1>1. Lifecycle!Init => PromiseKept
  BY DEF Lifecycle!Init, PromiseKept, Lifecycle!ClosedOnce, Lifecycle!Terminal, Lifecycle!Finished
<1>2. PromiseKept /\ [Lifecycle!Next]_(Lifecycle!vars) => PromiseKept'
  <2> SUFFICES ASSUME PromiseKept, Lifecycle!Next PROVE PromiseKept'
    BY DEF PromiseKept, Lifecycle!ClosedOnce, Lifecycle!vars
  <2> SUFFICES ASSUME NEW t \in Tasks
               PROVE  /\ closings'[t] = IF status'[t] \in Lifecycle!Terminal THEN 1 ELSE 0
                      /\ answers'[t] > 0 <=> t \in result'
                      /\ t \in result' => status'[t] \in Lifecycle!Finished
                      /\ answers'[t] \in Nat
                      /\ status'[t] \in Lifecycle!Open \cup Lifecycle!Terminal \cup {"none"}
    BY DEF PromiseKept, Lifecycle!ClosedOnce
  <2> USE DEF PromiseKept, Lifecycle!ClosedOnce, Lifecycle!Terminal, Lifecycle!Finished, Lifecycle!Open, Lifecycle!Keeps
  <2>1. CASE Lifecycle!Moves(t) BY <2>1 DEF Lifecycle!Moves
  <2>2. CASE Lifecycle!Withdraws(t) BY <2>2 DEF Lifecycle!Withdraws
  <2>3. CASE Lifecycle!Finishes(t) BY <2>3 DEF Lifecycle!Finishes
  <2>4. CASE Lifecycle!Stays(t) BY <2>4 DEF Lifecycle!Stays
  <2> QED BY <2>1, <2>2, <2>3, <2>4 DEF Lifecycle!Next
<1> QED BY <1>1, <1>2, PTL DEF Lifecycle!Spec

(* However many runners, lives, agents and orphans work on a task: it is    *)
(* announced as closed once when it is closed, and has answers only then.  *)
THEOREM ClosingIsAnnouncedOnce == Spec => []Lifecycle!ClosedOnce
<1>1. PromiseKept => Lifecycle!ClosedOnce BY DEF PromiseKept
<1> QED BY <1>1, KeepsLifecycle, PromiseIsKept, PTL DEF ImplementsTaskLifecycle

-----------------------------------------------------------------------------
(* Attempts *)

(* While the daemon lives, nothing outlives it.                            *)
LEMMA LifeGoesOn ==
  ASSUME [Next]_vars, ~Restart
  PROVE  UNCHANGED <<restarts, outlived>> /\ orphans' \subseteq orphans /\ dropped \subseteq dropped'
<1> DEFINE Goal == UNCHANGED <<restarts, outlived>> /\ orphans' \subseteq orphans /\ dropped \subseteq dropped'
<1> USE DEF machineVars
<1>1. CASE Dispatcher
  BY <1>1 DEF Dispatcher, OnKnownRequest, OnDeniedRequest, OnNewRequest, OnLateCancel, OnPendingCancel, OnCancel,
     Accept, EnqueueNew, Mark
<1>2. ASSUME NEW s \in Slots, Runner(s) PROVE Goal
  BY <1>2 DEF Runner, Pick, StartClosed, Admit, Count, GiveUp, ClearDraft, Announce, WorktreeReady, WorktreeFails,
     Launch, AgentExits, RunFails, Deliver, ResultUnreadable, UploadFails, LoopEnds, CancelLands
<1>3. ASSUME NEW t \in Tasks, Agent(t) PROVE Goal
  BY <1>3 DEF Agent, Report, Submit, Refuse, OrphanExits
<1>4. CASE Recovery
  BY <1>4 DEF Recovery, RecoverRead, RecoverTask, RecoverEnqueue, RecoverDone
<1>5. CASE Environment
  BY <1>5 DEF Environment, Arrive, KilledBeforeReject, Crash, GracefulStop
<1> QED
  BY <1>1, <1>2, <1>3, <1>4, <1>5 DEF Next, vars

(* Attempts are counted by Count only.                                     *)
LEMMA AttemptsEffect ==
  ASSUME TypeOK, [Next]_vars, attempts' # attempts
  PROVE  \E s \in Slots : Count(s) /\ on[s] \in Tasks
<1>0. RunnerType
  BY TypeParts
<1>1. ASSUME NEW s \in Slots, Runner(s) PROVE Count(s)
  BY <1>1 DEF Runner, Pick, StartClosed, Admit, GiveUp, ClearDraft, Announce, WorktreeReady, WorktreeFails, Launch,
     AgentExits, RunFails, Deliver, ResultUnreadable, UploadFails, LoopEnds, CancelLands, OwnerTransition, Finish, ledgerVars
<1>2. ~Dispatcher /\ ~Recovery /\ ~Environment
  BY DEF Dispatcher, OnKnownRequest, OnDeniedRequest, OnNewRequest, OnLateCancel, OnPendingCancel, OnCancel,
     Accept, EnqueueNew, Mark, Recovery, RecoverRead, RecoverTask, RecoverEnqueue, RecoverDone,
     Environment, Arrive, KilledBeforeReject, Crash, GracefulStop, OwnerTransition, ledgerVars
<1>3. ASSUME NEW t \in Tasks PROVE ~Agent(t)
  BY DEF Agent, Report, Submit, Refuse, OrphanExits, OwnerTransition, ledgerVars
<1>4. PICK s \in Slots : Count(s)
  BY <1>1, <1>2, <1>3 DEF Next, vars, ledgerVars
<1> QED
  BY <1>0, <1>4 DEF Count, RunnerType

(* Agents are started by Launch only.                                      *)
LEMMA LaunchEffect ==
  ASSUME TypeOK, [Next]_vars, launched' # launched
  PROVE  \E s \in Slots : Launch(s) /\ on[s] \in Tasks
<1>0. RunnerType
  BY TypeParts
<1>1. ASSUME NEW s \in Slots, Runner(s) PROVE Launch(s)
  BY <1>1 DEF Runner, Pick, StartClosed, Admit, Count, GiveUp, ClearDraft, Announce, WorktreeReady, WorktreeFails,
     AgentExits, RunFails, Deliver, ResultUnreadable, UploadFails, LoopEnds, CancelLands, machineVars
<1>2. ~Dispatcher /\ ~Recovery /\ ~Environment
  BY DEF Dispatcher, OnKnownRequest, OnDeniedRequest, OnNewRequest, OnLateCancel, OnPendingCancel, OnCancel,
     Accept, EnqueueNew, Mark, Recovery, RecoverRead, RecoverTask, RecoverEnqueue, RecoverDone,
     Environment, Arrive, KilledBeforeReject, Crash, GracefulStop, Restart, machineVars
<1>3. ASSUME NEW t \in Tasks PROVE ~Agent(t)
  BY DEF Agent, Report, Submit, Refuse, OrphanExits, machineVars
<1>4. PICK s \in Slots : Launch(s)
  BY <1>1, <1>2, <1>3 DEF Next, vars, machineVars
<1> QED
  BY <1>0, <1>4 DEF Launch, Undisturbed, RunnerType

(* Places of a runner that has an attempt counted and no agent yet.        *)
Starting == {"counted", "cleared", "worktree", "announcing"}

(* Where runner s stands with a task between _execute's look at it and the *)
(* launch of its agent, it came from the place before.                     *)
LEMMA PlacesStep ==
  ASSUME TypeOK, [Next]_vars, NEW s \in Slots, on'[s] # NoTask, at'[s] # "picked"
  PROVE  /\ on'[s] = on[s]
         /\ at'[s] = "admitted" => at[s] = "admitted" \/ Admit(s)
         /\ at'[s] = "spent" => at[s] = "spent" \/ Count(s)
         /\ at'[s] \in Starting => at[s] \in Starting \/ Count(s)
<1>0. RunnerType
  BY TypeParts
<1> DEFINE Goal == /\ on'[s] = on[s]
                   /\ at'[s] = "admitted" => at[s] = "admitted" \/ Admit(s)
                   /\ at'[s] = "spent" => at[s] = "spent" \/ Count(s)
                   /\ at'[s] \in Starting => at[s] \in Starting \/ Count(s)
<1> USE DEF Starting
<1>1. CASE UNCHANGED <<at, on>>
  BY <1>1
<1>2. ASSUME NEW r \in Slots, Runner(r) PROVE Goal
  <2>1. CASE Release(r)
    BY <1>0, <2>1 DEF Release, RunnerType
  <2>2. CASE \E t \in Tasks : Pick(r, t)
    BY <1>0, <2>2 DEF Pick, RunnerType
  <2>3. CASE Admit(r) \/ Count(r) \/ ClearDraft(r)
    BY <1>0, <2>3 DEF Admit, Count, ClearDraft, MoveTo, RunnerType
  <2>4. CASE WorktreeReady(r) \/ Announce(r) \/ Launch(r)
    BY <1>0, <2>4 DEF WorktreeReady, Announce, Launch, MoveTo, Undisturbed, RunnerType
  <2>5. CASE ResultUnreadable(r) \/ UploadFails(r)
    BY <1>0, <2>5 DEF ResultUnreadable, UploadFails, LoopEnds, RunnerType
  <2>6. CASE AgentExits(r) /\ ~Release(r)
    BY <1>0, <2>6 DEF AgentExits, RunnerType
  <2> QED
    BY <1>2, <2>1, <2>2, <2>3, <2>4, <2>5, <2>6
    DEF Runner, StartClosed, GiveUp, WorktreeFails, AgentExits, RunFails, Deliver, CancelLands
<1>3. CASE Restart
  BY <1>3 DEF Restart
<1>4. ASSUME Dispatcher \/ Recovery \/ (Environment /\ ~Restart) PROVE UNCHANGED <<at, on>>
  BY <1>4 DEF Dispatcher, OnKnownRequest, OnDeniedRequest, OnNewRequest, OnLateCancel, OnPendingCancel, OnCancel,
     Accept, EnqueueNew, Mark, Recovery, RecoverRead, RecoverTask, RecoverEnqueue, RecoverDone, Enqueue,
     Environment, Arrive, KilledBeforeReject, Crash, GracefulStop, runnerVars
<1>5. ASSUME NEW t \in Tasks, Agent(t) PROVE UNCHANGED <<at, on>>
  BY <1>5 DEF Agent, Report, Submit, Refuse, OrphanExits, runnerVars
<1> QED
  BY <1>1, <1>2, <1>3, <1>4, <1>5 DEF Next, vars, runnerVars

(* A runner that found its attempts spent gives the task up, unless it     *)
(* dies first.                                                             *)
LEMMA SpentStep ==
  ASSUME TypeOK, [Next]_vars, NEW s \in Slots, at[s] = "spent", ~(at'[s] = "spent" /\ on'[s] = on[s])
  PROVE  on[s] \in Tasks /\ (status'[on[s]] \in Terminal \/ Restart)
<1>0. LedgerType /\ RunnerType
  BY TypeParts
<1>1. on[s] \in Tasks /\ ~ThreadFree
  BY <1>0 DEF RunnerType, ThreadFree
<1>2. CASE Restart
  BY <1>1, <1>2
<1>3. ~Dispatcher /\ ~Recovery
  BY <1>1 DEF Dispatcher, Recovery
<1>4. ASSUME Environment, ~Restart PROVE FALSE
  BY <1>4 DEF Environment, Arrive, KilledBeforeReject, Crash, GracefulStop, runnerVars
<1>5. ASSUME NEW t \in Tasks PROVE ~Agent(t)
  BY DEF Agent, Report, Submit, Refuse, OrphanExits, runnerVars
<1>6. ASSUME NEW r \in Slots, Runner(r) PROVE status'[on[s]] \in Terminal
  <2>1. Count(r) \/ GiveUp(r) \/ ClearDraft(r) \/ Announce(r)
    BY <1>1, <1>6 DEF Runner
  <2>2. r = s
    BY <1>0, <2>1 DEF Count, GiveUp, ClearDraft, Announce, MoveTo, Release, RunnerType
  <2>3. Transition({on[s]}, "FAILED")
    BY <2>1, <2>2 DEF Count, GiveUp, ClearDraft, Announce, Finish
  <2> QED
    BY <1>0, <1>1, <2>3, TransitionEffect DEF LedgerType, Terminal
<1> QED
  BY <1>1, <1>2, <1>3, <1>4, <1>5, <1>6 DEF Next, vars, runnerVars

(* What is counted is at most one ahead of what is launched while a runner *)
(* is on its way to the launch; and what is counted beyond max_attempts is *)
(* paid for by a death each, and by giving up.                             *)
AttemptsInv ==
  \A t \in Tasks :
    /\ launched[t] <= attempts[t] /\ launched[t] <= MaxAttempts
    /\ attempts[t] <= MaxAttempts + 1 + restarts
    /\ attempts[t] > MaxAttempts + restarts =>
         status[t] \in Terminal \/ \E s \in Slots : on[s] = t /\ at[s] = "spent"
    /\ \A s \in Slots : on[s] = t =>
         /\ at[s] = "admitted" => attempts[t] <= MaxAttempts + restarts
         /\ at[s] \in Starting => launched[t] < attempts[t] /\ attempts[t] <= MaxAttempts

LEMMA AttemptsStep ==
  ASSUME PromiseInv, AttemptsInv, [Next]_vars
  PROVE  AttemptsInv'
<1>0. LedgerType /\ RunnerType /\ OneRunnerPerTask /\ MachineType /\ MachineType' /\ LedgerType' /\ TypeOK
  BY TypeParts, PromiseStep DEF PromiseInv
<1>1. \A t \in Tasks : status[t] \in Terminal => status'[t] \in Terminal
  BY PromiseStep
<1>2. restarts' = restarts \/ (Restart /\ restarts' = restarts + 1 /\ \A s \in Slots : on'[s] = NoTask)
  BY LifeGoesOn DEF Restart
<1> SUFFICES ASSUME NEW t \in Tasks
             PROVE  /\ launched'[t] <= attempts'[t] /\ launched'[t] <= MaxAttempts
                    /\ attempts'[t] <= MaxAttempts + 1 + restarts'
                    /\ attempts'[t] > MaxAttempts + restarts' =>
                         status'[t] \in Terminal \/ \E s \in Slots : on'[s] = t /\ at'[s] = "spent"
                    /\ \A s \in Slots : on'[s] = t =>
                         /\ at'[s] = "admitted" => attempts'[t] <= MaxAttempts + restarts'
                         /\ at'[s] \in Starting => launched'[t] < attempts'[t] /\ attempts'[t] <= MaxAttempts
  BY DEF AttemptsInv
<1>3. /\ attempts[t] \in Nat /\ launched[t] \in Nat /\ restarts \in Nat /\ MaxAttempts \in Nat
      /\ attempts'[t] \in Nat /\ launched'[t] \in Nat /\ restarts' \in Nat /\ t # NoTask
  BY <1>0, BoundsAssumption, TasksAssumption DEF LedgerType, MachineType
<1>4. /\ launched[t] <= attempts[t] /\ launched[t] <= MaxAttempts
      /\ attempts[t] <= MaxAttempts + 1 + restarts
      /\ attempts[t] > MaxAttempts + restarts =>
           status[t] \in Terminal \/ \E s \in Slots : on[s] = t /\ at[s] = "spent"
      /\ \A s \in Slots : on[s] = t =>
           /\ at[s] = "admitted" => attempts[t] <= MaxAttempts + restarts
           /\ at[s] \in Starting => launched[t] < attempts[t] /\ attempts[t] <= MaxAttempts
  BY DEF AttemptsInv
<1>5. \A s, r \in Slots : on[s] = t /\ on[r] = t => s = r
  BY <1>0, <1>3 DEF OneRunnerPerTask
<1>6. CASE attempts'[t] = attempts[t]
  <2>1. \A s \in Slots : Count(s) => on[s] # t
    BY <1>0, <1>3, <1>6 DEF Count, LedgerType
  <2>2. launched'[t] = launched[t] \/ \E s \in Slots : Launch(s) /\ on[s] = t /\ launched'[t] = launched[t] + 1
    <3>1. CASE launched' = launched
      BY <3>1
    <3>2. CASE launched' # launched
      <4>1. PICK s \in Slots : Launch(s) /\ on[s] \in Tasks
        BY <1>0, <3>2, LaunchEffect
      <4> QED
        BY <1>0, <4>1 DEF Launch, MachineType
    <3> QED
      BY <3>1, <3>2
  <2>3. launched'[t] <= attempts'[t] /\ launched'[t] <= MaxAttempts
    BY <1>3, <1>4, <1>6, <2>2 DEF Launch, Undisturbed, Starting
  <2>4. attempts'[t] <= MaxAttempts + 1 + restarts'
    BY <1>2, <1>3, <1>4, <1>6
  <2>5. ASSUME attempts'[t] > MaxAttempts + restarts'
        PROVE  status'[t] \in Terminal \/ \E s \in Slots : on'[s] = t /\ at'[s] = "spent"
    <3>1. attempts[t] > MaxAttempts + restarts /\ ~Restart
      BY <1>2, <1>3, <1>4, <1>6, <2>5 DEF Restart
    <3>2. CASE status[t] \in Terminal
      BY <1>1, <3>2
    <3>3. ASSUME NEW s \in Slots, on[s] = t, at[s] = "spent"
          PROVE  status'[t] \in Terminal \/ (on'[s] = t /\ at'[s] = "spent")
      BY <1>0, <3>1, <3>3, SpentStep
    <3> QED
      BY <1>4, <3>1, <3>2, <3>3
  <2>6. ASSUME NEW s \in Slots, on'[s] = t, at'[s] = "admitted" PROVE attempts'[t] <= MaxAttempts + restarts'
    <3>1. on[s] = t /\ (at[s] = "admitted" \/ Admit(s))
      BY <1>0, <1>3, <2>6, PlacesStep
    <3>2. CASE at[s] = "admitted"
      BY <1>2, <1>3, <1>4, <1>6, <3>1, <3>2
    <3>3. CASE Admit(s)
      <4>1. status[t] \notin Terminal /\ \A r \in Slots : on[r] = t => at[r] # "spent"
        BY <1>5, <3>1, <3>3 DEF Admit, Undisturbed
      <4> QED
        BY <1>2, <1>3, <1>4, <1>6, <4>1
    <3> QED
      BY <3>1, <3>2, <3>3
  <2>7. ASSUME NEW s \in Slots, on'[s] = t, at'[s] \in Starting
        PROVE  launched'[t] < attempts'[t] /\ attempts'[t] <= MaxAttempts
    <3>1. on[s] = t /\ at[s] \in Starting
      <4>1. at'[s] # "picked"
        BY <2>7 DEF Starting
      <4> QED
        BY <1>0, <1>3, <2>1, <2>7, <4>1, PlacesStep
    <3>2. \A r \in Slots : Launch(r) => on[r] # t
      <4>1. Launch(s) => at'[s] = "running"
        BY <1>0 DEF Launch, MoveTo, RunnerType
      <4> QED
        BY <1>5, <2>7, <3>1, <4>1 DEF Starting
    <3> QED
      BY <1>3, <1>4, <1>6, <2>2, <3>1, <3>2
  <2> QED
    BY <2>3, <2>4, <2>5, <2>6, <2>7
<1>7. CASE attempts'[t] # attempts[t]
  <2>1. PICK s \in Slots : Count(s) /\ on[s] \in Tasks
    BY <1>0, <1>7, AttemptsEffect
  <2>2. on[s] = t /\ attempts'[t] = attempts[t] + 1 /\ launched'[t] = launched[t] /\ restarts' = restarts /\ on' = on
    BY <1>0, <1>7, <2>1 DEF Count, LedgerType, MoveTo, machineVars
  <2>3. at[s] = "admitted" /\ at'[s] = (IF attempts[t] >= MaxAttempts THEN "spent" ELSE "counted")
    BY <1>0, <2>1, <2>2 DEF Count, MoveTo, RunnerType
  <2>4. \A r \in Slots : on'[r] = t => r = s
    BY <1>5, <2>2
  <2> QED
    BY <1>3, <1>4, <2>2, <2>3, <2>4 DEF Starting
<1> QED
  BY <1>6, <1>7

(* No agent is started more than max_attempts times for a task.            *)
THEOREM AttemptsAreBounded == Spec => []AttemptsBounded
<1>1. PromiseInv /\ AttemptsInv /\ [Next]_vars => (PromiseInv /\ AttemptsInv)'
  BY PromiseStep, AttemptsStep
<1>2. AttemptsInv => AttemptsBounded
  BY DEF AttemptsInv, AttemptsBounded
<1>3. Init => PromiseInv /\ AttemptsInv
  BY PromiseInit, BoundsAssumption, TasksAssumption DEF Init, AttemptsInv
<1> QED
  BY <1>1, <1>2, <1>3, PTL DEF Spec

-----------------------------------------------------------------------------
(* Tasks in hand *)

(* Who makes a task PENDING, ACCEPTED or RUNNING.                          *)
LEMMA WhoOpens ==
  ASSUME TypeOK, [Next]_vars, NEW t \in Tasks, status'[t] # status[t], status'[t] \in Resumable
  PROVE  \/ \E m \in Messages : TaskOf(m) = t /\ (OnNewRequest(m) \/ KilledBeforeReject(m))
         \/ Accept /\ TaskOf(handling) = t
         \/ \E s \in Slots : on[s] = t /\ Runner(s) /\ Transition({t}, "RUNNING") /\ UNCHANGED <<queued, on>>
         \/ \E s \in Reports : Report(t, s)
         \/ \E s \in Resumable : RecoverTask(t, s) /\ resuming' = t
<1>0. LedgerType /\ RunnerType
  BY TypeParts
<1>1. \A T : Transition(T, "CANCELLED") \/ Transition(T, "FAILED") \/ Transition(T, "COMPLETED") => FALSE
  BY DEF Transition, Terminal, Resumable
<1>2. \A u, s : Transition({u}, s) => u = t
  BY DEF Transition
<1>3. ASSUME NEW m \in Messages,
             OnKnownRequest(m) \/ OnDeniedRequest(m) \/ OnLateCancel(m) \/ OnPendingCancel(m) \/ OnCancel(m)
      PROVE  FALSE
  BY <1>1, <1>3 DEF OnKnownRequest, OnDeniedRequest, OnLateCancel, OnPendingCancel, OnCancel, OwnerTransition, ledgerVars
<1>4. ASSUME NEW m \in Messages, OnNewRequest(m) \/ KilledBeforeReject(m) PROVE TaskOf(m) = t
  BY <1>0, <1>4 DEF OnNewRequest, KilledBeforeReject, LedgerType
<1>5. Accept => TaskOf(handling) = t
  BY <1>2 DEF Accept, OwnerTransition
<1>6. ASSUME NEW s \in Slots, Runner(s)
      PROVE  on[s] = t /\ Transition({t}, "RUNNING") /\ UNCHANGED <<queued, on>>
  <2>1. Announce(s) \/ WorktreeReady(s)
    BY <1>1, <1>6 DEF Runner, Pick, StartClosed, Admit, Count, GiveUp, ClearDraft, WorktreeFails, Launch, AgentExits,
       RunFails, Deliver, ResultUnreadable, UploadFails, LoopEnds, CancelLands, OwnerTransition, Finish, Results, ledgerVars
  <2> QED
    BY <1>2, <2>1 DEF Announce, WorktreeReady, OwnerTransition, MoveTo
<1>7. ASSUME NEW u \in Tasks, Agent(u) PROVE \E s \in Reports : Report(t, s)
  <2>1. \E s \in Reports : Report(u, s)
    BY <1>1, <1>7 DEF Agent, Submit, Refuse, OrphanExits, OwnerTransition, ledgerVars
  <2> QED
    BY <1>2, <2>1 DEF Report, OwnerTransition
<1>8. ASSUME Recovery PROVE \E s \in Resumable : RecoverTask(t, s) /\ resuming' = t
  <2>1. PICK u \in Tasks, s \in Resumable : RecoverTask(u, s)
    BY <1>8 DEF Recovery, RecoverRead, RecoverEnqueue, RecoverDone, ledgerVars
  <2> QED
    BY <1>2, <2>1 DEF RecoverTask, OwnerTransition, ledgerVars
<1>9. ~Crash /\ ~GracefulStop /\ ~EnqueueNew /\ ~Mark /\ \A m \in Messages : ~Arrive(m)
  BY <1>1 DEF Crash, GracefulStop, EnqueueNew, Mark, Arrive, ledgerVars
<1> QED
  BY <1>3, <1>4, <1>5, <1>6, <1>7, <1>8, <1>9 DEF Next, Dispatcher, Environment, vars, ledgerVars

(* WAITING and BLOCKED are what an agent reports.                          *)
LEMMA ReportedOnly ==
  ASSUME [Next]_vars, NEW t \in Tasks, status'[t] # status[t], status'[t] \in {"WAITING", "BLOCKED"},
         status \in [Tasks -> States]
  PROVE  HasProcess(t)
<1>1. \A T, s : s \in Terminal \cup {"PENDING", "ACCEPTED", "RUNNING"} => ~Transition(T, s)
  BY DEF Transition, Terminal
<1>2. \A s : ~ (status' = [status EXCEPT ![s] = "PENDING"])
  OBVIOUS
<1>3. ~Dispatcher
  BY <1>1, <1>2 DEF Dispatcher, OnKnownRequest, OnDeniedRequest, OnNewRequest, OnLateCancel, OnPendingCancel, OnCancel,
     Accept, EnqueueNew, Mark, OwnerTransition, ledgerVars, Terminal
<1>4. ASSUME NEW s \in Slots PROVE ~Runner(s)
  BY <1>1 DEF Runner, Pick, StartClosed, Admit, Count, GiveUp, ClearDraft, Announce, WorktreeReady, WorktreeFails, Launch, AgentExits, RunFails,
     Deliver, ResultUnreadable, UploadFails, LoopEnds, CancelLands, OwnerTransition, Finish, Results, ledgerVars, Terminal
<1>5. ~Recovery
  BY <1>1 DEF Recovery, RecoverRead, RecoverTask, RecoverEnqueue, RecoverDone, OwnerTransition, ledgerVars
<1>6. ~Environment
  BY <1>1, <1>2 DEF Environment, Arrive, KilledBeforeReject, Crash, GracefulStop, ledgerVars, Terminal
<1>7. ASSUME NEW u \in Tasks, Agent(u) PROVE HasProcess(t)
  <2>1. PICK s \in Reports : Report(u, s)
    BY <1>1, <1>7 DEF Agent, Submit, Refuse, OrphanExits, OwnerTransition, ledgerVars, Terminal
  <2>2. u = t
    BY <2>1 DEF Report, OwnerTransition, Transition
  <2> QED
    BY <2>1, <2>2 DEF Report
<1> QED
  BY <1>3, <1>4, <1>5, <1>6, <1>7 DEF Next, vars, ledgerVars

(* Only recover() and a new life touch what is to be recovered.            *)
LEMMA OthersRecover ==
  ASSUME [Next]_vars, ~Recovery
  PROVE  UNCHANGED recoverVars \/ Restart
<1>1. Dispatcher => UNCHANGED recoverVars
  BY DEF Dispatcher, OnKnownRequest, OnDeniedRequest, OnNewRequest, OnLateCancel, OnPendingCancel, OnCancel,
     Accept, EnqueueNew, Mark
<1>2. ASSUME NEW s \in Slots, Runner(s) PROVE UNCHANGED recoverVars
  BY <1>2 DEF Runner, Pick, StartClosed, Admit, Count, GiveUp, ClearDraft, Announce, WorktreeReady, WorktreeFails, Launch, AgentExits, RunFails,
     Deliver, ResultUnreadable, UploadFails, LoopEnds, CancelLands
<1>3. ASSUME NEW t \in Tasks, Agent(t) PROVE UNCHANGED recoverVars
  BY <1>3 DEF Agent, Report, Submit, Refuse, OrphanExits
<1>4. Environment => UNCHANGED recoverVars \/ Restart
  BY DEF Environment, Arrive, KilledBeforeReject, Crash, GracefulStop
<1> QED
  BY <1>1, <1>2, <1>3, <1>4 DEF Next, vars

(* Only the dispatcher and a new life touch the row in its hands.          *)
LEMMA OthersDispatch ==
  ASSUME [Next]_vars, ~Dispatcher
  PROVE  UNCHANGED dispatchVars \/ Restart
<1>1. ASSUME NEW s \in Slots, Runner(s) PROVE UNCHANGED dispatchVars
  BY <1>1 DEF Runner, Pick, StartClosed, Admit, Count, GiveUp, ClearDraft, Announce, WorktreeReady, WorktreeFails, Launch, AgentExits, RunFails,
     Deliver, ResultUnreadable, UploadFails, LoopEnds, CancelLands
<1>2. ASSUME NEW t \in Tasks, Agent(t) PROVE UNCHANGED dispatchVars
  BY <1>2 DEF Agent, Report, Submit, Refuse, OrphanExits
<1>3. Recovery => UNCHANGED dispatchVars
  BY DEF Recovery, RecoverRead, RecoverTask, RecoverEnqueue, RecoverDone
<1>4. Environment => UNCHANGED dispatchVars \/ Restart
  BY DEF Environment, Arrive, KilledBeforeReject, Crash, GracefulStop
<1> QED
  BY <1>1, <1>2, <1>3, <1>4 DEF Next, vars

(* Who queues a task.                                                      *)
LEMMA WhoQueues ==
  ASSUME [Next]_vars, NEW t \in queued', t \notin queued
  PROVE  \/ step = "enqueue" /\ TaskOf(handling) = t
         \/ resuming = t /\ resuming # NoTask
         \/ <<t, "ACCEPTED">> \in snapshot
<1>1. ASSUME NEW s \in Slots PROVE ~Runner(s)
  BY DEF Runner, Pick, StartClosed, Admit, Count, GiveUp, ClearDraft, Announce, WorktreeReady, WorktreeFails, Launch, AgentExits, RunFails, Deliver,
     ResultUnreadable, UploadFails, LoopEnds, CancelLands, Release, MoveTo
<1>2. ASSUME NEW u \in Tasks PROVE ~Agent(u)
  BY DEF Agent, Report, Submit, Refuse, OrphanExits, runnerVars
<1>3. CASE Environment
  BY <1>3 DEF Environment, Arrive, KilledBeforeReject, Crash, GracefulStop, Restart, runnerVars
<1>4. CASE Dispatcher
  BY <1>4 DEF Dispatcher, OnKnownRequest, OnDeniedRequest, OnNewRequest, OnLateCancel, OnPendingCancel, OnCancel,
     Accept, EnqueueNew, Mark, Enqueue, runnerVars
<1>5. CASE Recovery
  BY <1>5 DEF Recovery, RecoverRead, RecoverTask, RecoverEnqueue, RecoverDone, Enqueue, runnerVars
<1> QED
  BY <1>1, <1>2, <1>3, <1>4, <1>5 DEF Next, vars, runnerVars

(* The daemon's first life goes on.                                        *)
LEMMA SameLife ==
  ASSUME TypeOK, [Next]_vars, restarts' = 0
  PROVE  restarts = 0 /\ ~Restart /\ orphans' \subseteq orphans
<1>1. restarts \in Nat
  BY DEF TypeOK
<1>2. ~Restart
  BY <1>1 DEF Restart
<1> QED
  BY <1>2, LifeGoesOn

(* Until the daemon dies once, nothing of a refused task is anywhere.      *)
DeniedInv ==
  /\ step \in {"accept", "enqueue"} => TaskOf(handling) \notin Denied
  /\ restarts = 0 =>
       /\ orphans = {}
       /\ \A t \in Denied :
            /\ status[t] \notin Open /\ t \notin queued /\ resuming # t
            /\ \A s \in Resumable : <<t, s>> \notin snapshot

LEMMA DeniedStep ==
  ASSUME TypeOK, TypeOK', OneRunnerPerTask, DeniedInv, [Next]_vars
  PROVE  DeniedInv'
<1>0. LedgerType /\ LedgerType' /\ RunnerType /\ Denied \subseteq Tasks /\ NoTask \notin Tasks
  BY TypeParts, TasksAssumption
<1>1. step' \in {"accept", "enqueue"} => TaskOf(handling') \notin Denied
  <2>1. CASE Dispatcher
    BY <2>1 DEF Dispatcher, OnKnownRequest, OnDeniedRequest, OnNewRequest, OnLateCancel, OnPendingCancel, OnCancel,
       Accept, EnqueueNew, Mark, Take, DeniedInv
  <2>2. CASE UNCHANGED dispatchVars
    BY <2>2 DEF dispatchVars, DeniedInv
  <2>3. CASE Restart
    BY <2>3 DEF Restart
  <2> QED
    BY <2>1, <2>2, <2>3, OthersDispatch
<1>2. ASSUME restarts' = 0
      PROVE  /\ orphans' = {}
             /\ \A t \in Denied :
                  /\ status'[t] \notin Open /\ t \notin queued' /\ resuming' # t
                  /\ \A s \in Resumable : <<t, s>> \notin snapshot'
  <2>1. restarts = 0 /\ ~Restart /\ orphans' = {}
    BY <1>2, SameLife DEF DeniedInv
  <2>2. ASSUME NEW t \in Denied PROVE t \notin queued'
    BY <2>1, WhoQueues DEF DeniedInv, Resumable
  <2>3. ASSUME NEW t \in Denied PROVE ~HasProcess(t) /\ \A s \in Slots : on[s] # t
    BY <1>0, <2>1 DEF HasProcess, OneRunnerPerTask, DeniedInv
  <2>4. ASSUME NEW t \in Denied PROVE status'[t] \notin Open
    <3>1. CASE status'[t] = status[t]
      BY <2>1, <3>1 DEF DeniedInv
    <3>2. CASE status'[t] # status[t] /\ status'[t] \in Resumable
      <4>1. ~ \E m \in Messages : TaskOf(m) = t /\ (OnNewRequest(m) \/ KilledBeforeReject(m))
        BY <2>1 DEF OnNewRequest, KilledBeforeReject
      <4>2. ~ (Accept /\ TaskOf(handling) = t)
        BY DEF Accept, DeniedInv
      <4>3. ~ (\E s \in Reports : Report(t, s))
        BY <2>3 DEF Report
      <4>4. ~ (\E s \in Resumable : RecoverTask(t, s))
        BY <2>1 DEF RecoverTask, DeniedInv
      <4> QED
        BY <1>0, <2>3, <3>2, <4>1, <4>2, <4>3, <4>4, WhoOpens
    <3>3. CASE status'[t] # status[t] /\ status'[t] \in {"WAITING", "BLOCKED"}
      BY <1>0, <2>1, <2>3, <3>3, ReportedOnly DEF LedgerType
    <3> QED
      BY <3>1, <3>2, <3>3 DEF Open, Resumable
  <2>5. ASSUME NEW t \in Denied
        PROVE  resuming' # t /\ \A s \in Resumable : <<t, s>> \notin snapshot'
    <3>1. CASE Recovery
      <4>1. CASE RecoverRead
        BY <2>1, <4>1 DEF RecoverRead, DeniedInv, Resumable, Open
      <4>2. ASSUME NEW u \in Tasks, NEW s \in Resumable, RecoverTask(u, s)
            PROVE  resuming' \in {resuming, u} /\ <<u, s>> \in snapshot /\ snapshot' \subseteq snapshot
        BY <4>2 DEF RecoverTask
      <4>3. CASE RecoverEnqueue \/ RecoverDone
        BY <1>0, <2>1, <4>3 DEF RecoverEnqueue, RecoverDone, DeniedInv
      <4> QED
        BY <2>1, <3>1, <4>1, <4>2, <4>3 DEF Recovery, DeniedInv
    <3>2. CASE ~Recovery
      <4>1. UNCHANGED <<snapshot, resuming>>
        BY <2>1, <3>2, OthersRecover DEF recoverVars
      <4> QED
        BY <2>1, <4>1 DEF DeniedInv
    <3> QED
      BY <3>1, <3>2
  <2> QED
    BY <2>1, <2>2, <2>4, <2>5
<1> QED
  BY <1>1, <1>2 DEF DeniedInv

(* A refused task is worked on only after a life of the daemon ended in    *)
(* the middle of its REQUEST, and never by way of _accept.                 *)
THEOREM DeniedStaysOut == Spec => []DeniedRunsOnlyAfterDeath
<1> DEFINE Inv == TypeOK /\ OneRunnerPerTask /\ DeniedInv
<1>1. Init => Inv
  BY PromiseInit, TasksAssumption DEF Init, PromiseInv, DeniedInv, Open
<1>2. Inv /\ [Next]_vars => Inv'
  BY TypeStep, OneRunnerStep, DeniedStep
<1>3. Inv => DeniedRunsOnlyAfterDeath
  BY DEF TypeOK, DeniedInv, DeniedRunsOnlyAfterDeath
<1> QED
  BY <1>1, <1>2, <1>3, PTL DEF Spec

(* Who gives up a task in the daemon's hands that is still to be worked    *)
(* on: a new life of the daemon, a cancel that lands outside the run, or a *)
(* runner loop that ends.                                                  *)
LEMMA WhoLetsGo ==
  ASSUME TypeOK, [Next]_vars, ~Restart, NEW t \in Tasks, t \in queued, t \notin queued'
  PROVE  \/ status'[t] \notin Resumable \/ t \in dropped'
         \/ \E s \in Slots : s \in signalled /\ on[s] = t /\ UNCHANGED cancelReq
<1>0. LedgerType /\ RunnerType
  BY TypeParts
<1>1. ~Dispatcher
  BY DEF Dispatcher, OnKnownRequest, OnDeniedRequest, OnNewRequest, OnLateCancel, OnPendingCancel, OnCancel,
     Accept, EnqueueNew, Mark, Enqueue, runnerVars
<1>2. ~Recovery
  BY DEF Recovery, RecoverRead, RecoverTask, RecoverEnqueue, RecoverDone, Enqueue, runnerVars
<1>3. ASSUME NEW u \in Tasks PROVE ~Agent(u)
  BY DEF Agent, Report, Submit, Refuse, OrphanExits, runnerVars
<1>4. ~Environment
  BY DEF Environment, Arrive, KilledBeforeReject, Crash, GracefulStop, runnerVars
<1>5. PICK s \in Slots : Runner(s)
  BY <1>1, <1>2, <1>3, <1>4 DEF Next, vars, runnerVars
<1>6. ASSUME NEW T, NEW r \in Results \cup {"CANCELLED"}, Transition(T, r), t \in T PROVE status'[t] \notin Resumable
  BY <1>6 DEF Transition, Results, Terminal, Resumable
<1>7. ~ \E u \in Tasks : Pick(s, u)
  BY DEF Pick
<1>8. ~Admit(s) /\ ~Count(s) /\ ~ClearDraft(s) /\ ~Announce(s) /\ ~WorktreeReady(s) /\ ~Launch(s)
  BY DEF Admit, Count, ClearDraft, Announce, WorktreeReady, Launch, MoveTo
<1>9. ResultUnreadable(s) \/ UploadFails(s) => t \in dropped'
  BY DEF ResultUnreadable, UploadFails, LoopEnds
<1>10. Release(s) => on[s] = t
  BY DEF Release
<1>11. StartClosed(s) => status'[t] \notin Resumable
  BY <1>10 DEF StartClosed, ledgerVars, Terminal, Resumable
<1>12. GiveUp(s) \/ WorktreeFails(s) \/ RunFails(s) \/ Deliver(s) => status'[t] \notin Resumable
  BY <1>6, <1>10 DEF GiveUp, WorktreeFails, RunFails, Deliver, Finish, Results
<1>13. AgentExits(s) => status'[t] \notin Resumable
  BY <1>6, <1>10 DEF AgentExits, NothingToDeliver, Finish, ledgerVars, Terminal, Resumable
<1>14. CancelLands(s) => status'[t] \notin Resumable \/ (s \in signalled /\ on[s] = t /\ UNCHANGED cancelReq)
  BY <1>6, <1>10 DEF CancelLands, OwnerTransition
<1> QED
  BY <1>5, <1>7, <1>8, <1>9, <1>11, <1>12, <1>13, <1>14 DEF Runner

(* A runner's cancel is on record until it has landed.                     *)
SignalsRecorded == \A s \in signalled : on[s] \in cancelReq

(* A cancel on record goes away only when it closes its task.              *)
LEMMA WhoForgets ==
  ASSUME TypeOK, [Next]_vars, ~Restart
  PROVE  \/ cancelReq \subseteq cancelReq'
         \/ \E s \in Slots : /\ s \in signalled /\ on[s] \in Tasks /\ Release(s)
                             /\ cancelReq' = cancelReq \ {on[s]} /\ status'[on[s]] \in Terminal
<1>0. LedgerType /\ RunnerType
  BY TypeParts
<1>1. Dispatcher => cancelReq \subseteq cancelReq'
  BY DEF Dispatcher, OnKnownRequest, OnDeniedRequest, OnNewRequest, OnLateCancel, OnPendingCancel, OnCancel,
     Accept, EnqueueNew, Mark
<1>2. ASSUME Recovery \/ Environment PROVE UNCHANGED cancelReq
  BY <1>2 DEF Recovery, RecoverRead, RecoverTask, RecoverEnqueue, RecoverDone,
     Environment, Arrive, KilledBeforeReject, Crash, GracefulStop
<1>3. ASSUME NEW t \in Tasks, Agent(t) PROVE UNCHANGED cancelReq
  BY <1>3 DEF Agent, Report, Submit, Refuse, OrphanExits
<1>4. ASSUME NEW s \in Slots, Runner(s), ~CancelLands(s) PROVE UNCHANGED cancelReq
  BY <1>4 DEF Runner, Pick, StartClosed, Admit, Count, GiveUp, ClearDraft, Announce, WorktreeReady, WorktreeFails, Launch, AgentExits, RunFails,
     Deliver, ResultUnreadable, UploadFails, LoopEnds
<1>5. ASSUME NEW s \in Slots, CancelLands(s)
      PROVE  \/ UNCHANGED cancelReq
             \/ /\ s \in signalled /\ on[s] \in Tasks /\ Release(s)
                /\ cancelReq' = cancelReq \ {on[s]} /\ status'[on[s]] \in Terminal
  <2>1. s \in signalled /\ on[s] \in Tasks /\ Release(s)
    BY <1>0, <1>5 DEF CancelLands, RunnerType
  <2>2. Transition({on[s]}, "CANCELLED") => status'[on[s]] \in Terminal
    BY <2>1 DEF Transition, Terminal
  <2> QED
    BY <1>5, <2>1, <2>2 DEF CancelLands, OwnerTransition
<1> QED
  BY <1>1, <1>2, <1>3, <1>4, <1>5 DEF Next, vars

(* Which runners are cancelled, and on what.                               *)
LEMMA WhoSignals ==
  ASSUME TypeOK, [Next]_vars, ~Restart, NEW s \in signalled'
  PROVE  on'[s] = on[s] /\ (s \in signalled \/ on[s] \in cancelReq')
<1>0. RunnerType /\ s \in Slots /\ (s \in signalled => on[s] # NoTask /\ at[s] # "idle")
  <2>1. RunnerType /\ RunnerType'
    BY TypeParts, TypeStep
  <2> QED
    BY <2>1 DEF RunnerType
<1> DEFINE Same == UNCHANGED <<on, signalled>>
<1>1. ASSUME Dispatcher PROVE Same \/ \E m \in Messages : OnCancel(m)
  BY <1>1 DEF Dispatcher, OnKnownRequest, OnDeniedRequest, OnNewRequest, OnLateCancel, OnPendingCancel,
     Accept, EnqueueNew, Mark, Enqueue, runnerVars
<1>2. ASSUME NEW m \in Messages, OnCancel(m) PROVE on'[s] = on[s] /\ (s \in signalled \/ on[s] \in cancelReq')
  BY <1>0, <1>2 DEF OnCancel
<1>3. ASSUME Recovery \/ Environment PROVE Same
  BY <1>3 DEF Recovery, RecoverRead, RecoverTask, RecoverEnqueue, RecoverDone, Enqueue,
     Environment, Arrive, KilledBeforeReject, Crash, GracefulStop, runnerVars
<1>4. ASSUME NEW t \in Tasks, Agent(t) PROVE Same
  BY <1>4 DEF Agent, Report, Submit, Refuse, OrphanExits, runnerVars
<1>5. ASSUME NEW r \in Slots, Runner(r) PROVE on'[s] = on[s] /\ s \in signalled
  <2>1. CASE Release(r)
    BY <1>0, <2>1 DEF Release, RunnerType
  <2>2. CASE \E t \in Tasks : Pick(r, t)
    BY <1>0, <2>2 DEF Pick, RunnerType
  <2>3. CASE Admit(r) \/ Count(r) \/ ClearDraft(r) \/ Announce(r) \/ WorktreeReady(r) \/ Launch(r)
    BY <2>3 DEF Admit, Count, ClearDraft, Announce, WorktreeReady, Launch, MoveTo
  <2>4. CASE LoopEnds(r)
    BY <1>0, <2>4 DEF LoopEnds, RunnerType
  <2>5. CASE AgentExits(r) /\ ~Release(r)
    BY <2>5 DEF AgentExits
  <2> QED
    BY <1>5, <2>1, <2>2, <2>3, <2>4, <2>5
    DEF Runner, StartClosed, GiveUp, WorktreeFails, RunFails, Deliver, ResultUnreadable, UploadFails, CancelLands
<1> QED
  BY <1>0, <1>1, <1>2, <1>3, <1>4, <1>5 DEF Next, vars, runnerVars

HandInv == SignalsRecorded /\ (orphans \subseteq outlived) /\ OpenTaskIsInHand

LEMMA SignalsStep ==
  ASSUME TypeOK, TypeOK', OneRunnerPerTask, OneRunnerPerTask', SignalsRecorded, [Next]_vars
  PROVE  SignalsRecorded'
<1>0. RunnerType /\ RunnerType'
  BY TypeParts
<1>2. ASSUME ~Restart, NEW s \in signalled' PROVE on'[s] \in cancelReq'
  <2>1. on'[s] = on[s] /\ (s \in signalled \/ on[s] \in cancelReq') /\ s \in Slots /\ on'[s] # NoTask
    BY <1>0, <1>2, WhoSignals DEF RunnerType
  <2>2. CASE cancelReq \subseteq cancelReq'
    BY <2>1, <2>2 DEF SignalsRecorded
  <2>3. CASE \E r \in Slots : /\ r \in signalled /\ on[r] \in Tasks /\ Release(r)
                              /\ cancelReq' = cancelReq \ {on[r]} /\ status'[on[r]] \in Terminal
    <3>1. PICK r \in Slots : Release(r) /\ cancelReq' = cancelReq \ {on[r]}
      BY <2>3
    <3>2. s # r
      BY <1>2, <3>1 DEF Release
    <3>3. on[s] # on[r]
      BY <2>1, <3>2 DEF OneRunnerPerTask
    <3> QED
      BY <2>1, <3>1, <3>3 DEF SignalsRecorded
  <2> QED
    BY <1>2, <2>2, <2>3, WhoForgets
<1>3. Restart => signalled' = {}
  BY DEF Restart
<1> QED
  BY <1>2, <1>3 DEF SignalsRecorded

(* Left-over processes are known from the start of a life.                 *)
LEMMA OrphansStep ==
  ASSUME [Next]_vars, orphans \subseteq outlived
  PROVE  orphans' \subseteq outlived'
BY LifeGoesOn DEF Restart

(* What has a task in hand passes it on, as long as it is still to be done.*)
LEMMA HandStep ==
  ASSUME TypeOK, TypeOK', OneRunnerPerTask, HandInv, [Next]_vars
  PROVE  OpenTaskIsInHand'
<1>0. LedgerType /\ LedgerType' /\ DispatchType /\ RunnerType /\ RecoverType
  BY TypeParts
<1>1. Restart => OpenTaskIsInHand'
  BY DEF Restart, OpenTaskIsInHand, InHand
<1> SUFFICES ASSUME ~Restart, NEW t \in Tasks, status'[t] \in Resumable
             PROVE  InHand(t)' \/ t \in cancelReq' \cup dropped' \cup outlived'
  BY <1>1 DEF OpenTaskIsInHand
<1>2. CASE status'[t] # status[t]
  <2>1. ASSUME NEW m \in Messages, TaskOf(m) = t, OnNewRequest(m) PROVE InHand(t)'
    BY <2>1 DEF OnNewRequest, Take, InHand
  <2>2. ASSUME Accept, TaskOf(handling) = t PROVE InHand(t)'
    BY <2>2 DEF Accept, InHand
  <2>3. ASSUME NEW s \in Slots, on[s] = t, UNCHANGED queued PROVE InHand(t)'
    BY <2>3, TasksAssumption DEF OneRunnerPerTask, InHand
  <2>4. ASSUME NEW s \in Reports, Report(t, s) PROVE InHand(t)' \/ t \in outlived'
    <3>1. CASE t \in orphans
      BY <3>1, LifeGoesOn DEF HandInv
    <3>2. ASSUME NEW r \in Slots, on[r] = t PROVE InHand(t)'
      BY <2>3, <2>4, <3>2 DEF Report, runnerVars
    <3> QED
      BY <2>4, <3>1, <3>2 DEF Report, HasProcess
  <2>5. ASSUME resuming' = t PROVE InHand(t)'
    BY <2>5 DEF InHand
  <2>6. ~ \E m \in Messages : KilledBeforeReject(m)
    BY DEF KilledBeforeReject
  <2> QED
    BY <1>2, <2>1, <2>2, <2>3, <2>4, <2>5, <2>6, WhoOpens
<1>3. CASE status'[t] = status[t]
  <2>0. InHand(t) \/ t \in cancelReq \/ t \in dropped \cup outlived
    BY <1>3 DEF HandInv, OpenTaskIsInHand
  <2>1. CASE t \in queued
    <3>1. CASE t \in queued'
      BY <3>1 DEF InHand
    <3>2. CASE t \notin queued'
      BY <2>1, <3>2, WhoLetsGo DEF HandInv, SignalsRecorded
    <3> QED
      BY <3>1, <3>2
  <2>2. CASE t \in cancelReq
    BY <2>2, WhoForgets DEF Terminal, Resumable
  <2>3. CASE recovery = "boot" \/ resuming = t \/ \E s \in Resumable : <<t, s>> \in snapshot
    <3>1. CASE Recovery
      <4>1. CASE RecoverRead
        BY <1>3, <4>1 DEF RecoverRead, InHand
      <4>2. ASSUME NEW u \in Tasks, NEW s \in Resumable, RecoverTask(u, s) PROVE InHand(t)'
        BY <2>3, <4>2, TasksAssumption DEF RecoverTask, Enqueue, InHand
      <4>3. CASE RecoverEnqueue
        BY <2>3, <4>3 DEF RecoverEnqueue, Enqueue, InHand
      <4>4. CASE RecoverDone
        BY <2>3, <4>4, TasksAssumption DEF RecoverDone, InHand
      <4> QED
        BY <3>1, <4>1, <4>2, <4>3, <4>4 DEF Recovery
    <3>2. CASE ~Recovery
      BY <2>3, <3>2, OthersRecover DEF recoverVars, InHand
    <3> QED
      BY <3>1, <3>2
  <2>4. CASE step \in {"accept", "enqueue"} /\ TaskOf(handling) = t
    <3>1. CASE Dispatcher
      BY <2>4, <3>1 DEF Dispatcher, OnKnownRequest, OnDeniedRequest, OnNewRequest, OnLateCancel, OnPendingCancel,
         OnCancel, Accept, EnqueueNew, Mark, Take, Enqueue, InHand
    <3>2. CASE ~Dispatcher
      BY <2>4, <3>2, OthersDispatch DEF dispatchVars, InHand
    <3> QED
      BY <3>1, <3>2
  <2>5. CASE t \in dropped \cup outlived
    BY <2>5, LifeGoesOn
  <2> QED
    BY <2>0, <2>1, <2>2, <2>3, <2>4, <2>5 DEF InHand
<1> QED
  BY <1>2, <1>3

(* A task that is still to be done is in somebody's hands, unless, in this *)
(* life of the daemon, its cancel was requested, a runner loop ended with  *)
(* it, or a process of an earlier life was at it.                          *)
THEOREM OpenTasksAreInHand == Spec => []OpenTaskIsInHand
<1> DEFINE Inv == TypeOK /\ OneRunnerPerTask /\ HandInv
<1>1. Init => Inv
  BY PromiseInit DEF Init, PromiseInv, HandInv, SignalsRecorded, OpenTaskIsInHand, Resumable
<1>2. Inv /\ [Next]_vars => Inv'
  BY TypeStep, OneRunnerStep, SignalsStep, OrphansStep, HandStep DEF HandInv
<1>3. Inv => OpenTaskIsInHand
  BY DEF HandInv
<1> QED
  BY <1>1, <1>2, <1>3, PTL DEF Spec

-----------------------------------------------------------------------------
(* Closed tasks are not executed *)

Unaccepted == {"none", "PENDING"}

(* What a runner is given, or will be, has been accepted.                  *)
Accepted ==
  /\ \A t \in queued : status[t] \notin Unaccepted
  /\ step = "enqueue" => status[TaskOf(handling)] \notin Unaccepted
  /\ \A t \in Tasks : <<t, "ACCEPTED">> \in snapshot => status[t] \notin Unaccepted
  /\ resuming # NoTask => status[resuming] \notin Unaccepted

(* Nothing makes a task PENDING again.                                     *)
LEMMA StaysAccepted ==
  ASSUME PromiseInv, [Next]_vars, NEW t \in Tasks, status[t] \notin Unaccepted
  PROVE  status'[t] \notin Unaccepted
<1>0. TypeOK /\ LedgerType /\ status'[t] # "none"
  BY PromiseStep, TypeParts DEF PromiseInv, Unaccepted
<1>1. SUFFICES ASSUME status'[t] = "PENDING", status'[t] # status[t] PROVE FALSE
  BY <1>0 DEF Unaccepted
<1>2. ~ \E m \in Messages : TaskOf(m) = t /\ (OnNewRequest(m) \/ KilledBeforeReject(m))
  BY DEF OnNewRequest, KilledBeforeReject, Unaccepted
<1>3. \A T, s : Transition(T, s) => s = "PENDING"
  BY <1>1 DEF Transition
<1>4. ~Accept /\ ~Transition({t}, "RUNNING") /\ \A s \in Reports : ~Report(t, s)
  BY <1>3, BoundsAssumption DEF Accept, Report, OwnerTransition
<1>5. \A s \in Resumable : ~RecoverTask(t, s)
  BY <1>1, <1>3 DEF RecoverTask, OwnerTransition, ledgerVars
<1> QED
  BY <1>0, <1>1, <1>2, <1>4, <1>5, WhoOpens DEF Resumable

LEMMA AcceptedStep ==
  ASSUME PromiseInv, Accepted, [Next]_vars
  PROVE  Accepted'
<1>0. LedgerType /\ DispatchType /\ RunnerType /\ RecoverType
  BY TypeParts DEF PromiseInv
<1>1. \A t \in Tasks : status[t] \notin Unaccepted => status'[t] \notin Unaccepted
  BY StaysAccepted
<1>2. ASSUME NEW t \in Tasks, OwnerTransition(t, "ACCEPTED") PROVE status'[t] \notin Unaccepted
  BY <1>0, <1>2 DEF OwnerTransition, Transition, Terminal, Unaccepted
<1>3. TaskOf(handling) \in Tasks \/ step = "next"
  BY <1>0, MessageTask DEF DispatchType
<1>4. ASSUME NEW t \in queued' PROVE status'[t] \notin Unaccepted
  <2>1. t \in Tasks
    BY TypeParts, PromiseStep DEF PromiseInv, RunnerType
  <2> QED
    BY <1>1, <2>1, WhoQueues DEF Accepted
<1>5. ASSUME step' = "enqueue" PROVE status'[TaskOf(handling')] \notin Unaccepted
  <2>1. CASE Dispatcher
    <3>1. Accept
      BY <1>5, <2>1 DEF Dispatcher, OnKnownRequest, OnDeniedRequest, OnNewRequest, OnLateCancel, OnPendingCancel,
         OnCancel, EnqueueNew, Mark
    <3> QED
      BY <1>2, <1>3, <3>1 DEF Accept
  <2>2. CASE ~Dispatcher
    <3>1. UNCHANGED <<handling, step>>
      BY <1>5, <2>2, OthersDispatch DEF dispatchVars, Restart
    <3> QED
      BY <1>1, <1>3, <1>5, <3>1 DEF Accepted
  <2> QED
    BY <2>1, <2>2
<1>6. /\ \A t \in Tasks : <<t, "ACCEPTED">> \in snapshot' => status'[t] \notin Unaccepted
      /\ resuming' # NoTask => status'[resuming'] \notin Unaccepted
  <2>1. CASE UNCHANGED recoverVars
    BY <1>0, <1>1, <2>1 DEF recoverVars, Accepted, RecoverType
  <2>2. CASE Restart
    BY <2>2 DEF Restart
  <2>3. CASE RecoverRead
    <3>1. UNCHANGED <<status, resuming>> /\ snapshot' = {<<t, status[t]>> : t \in {u \in Tasks : status[u] \in Resumable}}
      BY <2>3 DEF RecoverRead, ledgerVars
    <3> QED
      BY <3>1 DEF Accepted, Unaccepted
  <2>4. ASSUME NEW t \in Tasks, NEW s \in Resumable, RecoverTask(t, s)
        PROVE  /\ \A u \in Tasks : <<u, "ACCEPTED">> \in snapshot' => status'[u] \notin Unaccepted
               /\ resuming' # NoTask => status'[resuming'] \notin Unaccepted
    BY <1>1, <1>2, <2>4 DEF RecoverTask, Accepted
  <2>5. CASE RecoverEnqueue \/ RecoverDone
    BY <1>0, <1>1, <2>5 DEF RecoverEnqueue, RecoverDone, Accepted, RecoverType
  <2> QED
    BY <2>1, <2>2, <2>3, <2>4, <2>5, OthersRecover DEF Recovery
<1> QED
  BY <1>4, <1>5, <1>6 DEF Accepted

(* Who closes a task while the daemon lives.                               *)
LEMMA WhoCloses ==
  ASSUME TypeOK, [Next]_vars, ~Restart, NEW t \in Tasks, status[t] \notin Terminal, status'[t] \in Terminal
  PROVE  \/ \E m \in Messages : TaskOf(m) = t /\ (OnDeniedRequest(m) \/ OnPendingCancel(m))
         \/ \A s \in Slots : on[s] # t
         \/ \E s \in Slots : on[s] = t /\ Release(s)
         \/ Refuse(t)
<1>0. LedgerType /\ RunnerType
  BY TypeParts
<1>1. \A T, s : Transition(T, s) => t \in T /\ s \in Terminal
  BY DEF Transition
<1>2. \A s : s \in Open => ~Transition({t}, s)
  BY <1>1 DEF Open, Terminal
<1>3. ASSUME NEW m \in Messages, OnNewRequest(m) PROVE FALSE
  BY <1>0, <1>3 DEF OnNewRequest, LedgerType, Terminal
<1>4. ~Accept /\ ~EnqueueNew /\ ~Mark /\ \A m \in Messages : ~OnKnownRequest(m) /\ ~OnLateCancel(m)
  BY <1>1 DEF Accept, EnqueueNew, Mark, OnKnownRequest, OnLateCancel, OwnerTransition, ledgerVars, Terminal
<1>5. ASSUME NEW m \in Messages, OnDeniedRequest(m) \/ OnPendingCancel(m) PROVE TaskOf(m) = t
  BY <1>1, <1>5 DEF OnDeniedRequest, OnPendingCancel, OwnerTransition
<1>6. ASSUME NEW m \in Messages, OnCancel(m) PROVE \A s \in Slots : on[s] # t
  BY <1>1, <1>6 DEF OnCancel, OwnerTransition, ledgerVars
<1>7. ~Recovery
  <2>1. ASSUME NEW u \in Tasks, NEW s \in Resumable PROVE ~RecoverTask(u, s)
    <3>1. ~Transition({u}, "ACCEPTED")
      BY <1>1 DEF Terminal
    <3> QED
      BY <3>1 DEF RecoverTask, OwnerTransition, ledgerVars
  <2> QED
    BY <2>1 DEF Recovery, RecoverRead, RecoverEnqueue, RecoverDone, ledgerVars
<1>8. ~Environment
  BY DEF Environment, Arrive, KilledBeforeReject, Crash, GracefulStop
<1>9. ASSUME NEW u \in Tasks, Agent(u) PROVE Refuse(t)
  <2>1. \A s \in Reports : ~Report(u, s)
    BY <1>1, BoundsAssumption DEF Report, OwnerTransition, Terminal
  <2>2. Refuse(u) => u = t
    BY <1>1 DEF Refuse, OwnerTransition
  <2> QED
    BY <1>9, <2>1, <2>2 DEF Agent, Submit, OrphanExits, ledgerVars
<1>10. ASSUME NEW s \in Slots, Runner(s) PROVE on[s] = t /\ Release(s)
  <2>1. ~Admit(s) /\ ~Count(s) /\ ~ClearDraft(s) /\ ~Launch(s) /\ ~StartClosed(s) /\ \A u \in Tasks : ~Pick(s, u)
    BY DEF Admit, Count, ClearDraft, Launch, StartClosed, Pick, ledgerVars
  <2>2. ~Announce(s) /\ ~WorktreeReady(s) /\ ~ResultUnreadable(s) /\ ~UploadFails(s)
    BY <1>1 DEF Announce, WorktreeReady, ResultUnreadable, UploadFails, LoopEnds, OwnerTransition, ledgerVars, Terminal
  <2>3. GiveUp(s) \/ WorktreeFails(s) \/ RunFails(s) \/ Deliver(s) => on[s] = t /\ Release(s)
    BY <1>1 DEF GiveUp, WorktreeFails, RunFails, Deliver, Finish
  <2>4. AgentExits(s) => on[s] = t /\ Release(s)
    BY <1>1 DEF AgentExits, Finish, ledgerVars
  <2>5. CancelLands(s) => on[s] = t /\ Release(s)
    BY <1>1 DEF CancelLands, OwnerTransition, ledgerVars
  <2> QED
    BY <1>10, <2>1, <2>2, <2>3, <2>4, <2>5 DEF Runner
<1> QED
  BY <1>3, <1>4, <1>5, <1>6, <1>7, <1>8, <1>9, <1>10 DEF Next, Dispatcher, vars, ledgerVars

(* From _execute's look at the task to the launch of its agent, the task   *)
(* is open, or a process of an earlier life has closed it.                 *)
StartedOpen ==
  \A s \in Slots : at[s] \in {"admitted"} \cup Starting /\ status[on[s]] \in Terminal => on[s] \in outlived

LEMMA StartedStep ==
  ASSUME PromiseInv, Accepted, StartedOpen, orphans \subseteq outlived, [Next]_vars
  PROVE  StartedOpen'
<1>0. TypeOK /\ LedgerType /\ RunnerType /\ RunnerType' /\ OneRunnerPerTask
  BY PromiseStep, TypeParts DEF PromiseInv
<1> SUFFICES ASSUME NEW s \in Slots, at'[s] \in {"admitted"} \cup Starting, status'[on'[s]] \in Terminal
             PROVE  on'[s] \in outlived'
  BY DEF StartedOpen
<1> DEFINE t == on[s]
<1>1. ~Restart
  BY DEF Restart, Starting
<1>2. UNCHANGED outlived
  BY <1>1, LifeGoesOn
<1>3. on'[s] # NoTask /\ at'[s] # "picked"
  BY <1>0 DEF RunnerType, Starting
<1>4. on'[s] = t /\ t \in Tasks /\ t # NoTask
  BY <1>0, <1>3, PlacesStep, TasksAssumption DEF RunnerType
<1>5. CASE Admit(s)
  BY <1>4, <1>5 DEF Admit, ledgerVars, Undisturbed
<1>6. CASE ~Admit(s)
  <2>1. at[s] \in {"admitted"} \cup Starting
    BY <1>0, <1>3, <1>6, PlacesStep DEF Count
  <2>2. CASE status[t] \in Terminal
    BY <1>2, <1>4, <2>1, <2>2 DEF StartedOpen
  <2>3. CASE status[t] \notin Terminal
    <3>1. t \in queued
      BY <1>0, <1>4 DEF OneRunnerPerTask
    <3>2. ~ \E m \in Messages : TaskOf(m) = t /\ (OnDeniedRequest(m) \/ OnPendingCancel(m))
      BY <3>1 DEF OnDeniedRequest, OnPendingCancel, Accepted, Unaccepted
    <3>3. \A r \in Slots : on[r] = t => r = s
      BY <1>0, <1>4 DEF OneRunnerPerTask
    <3>4. ~Release(s)
      BY <1>0, <1>3 DEF Release, RunnerType
    <3>5. Refuse(t) => t \in orphans
      BY <2>1, <3>3 DEF Refuse, HasProcess, Starting
    <3> QED
      BY <1>0, <1>1, <1>2, <1>4, <2>3, <3>2, <3>3, <3>4, <3>5, WhoCloses
  <2> QED
    BY <2>2, <2>3
<1> QED
  BY <1>5, <1>6

(* No agent is started on a closed task, but on one that a process of an   *)
(* earlier life closed since.                                              *)
THEOREM ClosedIsNotStarted == Spec => NoReexecution
<1> DEFINE Inv == PromiseInv /\ Accepted /\ StartedOpen /\ orphans \subseteq outlived
<1>1. Init => Inv
  BY PromiseInit, TasksAssumption DEF Init, Accepted, StartedOpen, Starting
<1>2. Inv /\ [Next]_vars => Inv'
  BY PromiseStep, AcceptedStep, StartedStep, OrphansStep
<1>3. Inv /\ [Next]_vars => [LaunchesOpen]_vars
  BY DEF StartedOpen, Starting, LaunchesOpen
<1> QED
  BY <1>1, <1>2, <1>3, PTL DEF Spec, NoReexecution
=============================================================================
