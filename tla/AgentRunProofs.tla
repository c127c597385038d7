--------------------------- MODULE AgentRunProofs ---------------------------
(* Proofs about AgentRun, for any tasks, CANCELs and versions of Python. *)
EXTENDS AgentRun, TLAPS

(***************************************************************************)
(* Types                                                                   *)
(***************************************************************************)

LEMMA InitTypeOK == Init => TypeOK
<1> SUFFICES ASSUME Init PROVE TypeOK OBVIOUS
<1> USE DEF Init
<1>1. exec \in [Tasks -> {"none", "waiting", "killing", "done"}] /\ breaks \in [Tasks -> Nat] OBVIOUS
<1>2. run \in [Tasks -> {"none", "io", "term", "kill"} \cup Ends] OBVIOUS
<1>3. leader \in [Tasks -> {"none", "alive", "exited", "reaped"}] /\ child \in [Tasks -> {"none", "alive", "gone"}]
  OBVIOUS
<1>4. outcome \in [Tasks -> {"open"} \cup Outcomes] OBVIOUS
<1> QED BY <1>1, <1>2, <1>3, <1>4 DEF TypeOK

LEMMA VerdictType ==
  ASSUME NEW t \in Tasks, NEW end \in Ends
  PROVE  Verdict(t, end) \in Outcomes
BY DEF Verdict, Ends, Outcomes

LEMMA ConcludeType ==
  ASSUME TypeOK, NEW t \in Tasks, NEW how \in Outcomes, Conclude(t, how)
  PROVE  /\ exec' \in [Tasks -> {"none", "waiting", "killing", "done"}]
         /\ execCancel' \subseteq Tasks /\ cancelReq' \subseteq Tasks
         /\ outcome' \in [Tasks -> {"open"} \cup Outcomes]
BY DEF TypeOK, Conclude

LEMMA EndType ==
  ASSUME TypeOK, NEW t \in Tasks, NEW how \in Ends, End(t, how)
  PROVE  /\ exec' \in [Tasks -> {"none", "waiting", "killing", "done"}]
         /\ execCancel' \subseteq Tasks /\ cancelReq' \subseteq Tasks
         /\ cancelled' \subseteq Tasks /\ expired' \subseteq Tasks
         /\ outcome' \in [Tasks -> {"open"} \cup Outcomes]
         /\ run' \in [Tasks -> {"none", "io", "term", "kill"} \cup Ends] /\ runCancel' \subseteq Tasks
<1>1. run' \in [Tasks -> {"none", "io", "term", "kill"} \cup Ends] /\ runCancel' \subseteq Tasks
  BY DEF End, TypeOK
<1>2. CASE Inline
  <2>1. Verdict(t, how) \in Outcomes BY VerdictType
  <2>2. Conclude(t, Verdict(t, how)) /\ UNCHANGED <<cancelled, expired>> BY <1>2 DEF End
  <2> QED BY <1>1, <2>1, <2>2, ConcludeType DEF TypeOK
<1>3. CASE ~Inline BY <1>1, <1>3 DEF End, TypeOK, execVars
<1> QED BY <1>2, <1>3

LEMMA CancelExecType ==
  ASSUME TypeOK, NEW t \in Tasks, CancelExec(t)
  PROVE  /\ exec' \in [Tasks -> {"none", "waiting", "killing", "done"}]
         /\ execCancel' \subseteq Tasks /\ cancelled' \subseteq Tasks /\ runCancel' \subseteq Tasks
         /\ breaks' \in [Tasks -> Nat]
BY DEF TypeOK, CancelExec, BreakOff

LEMMA StepTypeOK == TypeOK /\ [Next]_vars => TypeOK'
<1> SUFFICES ASSUME TypeOK, [Next]_vars PROVE TypeOK' OBVIOUS
<1> USE DEF runnerVars, execVars, osVars
<1>a. "returned" \in Ends /\ "raised" \in Ends /\ "cancelled" \in Ends BY DEF Ends
<1>1. ASSUME NEW t \in Tasks, Exec(t) PROVE TypeOK'
  <2>1. CASE ExecReturns(t)
    <3>1. Verdict(t, run[t]) \in Outcomes BY <2>1, VerdictType DEF ExecReturns
    <3> QED BY <2>1, <3>1, ConcludeType DEF ExecReturns, TypeOK
  <2>2. CASE Deadline(t) BY <2>2 DEF Deadline, TypeOK, BreakOff
  <2>3. CASE ExecCancelled(t) BY <2>3 DEF ExecCancelled, TypeOK
  <2>4. CASE ExecKilled(t)
    <3>1. Verdict(t, "cancelled") \in Outcomes BY <1>a, VerdictType
    <3> QED BY <2>4, <3>1, ConcludeType DEF ExecKilled, TypeOK
  <2>5. CASE ExecInterrupted(t)
    <3>1. "cancelled" \in Outcomes BY DEF Outcomes
    <3> QED BY <2>5, <3>1, ConcludeType DEF ExecInterrupted, TypeOK
  <2> QED BY <1>1, <2>1, <2>2, <2>3, <2>4, <2>5 DEF Exec
<1>2. ASSUME NEW t \in Tasks, RunReturns(t) PROVE TypeOK'
  BY <1>2, <1>a, EndType DEF RunReturns, TypeOK
<1>3. ASSUME NEW t \in Tasks, RunBreaks(t) PROVE TypeOK'
  <2>1. breaks' \in [Tasks -> Nat] BY <1>3 DEF RunBreaks, TypeOK, BreakOff
  <2>2. ASSUME NEW how \in Ends, End(t, how) PROVE TypeOK' BY <1>3, <2>1, <2>2, EndType DEF RunBreaks, TypeOK
  <2>3. CASE /\ run' = [run EXCEPT ![t] = "term"] /\ runCancel' = runCancel \ {t} /\ UNCHANGED execVars
    BY <1>3, <2>1, <2>3 DEF RunBreaks, TypeOK
  <2> QED BY <1>3, <1>a, <2>2, <2>3 DEF RunBreaks
<1>4. ASSUME NEW t \in Tasks, KillGroup(t) PROVE TypeOK'
  <2>1. ASSUME Reraise(t) PROVE \E how \in Ends : End(t, how) BY <2>1, <1>a DEF Reraise
  <2>2. CASE KillDone(t) BY <2>1, <2>2, EndType DEF KillDone, TypeOK
  <2>3. CASE Escalate(t) BY <2>1, <2>3, EndType DEF Escalate, TypeOK
  <2>4. CASE KillGivesUp(t) BY <2>1, <2>4, EndType DEF KillGivesUp, TypeOK
  <2>5. CASE KillInterrupted(t) BY <1>a, <2>5, EndType DEF KillInterrupted, TypeOK
  <2> QED BY <1>4, <2>2, <2>3, <2>4, <2>5 DEF KillGroup
<1>5. ASSUME NEW t \in Tasks, Fork(t) \/ LeaderExits(t) \/ ChildExits(t) \/ Reap(t) PROVE TypeOK'
  BY <1>5 DEF Fork, LeaderExits, ChildExits, Reap, TypeOK
<1>6. ASSUME NEW t \in Tasks, OnCancel(t) PROVE TypeOK'
  <2>1. CASE cur = t BY <1>6, <2>1, CancelExecType DEF OnCancel, TypeOK
  <2>2. CASE cur # t
    <3>1. "cancelled" \in Outcomes BY DEF Outcomes
    <3> QED BY <1>6, <2>2, <3>1 DEF OnCancel, TypeOK
  <2> QED BY <2>1, <2>2
<1>7. CASE Runner
  <2>1. ASSUME NEW t \in Tasks, Take(t) PROVE TypeOK' BY <2>1, TasksAssumption DEF Take, TypeOK
  <2>2. ASSUME NEW t \in Tasks, LaunchFails(t) PROVE TypeOK'
    <3>1. "failed" \in Outcomes BY DEF Outcomes
    <3> QED BY <2>2, <3>1, ConcludeType, TasksAssumption DEF LaunchFails, TypeOK
  <2>3. CASE RunnerGoesOn BY <2>3 DEF RunnerGoesOn, TypeOK
  <2>4. CASE RunnerCancelled
    <3>1. cur \in Tasks BY <2>4 DEF RunnerCancelled, TypeOK
    <3> QED BY <2>4, <3>1, CancelExecType DEF RunnerCancelled, TypeOK
  <2>5. CASE RunnerEnds BY <2>5 DEF RunnerEnds, TypeOK
  <2> QED BY <1>7, <2>1, <2>2, <2>3, <2>4, <2>5 DEF Runner
<1>8. CASE Stop BY <1>8 DEF Stop, TypeOK
<1>9. CASE StopReturns BY <1>9 DEF StopReturns, TypeOK
<1>10. CASE UNCHANGED vars BY <1>10 DEF vars, TypeOK
<1> QED BY <1>1, <1>2, <1>3, <1>4, <1>5, <1>6, <1>7, <1>8, <1>9, <1>10 DEF Next

(* Every variable of AgentRun keeps its type. *)
THEOREM TypeCorrect == Spec => []TypeOK
BY InitTypeOK, StepTypeOK, PTL DEF Spec

(***************************************************************************)
(* The process of a task that is done is dead                              *)
(***************************************************************************)

(* _running and the queue: what is executed is the runner's task.          *)
RunnerInv ==
  \A t \in Tasks :
    /\ exec[t] \in {"waiting", "killing"} => cur = t
    /\ cur = t => exec[t] # "none"
    /\ t \in queue => exec[t] = "none"

(* What a cancel() under way, a kill under way and an abandoned run have   *)
(* cost: a kill is entered by the first break, left early by the second.   *)
BreaksInv(t) ==
  /\ exec[t] = "none" => run[t] = "none" /\ t \notin runCancel /\ t \notin execCancel
  /\ run[t] = "none" => leader[t] = "none"
  /\ exec[t] = "waiting" => t \notin runCancel
  /\ t \in runCancel => (run[t] = "io" => breaks[t] > 0) /\ (Killing(t) => breaks[t] > 1)
  /\ t \in execCancel /\ exec[t] = "waiting" =>
       (run[t] = "io" => breaks[t] > 0) /\ (Killing(t) => breaks[t] > 1)
  /\ Killing(t) \/ (exec[t] = "killing" /\ Running(t)) => breaks[t] > 0
  /\ Running(t) /\ (exec[t] = "done" \/ (exec[t] = "killing" /\ t \in execCancel)) => breaks[t] > 1
  /\ run[t] = "kill" => leader[t] # "alive"
  /\ run[t] \in Ends => leader[t] # "alive" \/ breaks[t] > 1

AliveInv == RunnerInv /\ \A t \in Tasks : BreaksInv(t)

(* What a step that leaves the runner alone may do to _execute.            *)
ExecGoesOn(u) ==
  \/ exec'[u] = exec[u]
  \/ exec[u] # "none" /\ exec'[u] = "done"
  \/ exec[u] \in {"waiting", "killing"} /\ exec'[u] \in {"waiting", "killing"}

LEMMA EndGoesOn ==
  ASSUME TypeOK, NEW t \in Tasks, BreaksInv(t), Running(t), NEW how, End(t, how), NEW u \in Tasks
  PROVE  ExecGoesOn(u)
BY DEF TypeOK, BreaksInv, Running, End, Conclude, ExecGoesOn, execVars

LEMMA CancelGoesOn ==
  ASSUME TypeOK, RunnerInv, NEW t \in Tasks, cur = t, CancelExec(t), NEW u \in Tasks
  PROVE  ExecGoesOn(u)
BY DEF TypeOK, RunnerInv, CancelExec, ExecGoesOn

LEMMA StepRunnerInv ==
  ASSUME TypeOK, RunnerInv, \A t \in Tasks : BreaksInv(t), [Next]_vars
  PROVE  RunnerInv'
<1> SUFFICES ASSUME NEW u \in Tasks
             PROVE  /\ exec'[u] \in {"waiting", "killing"} => cur' = u
                    /\ cur' = u => exec'[u] # "none"
                    /\ u \in queue' => exec'[u] = "none"
  BY DEF RunnerInv
<1> USE DEF runnerVars, execVars, osVars
<1>a. exec \in [Tasks -> {"none", "waiting", "killing", "done"}] /\ (cur = NoTask <=> runner \in {"get", "ended"})
  BY DEF TypeOK
<1>b. ASSUME runnerVars' = runnerVars, ExecGoesOn(u)
      PROVE  /\ exec'[u] \in {"waiting", "killing"} => cur' = u
             /\ cur' = u => exec'[u] # "none"
             /\ u \in queue' => exec'[u] = "none"
  BY <1>b DEF RunnerInv, ExecGoesOn
<1>1. ASSUME NEW t \in Tasks, Exec(t)
      PROVE  runnerVars' = runnerVars /\ ExecGoesOn(u)
  BY <1>1, <1>a DEF Exec, ExecReturns, Deadline, ExecCancelled, ExecKilled, ExecInterrupted, Conclude, ExecGoesOn
<1>2. ASSUME NEW t \in Tasks, RunReturns(t) \/ RunBreaks(t) \/ KillGroup(t)
      PROVE  runnerVars' = runnerVars /\ ExecGoesOn(u)
  <2>1. runnerVars' = runnerVars
    BY <1>2 DEF RunReturns, RunBreaks, KillGroup, KillDone, Escalate, KillGivesUp, KillInterrupted
  <2>2. Running(t)
    BY <1>2 DEF RunReturns, RunBreaks, KillGroup, KillDone, Escalate, KillGivesUp, KillInterrupted, Killing, Running
  <2>3. (\E how : End(t, how)) \/ UNCHANGED exec
    BY <1>2 DEF RunReturns, RunBreaks, KillGroup, KillDone, Escalate, KillGivesUp, KillInterrupted, Reraise
  <2> QED BY <2>1, <2>2, <2>3, EndGoesOn DEF ExecGoesOn
<1>3. ASSUME NEW t \in Tasks, Fork(t) \/ LeaderExits(t) \/ ChildExits(t) \/ Reap(t)
      PROVE  runnerVars' = runnerVars /\ ExecGoesOn(u)
  BY <1>3 DEF Fork, LeaderExits, ChildExits, Reap, ExecGoesOn
<1>4. ASSUME NEW t \in Tasks, OnCancel(t) PROVE runnerVars' = runnerVars /\ ExecGoesOn(u)
  BY <1>4, CancelGoesOn DEF OnCancel, ExecGoesOn
<1>5. CASE Runner
  <2>1. ASSUME NEW t \in Tasks, Take(t) \/ LaunchFails(t)
        PROVE  cur = NoTask /\ t \in queue /\ cur' = t /\ queue' = queue \ {t}
               /\ \E x \in {"waiting", "done"} : exec' = [exec EXCEPT ![t] = x]
    BY <2>1, <1>a DEF Take, LaunchFails, Conclude
  <2>2. CASE \E t \in Tasks : Take(t) \/ LaunchFails(t)
    BY <2>1, <2>2, <1>a, TasksAssumption DEF RunnerInv
  <2>3. CASE RunnerGoesOn BY <2>3, <1>a, TasksAssumption DEF RunnerGoesOn, RunnerInv
  <2>4. CASE RunnerCancelled
    <3>1. cur \in Tasks BY <2>4, <1>a DEF RunnerCancelled, TypeOK
    <3>2. ExecGoesOn(u) BY <2>4, <3>1, CancelGoesOn DEF RunnerCancelled
    <3> QED BY <2>4, <3>2 DEF RunnerCancelled, RunnerInv, ExecGoesOn
  <2>5. CASE RunnerEnds BY <2>5, <1>a, TasksAssumption DEF RunnerEnds, RunnerInv
  <2> QED BY <1>5, <2>2, <2>3, <2>4, <2>5 DEF Runner
<1>6. CASE Stop BY <1>6 DEF Stop, RunnerInv
<1>7. CASE StopReturns BY <1>7 DEF StopReturns, RunnerInv
<1>8. CASE UNCHANGED vars BY <1>8 DEF vars, RunnerInv
<1> QED BY <1>b, <1>1, <1>2, <1>3, <1>4, <1>5, <1>6, <1>7, <1>8 DEF Next

(* What BreaksInv(u) speaks of. *)
Same(u) ==
  /\ exec'[u] = exec[u] /\ run'[u] = run[u] /\ breaks'[u] = breaks[u] /\ leader'[u] = leader[u]
  /\ (u \in runCancel') = (u \in runCancel) /\ (u \in execCancel') = (u \in execCancel)

LEMMA SameKeeps == ASSUME NEW u, BreaksInv(u), Same(u) PROVE BreaksInv(u)'
BY DEF BreaksInv, Same, Killing, Running

(* A run ends with its process gone, or broken off twice. *)
LEMMA EndKeeps ==
  ASSUME TypeOK, NEW t \in Tasks, NEW u \in Tasks, BreaksInv(t), BreaksInv(u),
         NEW how \in Ends, Running(t), End(t, how), UNCHANGED breaks \/ BreakOff({t}), UNCHANGED leader,
         leader[t] # "alive" \/ breaks'[t] > 1
  PROVE  BreaksInv(u)'
<1>1. CASE u = t
  <2>1. run'[t] = how /\ t \notin runCancel' BY DEF End, TypeOK
  <2>2. exec'[t] # "none"
    BY DEF End, Conclude, TypeOK, BreaksInv, Running, execVars
  <2> QED BY <1>1, <2>1, <2>2 DEF BreaksInv, Killing, Running, Ends
<1>2. CASE u # t
  <2>1. breaks'[u] = breaks[u] BY <1>2 DEF BreakOff, TypeOK
  <2>2. Same(u) BY <1>2, <2>1 DEF Same, End, Conclude, TypeOK, execVars
  <2> QED BY <2>2, SameKeeps
<1> QED BY <1>1, <1>2

LEMMA CancelKeeps ==
  ASSUME TypeOK, RunnerInv, NEW t \in Tasks, NEW u \in Tasks, BreaksInv(u), cur = t, CancelExec(t),
         UNCHANGED <<run, leader>>
  PROVE  BreaksInv(u)'
<1>1. CASE exec[t] = "done"
  <2>1. Same(u) BY <1>1 DEF Same, CancelExec
  <2> QED BY <2>1, SameKeeps
<1>2. CASE exec[t] # "done" /\ u = t
  <2>1. exec[t] \in {"waiting", "killing"} BY <1>2 DEF RunnerInv, TypeOK
  <2>2. breaks'[t] = breaks[t] + 1 /\ breaks[t] \in Nat BY <1>2 DEF CancelExec, BreakOff, TypeOK
  <2>3. CASE Inline BY <1>2, <2>1, <2>2, <2>3 DEF CancelExec, TypeOK, BreaksInv, Killing, Running
  <2>4. CASE ~Inline BY <1>2, <2>1, <2>2, <2>4 DEF CancelExec, TypeOK, BreaksInv, Killing, Running
  <2> QED BY <2>3, <2>4
<1>3. CASE exec[t] # "done" /\ u # t
  <2>1. Same(u) BY <1>3 DEF Same, CancelExec, BreakOff, TypeOK
  <2> QED BY <2>1, SameKeeps
<1> QED BY <1>1, <1>2, <1>3

LEMMA StepBreaksInv ==
  ASSUME TypeOK, RunnerInv, \A t \in Tasks : BreaksInv(t), [Next]_vars, NEW u \in Tasks
  PROVE  BreaksInv(u)'
<1> USE DEF runnerVars, execVars, osVars
<1>a. BreaksInv(u) OBVIOUS
<1>b. "returned" \in Ends /\ "raised" \in Ends /\ "cancelled" \in Ends BY DEF Ends
<1>1. ASSUME NEW t \in Tasks, Exec(t) PROVE BreaksInv(u)'
  <2>0. CASE u # t
    <3>1. Same(u)
      BY <1>1, <2>0 DEF Exec, ExecReturns, Deadline, ExecCancelled, ExecKilled, ExecInterrupted, Conclude, BreakOff,
                        Same, TypeOK
    <3> QED BY <3>1, SameKeeps
  <2> USE <1>a DEF BreaksInv, Running, Killing, TypeOK
  <2>1. CASE u = t /\ ExecReturns(t) BY <2>1 DEF ExecReturns, Conclude, Ends
  <2>2. CASE u = t /\ Deadline(t) BY <2>2 DEF Deadline, BreakOff, Ends
  <2>3. CASE u = t /\ ExecCancelled(t) BY <2>3 DEF ExecCancelled, Ends
  <2>4. CASE u = t /\ ExecKilled(t) BY <2>4 DEF ExecKilled, Conclude, Ends
  <2>5. CASE u = t /\ ExecInterrupted(t) BY <2>5 DEF ExecInterrupted, Conclude
  <2> QED BY <1>1, <2>0, <2>1, <2>2, <2>3, <2>4, <2>5 DEF Exec
<1>2. ASSUME NEW t \in Tasks, RunReturns(t) PROVE BreaksInv(u)'
  <2>1. Running(t) /\ leader[t] # "alive" BY <1>2 DEF RunReturns, Running
  <2> QED BY <1>2, <1>b, <2>1, EndKeeps DEF RunReturns
<1>3. ASSUME NEW t \in Tasks, RunBreaks(t) PROVE BreaksInv(u)'
  <2>1. Running(t) /\ (UNCHANGED breaks \/ BreakOff({t})) /\ UNCHANGED leader BY <1>3 DEF RunBreaks, Running
  <2>2. ASSUME NEW how \in Ends, End(t, how), leader[t] # "alive" PROVE BreaksInv(u)' BY <2>1, <2>2, EndKeeps
  <2>3. CASE /\ run' = [run EXCEPT ![t] = "term"] /\ runCancel' = runCancel \ {t} /\ UNCHANGED execVars
    <3>1. CASE u # t
      <4>1. Same(u) BY <1>3, <2>3, <3>1 DEF RunBreaks, BreakOff, Same, TypeOK
      <4> QED BY <4>1, SameKeeps
    <3>2. CASE u = t
      <4>1. breaks[t] \in Nat /\ run[t] = "io" BY <1>3 DEF RunBreaks, TypeOK
      <4>2. Resumes(t) => breaks'[t] = breaks[t] + 1 BY <1>3 DEF RunBreaks, BreakOff, TypeOK
      <4>3. ~Resumes(t) => breaks'[t] = breaks[t] /\ breaks[t] > 0 BY <1>3, <4>1 DEF RunBreaks, Resumes, BreaksInv
      <4>4. run'[t] = "term" /\ t \notin runCancel' BY <2>3 DEF TypeOK
      <4>5. t \in execCancel /\ exec[t] = "waiting" => Resumes(t) /\ breaks[t] > 0
        BY <4>1 DEF Resumes, BreaksInv
      <4> QED BY <2>1, <2>3, <3>2, <4>1, <4>2, <4>3, <4>4, <4>5 DEF BreaksInv, Running, Killing, Ends
    <3> QED BY <3>1, <3>2
  <2> QED BY <1>3, <1>b, <2>2, <2>3 DEF RunBreaks, GroupGone
<1>4. ASSUME NEW t \in Tasks, KillGroup(t) PROVE BreaksInv(u)'
  <2>1. Running(t) BY <1>4 DEF KillGroup, KillDone, Escalate, KillGivesUp, KillInterrupted, Killing, Running
  <2>2. ASSUME NEW how \in Ends, End(t, how), UNCHANGED <<breaks, leader>>, leader[t] # "alive" \/ breaks[t] > 1
        PROVE  BreaksInv(u)'
    BY <2>1, <2>2, EndKeeps
  <2>3. ASSUME Reraise(t) PROVE \E how \in Ends : End(t, how) BY <2>3, <1>b DEF Reraise
  <2>4. CASE KillDone(t) BY <2>2, <2>3, <2>4 DEF KillDone
  <2>5. CASE KillGivesUp(t)
    <3>1. leader[t] # "alive" BY <2>5 DEF KillGivesUp, BreaksInv
    <3> QED BY <2>2, <2>3, <2>5, <3>1 DEF KillGivesUp
  <2>6. CASE KillInterrupted(t)
    <3>1. breaks[t] > 1 BY <2>6 DEF KillInterrupted, Resumes, BreaksInv
    <3> QED BY <2>2, <2>6, <3>1, <1>b DEF KillInterrupted
  <2>7. CASE Escalate(t)
    <3>1. CASE GroupGone(t) /\ Reraise(t) /\ UNCHANGED osVars BY <2>2, <2>3, <2>7, <3>1 DEF Escalate, GroupGone
    <3>2. CASE UNCHANGED <<execVars, runCancel>> /\ run' = [run EXCEPT ![t] = "kill"]
               /\ leader' = [leader EXCEPT ![t] = "exited"]
      BY <1>a, <2>7, <3>2 DEF Escalate, BreaksInv, Killing, Running, TypeOK, Ends
    <3> QED BY <2>7, <3>1, <3>2 DEF Escalate
  <2> QED BY <1>4, <2>4, <2>5, <2>6, <2>7 DEF KillGroup
<1>5. ASSUME NEW t \in Tasks, Fork(t) \/ LeaderExits(t) \/ ChildExits(t) \/ Reap(t) PROVE BreaksInv(u)'
  BY <1>a, <1>5 DEF Fork, LeaderExits, ChildExits, Reap, BreaksInv, Killing, Running, TypeOK
<1>6. ASSUME NEW t \in Tasks, OnCancel(t) PROVE BreaksInv(u)'
  <2>1. CASE cur = t BY <1>6, <2>1, CancelKeeps DEF OnCancel
  <2>2. CASE cur # t
    <3>1. Same(u) BY <1>6, <2>2 DEF OnCancel, Same
    <3> QED BY <3>1, SameKeeps
  <2> QED BY <2>1, <2>2
<1>7. CASE Runner
  <2>1. ASSUME NEW t \in Tasks, Take(t) \/ LaunchFails(t) PROVE BreaksInv(u)'
    <3>1. exec[t] = "none" BY <2>1 DEF Take, LaunchFails, RunnerInv
    <3> QED BY <1>a, <2>1, <3>1 DEF Take, LaunchFails, Conclude, BreaksInv, Killing, Running, TypeOK, Ends
  <2>2. CASE RunnerGoesOn \/ RunnerEnds
    <3>1. Same(u) BY <2>2 DEF RunnerGoesOn, RunnerEnds, Same
    <3> QED BY <3>1, SameKeeps
  <2>3. CASE RunnerCancelled
    <3>1. cur \in Tasks BY <2>3 DEF RunnerCancelled, TypeOK
    <3> QED BY <2>3, <3>1, CancelKeeps DEF RunnerCancelled
  <2> QED BY <1>7, <2>1, <2>2, <2>3 DEF Runner
<1>8. CASE Stop \/ UNCHANGED vars
  <2>1. Same(u) BY <1>8 DEF Stop, vars, Same
  <2> QED BY <2>1, SameKeeps
<1>9. CASE StopReturns
  <2>1. exec[u] \notin {"waiting", "killing"} BY <1>9, TasksAssumption DEF StopReturns, RunnerInv, TypeOK
  <2>2. Running(u) => exec[u] = "done" BY <2>1 DEF BreaksInv, Running, TypeOK
  <2>3. BreaksInv(u) /\ breaks[u] \in Nat BY DEF TypeOK
  <2>4. u \in runCancel' <=> u \in runCancel \/ Running(u) BY <1>9 DEF StopReturns
  <2>5. UNCHANGED <<exec, execCancel, run, breaks, leader>> BY <1>9 DEF StopReturns, execVars, osVars
  <2> QED BY <2>1, <2>2, <2>3, <2>4, <2>5 DEF BreaksInv, Killing, Running
<1> QED BY <1>1, <1>2, <1>3, <1>4, <1>5, <1>6, <1>7, <1>8, <1>9 DEF Next

(* When _execute is done with a task, the agent's process has exited, or   *)
(* its run was broken off twice.                                           *)
THEOREM DoneIsStopped == Spec => []DoneIsDead
<1>1. Init => AliveInv
  BY TasksAssumption DEF Init, AliveInv, RunnerInv, BreaksInv, Killing, Running, Ends
<1>2. TypeOK /\ AliveInv /\ [Next]_vars => AliveInv'
  BY StepRunnerInv, StepBreaksInv DEF AliveInv
<1>3. Spec => [](TypeOK /\ AliveInv)
  BY <1>1, <1>2, InitTypeOK, StepTypeOK, PTL DEF Spec
<1>4. TypeOK /\ AliveInv => DoneIsDead
  <2> SUFFICES ASSUME TypeOK, AliveInv, NEW t \in Tasks, exec[t] = "done", leader[t] = "alive" PROVE breaks[t] > 1
    BY DEF DoneIsDead
  <2>1. BreaksInv(t) BY DEF AliveInv
  <2>2. run[t] = "none" \/ Running(t) \/ run[t] \in Ends BY DEF TypeOK, Running
  <2> QED BY <2>1, <2>2 DEF BreaksInv
<1> QED BY <1>3, <1>4, PTL

(***************************************************************************)
(* What is left open                                                       *)
(***************************************************************************)

(* Nothing but stop() cancels the runner; and from Python 3.12 on          *)
(* _execute is under way as long as its run is.                            *)
StopInv   == runnerCancel \/ runner \in {"stopping", "ended"} => daemon # "up"
InlineInv == Inline => execCancel = {} /\ \A t \in Tasks : Running(t) => exec[t] # "done"

(* While the task of a CANCEL is open, its CancelledError is pending or    *)
(* was raised; and nothing but CANCELs and stop() cancels _execute.        *)
LeftOpen(t) ==
  /\ t \in execCancel \cup cancelled /\ exec[t] # "done" => t \in cancelReq \/ daemon # "up"
  /\ t \in cancelReq /\ outcome[t] = "open" =>
       exec[t] \in {"waiting", "killing"} /\ t \in execCancel \cup cancelled
  /\ exec[t] = "done" /\ outcome[t] = "open" => daemon # "up" /\ t \notin cancelReq

(* Concluding as cancelled a task nobody cancelled is left to stop().      *)
LEMMA ConcludeKeepsLeft ==
  ASSUME TypeOK, NEW t \in Tasks, NEW u \in Tasks, LeftOpen(t), LeftOpen(u), exec[t] # "done",
         NEW how \in Outcomes, Conclude(t, how), how = "cancelled" => t \in execCancel \cup cancelled,
         cancelled' \in {cancelled, cancelled \cup {t}}, UNCHANGED daemon
  PROVE  LeftOpen(u)'
<1>1. CASE u = t BY <1>1 DEF Conclude, LeftOpen, TypeOK, Outcomes
<1>2. CASE u # t BY <1>2 DEF Conclude, LeftOpen, TypeOK
<1> QED BY <1>1, <1>2

(* A run that ends inline concludes its task; elsewhere it says nothing.   *)
LEMMA EndKeepsLeft ==
  ASSUME TypeOK, NEW t \in Tasks, NEW u \in Tasks, LeftOpen(t), LeftOpen(u), Inline => exec[t] # "done",
         NEW how \in Ends, End(t, how), UNCHANGED daemon
  PROVE  LeftOpen(u)'
<1>1. CASE Inline
  <2>1. Verdict(t, how) \in Outcomes /\ (Verdict(t, how) = "cancelled" => t \in cancelled)
    BY DEF Verdict, Ends, Outcomes
  <2> QED BY <1>1, <2>1, ConcludeKeepsLeft DEF End
<1>2. CASE ~Inline BY <1>2 DEF End, execVars, LeftOpen
<1> QED BY <1>1, <1>2

(* A cancel() of _execute by a CANCEL, which is put on record, or by the   *)
(* runner that stop() has cancelled.                                       *)
LEMMA CancelKeepsLeft ==
  ASSUME TypeOK, RunnerInv, NEW t \in Tasks, NEW u \in Tasks, LeftOpen(t), LeftOpen(u), cur = t, CancelExec(t),
         cancelReq' \in {cancelReq, cancelReq \cup {t}},
         t \in cancelReq' \/ daemon # "up", exec[t] = "done" => cancelReq' = cancelReq \/ daemon = "up",
         UNCHANGED <<daemon, outcome>>
  PROVE  LeftOpen(u)'
<1>1. CASE u # t BY <1>1 DEF CancelExec, LeftOpen, TypeOK
<1>2. CASE u = t /\ exec[t] = "done" BY <1>2 DEF CancelExec, LeftOpen, TypeOK
<1>3. CASE u = t /\ exec[t] # "done"
  <2>1. exec[t] \in {"waiting", "killing"} BY <1>3 DEF RunnerInv, TypeOK
  <2> QED BY <1>3, <2>1 DEF CancelExec, LeftOpen, TypeOK
<1> QED BY <1>1, <1>2, <1>3

(* Alone OpenIsLeftByStop says nothing of what a pending CancelledError    *)
(* will do to the task.                                                    *)
LeftInv == StopInv /\ InlineInv /\ \A t \in Tasks : LeftOpen(t)

(* Only Stop cancels the runner.                                           *)
LEMMA StepStopInv == TypeOK /\ StopInv /\ [Next]_vars => StopInv'
<1> SUFFICES ASSUME TypeOK, StopInv, [Next]_vars PROVE StopInv' OBVIOUS
<1> USE DEF StopInv, runnerVars
<1>1. ASSUME UNCHANGED <<runner, runnerCancel, daemon>> PROVE StopInv' BY <1>1
<1>2. ASSUME NEW t \in Tasks, Exec(t) \/ RunReturns(t) \/ RunBreaks(t) \/ KillGroup(t) PROVE StopInv'
  BY <1>1, <1>2 DEF Exec, ExecReturns, Deadline, ExecCancelled, ExecKilled, ExecInterrupted, RunReturns, RunBreaks,
     KillGroup, KillDone, Escalate, KillGivesUp, KillInterrupted
<1>3. ASSUME NEW t \in Tasks, Fork(t) \/ LeaderExits(t) \/ ChildExits(t) \/ Reap(t) \/ OnCancel(t) PROVE StopInv'
  BY <1>1, <1>3 DEF Fork, LeaderExits, ChildExits, Reap, OnCancel
<1>4. CASE Runner BY <1>4 DEF Runner, Take, LaunchFails, RunnerGoesOn, RunnerCancelled, RunnerEnds
<1>5. CASE Stop \/ StopReturns BY <1>5 DEF Stop, StopReturns
<1>6. CASE UNCHANGED vars BY <1>1, <1>6 DEF vars
<1> QED BY <1>2, <1>3, <1>4, <1>5, <1>6 DEF Next

(* A run that ends in the same task as its _execute ends that too.         *)
LEMMA StepInlineInv ==
  ASSUME TypeOK, RunnerInv, \A t \in Tasks : BreaksInv(t), InlineInv, [Next]_vars
  PROVE  InlineInv'
<1> USE DEF runnerVars, execVars, osVars
<1>1. python' = python
  BY DEF Next, vars, Exec, ExecReturns, Deadline, ExecCancelled, ExecKilled, ExecInterrupted, RunReturns, RunBreaks,
     KillGroup, KillDone, Escalate, KillGivesUp, KillInterrupted, Fork, LeaderExits, ChildExits, Reap, OnCancel,
     Runner, Take, LaunchFails, RunnerGoesOn, RunnerCancelled, RunnerEnds, Stop, StopReturns
<1> SUFFICES ASSUME Inline PROVE execCancel' = {} /\ \A u \in Tasks : Running(u)' => exec'[u] # "done"
  BY <1>1 DEF InlineInv, Inline
<1>2. execCancel = {} /\ \A u \in Tasks : Running(u) => exec[u] # "done" BY DEF InlineInv
<1>3. ASSUME UNCHANGED <<exec, execCancel, run>>
      PROVE  execCancel' = {} /\ \A u \in Tasks : Running(u)' => exec'[u] # "done"
  BY <1>2, <1>3 DEF Running
<1>4. ASSUME NEW t \in Tasks, NEW how, how \in Ends, End(t, how)
      PROVE  execCancel' = {} /\ \A u \in Tasks : Running(u)' => exec'[u] # "done"
  BY <1>2, <1>4 DEF End, Conclude, Running, Ends, TypeOK
<1>5. ASSUME NEW t \in Tasks, CancelExec(t), UNCHANGED run
      PROVE  execCancel' = {} /\ \A u \in Tasks : Running(u)' => exec'[u] # "done"
  BY <1>2, <1>5 DEF CancelExec, Running, TypeOK
<1>6. ASSUME NEW t \in Tasks, Exec(t)
      PROVE  execCancel' = {} /\ \A u \in Tasks : Running(u)' => exec'[u] # "done"
  <2>1. CASE Deadline(t) BY <1>2, <2>1 DEF Deadline, Running, TypeOK
  <2>2. CASE ExecReturns(t) \/ ExecKilled(t)
    BY <1>2, <2>2 DEF ExecReturns, ExecKilled, Conclude, Running, Ends, TypeOK
  <2> QED BY <1>2, <1>6, <2>1, <2>2 DEF Exec, ExecCancelled, ExecInterrupted
<1>7. ASSUME NEW t \in Tasks, RunReturns(t) \/ RunBreaks(t) \/ KillGroup(t)
      PROVE  execCancel' = {} /\ \A u \in Tasks : Running(u)' => exec'[u] # "done"
  <2>1. CASE \E how \in Ends : End(t, how) BY <1>4, <2>1
  <2>2. CASE RunBreaks(t) /\ run' = [run EXCEPT ![t] = "term"] /\ UNCHANGED execVars
    BY <1>2, <2>2 DEF RunBreaks, Running, TypeOK
  <2>3. CASE Escalate(t) /\ run' = [run EXCEPT ![t] = "kill"] /\ UNCHANGED execVars
    BY <1>2, <2>3 DEF Escalate, Running, TypeOK
  <2> QED BY <1>7, <2>1, <2>2, <2>3
          DEF RunReturns, RunBreaks, KillGroup, KillDone, Escalate, KillGivesUp, KillInterrupted, Reraise, Ends
<1>8. ASSUME NEW t \in Tasks, Fork(t) \/ LeaderExits(t) \/ ChildExits(t) \/ Reap(t)
      PROVE  UNCHANGED <<exec, execCancel, run>>
  BY <1>8 DEF Fork, LeaderExits, ChildExits, Reap
<1>9. ASSUME NEW t \in Tasks, OnCancel(t) PROVE execCancel' = {} /\ \A u \in Tasks : Running(u)' => exec'[u] # "done"
  BY <1>3, <1>5, <1>9 DEF OnCancel
<1>10. CASE Runner
  <2>1. ASSUME NEW t \in Tasks, Take(t) \/ LaunchFails(t)
        PROVE  execCancel' = {} /\ \A u \in Tasks : Running(u)' => exec'[u] # "done"
    <3>1. run[t] = "none" BY <2>1 DEF Take, LaunchFails, RunnerInv, BreaksInv
    <3> QED BY <1>2, <2>1, <3>1 DEF Take, LaunchFails, Conclude, Running, TypeOK
  <2>2. CASE RunnerGoesOn \/ RunnerEnds BY <1>3, <2>2 DEF RunnerGoesOn, RunnerEnds
  <2>3. CASE RunnerCancelled
    <3>1. cur \in Tasks BY <2>3 DEF RunnerCancelled, TypeOK
    <3> QED BY <1>5, <2>3, <3>1 DEF RunnerCancelled
  <2> QED BY <1>10, <2>1, <2>2, <2>3 DEF Runner
<1>11. CASE Stop \/ StopReturns \/ UNCHANGED vars BY <1>3, <1>11 DEF Stop, StopReturns, vars
<1> QED BY <1>3, <1>6, <1>7, <1>8, <1>9, <1>10, <1>11 DEF Next

(* Every step keeps what LeftOpen says of a task.                          *)
LEMMA StepLeftOpen ==
  ASSUME TypeOK, RunnerInv, \A t \in Tasks : BreaksInv(t), LeftInv, [Next]_vars, NEW u \in Tasks
  PROVE  LeftOpen(u)'
<1> USE DEF runnerVars, execVars, osVars
<1>1. \A t \in Tasks : LeftOpen(t) BY DEF LeftInv
<1>2. "returned" \in Ends /\ "raised" \in Ends /\ "cancelled" \in Ends BY DEF Ends
<1>3. ASSUME UNCHANGED <<exec, execCancel, cancelled, outcome, cancelReq, daemon>> PROVE LeftOpen(u)'
  BY <1>1, <1>3 DEF LeftOpen
<1>4. ASSUME NEW t \in Tasks, Exec(t) PROVE LeftOpen(u)'
  <2>1. ASSUME NEW end \in Ends
        PROVE  Verdict(t, end) \in Outcomes /\ (Verdict(t, end) = "cancelled" => t \in cancelled)
    BY DEF Verdict, Outcomes, Ends
  <2>2. CASE ExecReturns(t) BY <1>1, <2>1, <2>2, ConcludeKeepsLeft DEF ExecReturns
  <2>3. CASE Deadline(t) BY <1>1, <2>3 DEF Deadline, LeftOpen, TypeOK
  <2>4. CASE ExecCancelled(t) BY <1>1, <2>4 DEF ExecCancelled, LeftOpen, TypeOK
  <2>5. CASE ExecKilled(t) BY <1>1, <1>2, <2>1, <2>5, ConcludeKeepsLeft DEF ExecKilled
  <2>6. CASE ExecInterrupted(t)
    <3>1. "cancelled" \in Outcomes BY DEF Outcomes
    <3> QED BY <1>1, <2>6, <3>1, ConcludeKeepsLeft DEF ExecInterrupted
  <2> QED BY <1>4, <2>2, <2>3, <2>4, <2>5, <2>6 DEF Exec
<1>5. ASSUME NEW t \in Tasks, RunReturns(t) \/ RunBreaks(t) \/ KillGroup(t) PROVE LeftOpen(u)'
  <2>1. Running(t) /\ UNCHANGED daemon
    BY <1>5 DEF RunReturns, RunBreaks, KillGroup, KillDone, Escalate, KillGivesUp, KillInterrupted, Killing, Running
  <2>2. CASE \E how \in Ends : End(t, how) BY <1>1, <2>1, <2>2, EndKeepsLeft DEF LeftInv, InlineInv
  <2>3. CASE UNCHANGED execVars BY <1>3, <2>1, <2>3
  <2> QED BY <1>2, <1>5, <2>2, <2>3
          DEF RunReturns, RunBreaks, KillGroup, KillDone, Escalate, KillGivesUp, KillInterrupted, Reraise
<1>6. ASSUME NEW t \in Tasks, Fork(t) \/ LeaderExits(t) \/ ChildExits(t) \/ Reap(t) PROVE LeftOpen(u)'
  BY <1>3, <1>6 DEF Fork, LeaderExits, ChildExits, Reap
<1>7. ASSUME NEW t \in Tasks, OnCancel(t) PROVE LeftOpen(u)'
  <2>1. CASE cur = t
    <3>1. CancelExec(t) /\ cancelReq' = cancelReq \cup {t} /\ UNCHANGED <<daemon, outcome>> /\ daemon = "up"
      BY <1>7, <2>1 DEF OnCancel
    <3> QED BY <1>1, <2>1, <3>1, CancelKeepsLeft
  <2>2. CASE cur # t BY <1>1, <1>7, <2>2 DEF OnCancel, LeftOpen, TypeOK
  <2> QED BY <2>1, <2>2
<1>8. CASE Runner
  <2>1. ASSUME NEW t \in Tasks, Take(t) \/ LaunchFails(t) PROVE LeftOpen(u)'
    <3>1. exec[t] = "none" BY <2>1 DEF Take, LaunchFails, RunnerInv
    <3>2. CASE Take(t) BY <1>1, <2>1, <3>1, <3>2 DEF Take, LeftOpen, TypeOK
    <3>3. CASE LaunchFails(t)
      <4>1. "failed" \in Outcomes /\ "failed" # "cancelled" BY DEF Outcomes
      <4> QED BY <1>1, <3>1, <3>3, <4>1, ConcludeKeepsLeft DEF LaunchFails
    <3> QED BY <2>1, <3>2, <3>3
  <2>2. CASE RunnerGoesOn \/ RunnerEnds BY <1>3, <2>2 DEF RunnerGoesOn, RunnerEnds
  <2>3. CASE RunnerCancelled
    <3>1. cur \in Tasks BY <2>3 DEF RunnerCancelled, TypeOK
    <3>2. daemon # "up" BY <2>3 DEF RunnerCancelled, LeftInv, StopInv
    <3> QED BY <1>1, <2>3, <3>1, <3>2, CancelKeepsLeft DEF RunnerCancelled
  <2> QED BY <1>8, <2>1, <2>2, <2>3 DEF Runner
<1>9. CASE Stop \/ StopReturns BY <1>1, <1>9 DEF Stop, StopReturns, LeftOpen
<1>10. CASE UNCHANGED vars BY <1>3, <1>10 DEF vars
<1> QED BY <1>4, <1>5, <1>6, <1>7, <1>8, <1>9, <1>10 DEF Next

(* A run that is over has closed its task, but for one that stop() alone   *)
(* broke off: whatever else ended it, at whichever await.                  *)
THEOREM LeftOpenByStop == Spec => []OpenIsLeftByStop
<1>1. Init => AliveInv /\ LeftInv
  BY TasksAssumption
  DEF Init, AliveInv, RunnerInv, BreaksInv, Killing, Running, Ends, LeftInv, StopInv, InlineInv, LeftOpen
<1>2. TypeOK /\ AliveInv /\ LeftInv /\ [Next]_vars => AliveInv' /\ LeftInv'
  BY StepRunnerInv, StepBreaksInv, StepStopInv, StepInlineInv, StepLeftOpen DEF AliveInv, LeftInv
<1>3. Spec => [](TypeOK /\ AliveInv /\ LeftInv)
  BY <1>1, <1>2, InitTypeOK, StepTypeOK, PTL DEF Spec
<1>4. LeftInv => OpenIsLeftByStop BY DEF LeftInv, LeftOpen, OpenIsLeftByStop
<1> QED BY <1>3, <1>4, PTL

(* Together: what _execute leaves behind is settled.                       *)
THEOREM RunsAreSettled == Spec => []DoneIsSettled
BY DoneIsStopped, LeftOpenByStop, PTL DEF DoneIsSettled
=============================================================================
