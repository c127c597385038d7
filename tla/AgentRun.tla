------------------------------ MODULE AgentRun ------------------------------
(***************************************************************************)
(* One runner loop of the node daemon, the runs of its agent's process and *)
(* how they are broken off: by the deadline, by CANCELs, by an exception   *)
(* of the run itself and by stop().                                        *)
(*                                                                         *)
(* Grain: one resumption of a coroutine by the event loop.  cancel() on a  *)
(* suspended coroutine makes its next resumption raise CancelledError,     *)
(* whatever it waits for; two cancel()s before that raise it once.         *)
(*                                                                         *)
(* asyncio.wait_for(run) is a task of its own for run() up to Python 3.11, *)
(* and the same task from 3.12 on; pyproject.toml allows both.             *)
(*                                                                         *)
(* Abstracted: what _execute awaits before and after the run, and tasks    *)
(* the agent closes itself (module OwnerNode); the process group is its    *)
(* leader and one child that holds the leader's stdout; a signal's effect  *)
(* is that its receiver may exit (SIGTERM) or has exited (SIGKILL).        *)
(***************************************************************************)
EXTENDS Naturals, FiniteSets

CONSTANTS
  Tasks,       \* accepted tasks of one runner
  NoTask,      \* "no task"
  Pythons,     \* versions the daemon may run on
  MaxCancels   \* bound: CANCELs the dispatcher handles

ASSUME TasksAssumption == IsFiniteSet(Tasks) /\ NoTask \notin Tasks
ASSUME BoundsAssumption == Pythons \subseteq {"to 3.11", "from 3.12"} /\ MaxCancels \in Nat

VARIABLES
  python,       \* the version it does run on
  queue,        \* tasks waiting in _queues
  cur,          \* the runner's task
  runner,       \* where _runner is: "get", "await", "stopping", "ended"
  runnerCancel, \* cancel() was called on it
  exec,         \* task -> where _execute is: "none", "waiting", "killing", "done"
  execCancel,   \* cancel() was called on it
  cancelled,    \* CancelledError was raised in it (not by the deadline)
  expired,      \* the timer of its deadline has fired
  run,          \* task -> where run() is: "none", "io", "term", "kill", or how it ended
  runCancel,    \* cancel() was called on it
  breaks,       \* task -> how often its run was broken off
  leader,       \* task -> its process: "none", "alive", "exited", "reaped"
  child,        \* task -> a child of it: "none", "alive", "gone"
  outcome,      \* task -> "open" or how it was closed
  cancelReq,    \* _cancel_requested
  daemon,       \* "up", "stopping" (in stop()), "stopped"
  cancels       \* CANCELs handled

runnerVars == <<queue, cur, runner, runnerCancel>>
execVars   == <<exec, execCancel, cancelled, expired, outcome, cancelReq>>
osVars     == <<leader, child>>
vars == <<python, runnerVars, execVars, run, runCancel, breaks, osVars, daemon, cancels>>

Inline == python = "from 3.12"

Ends     == {"returned", "raised", "cancelled"}
Running(t) == run[t] \in {"io", "term", "kill"}
Outcomes == {"delivered", "failed", "timed out", "cancelled"}

BreakOff(T) == breaks' = [t \in Tasks |-> breaks[t] + IF t \in T THEN 1 ELSE 0]

Init ==
  /\ python \in Pythons
  /\ queue = Tasks /\ cur = NoTask /\ runner = "get" /\ runnerCancel = FALSE
  /\ exec = [t \in Tasks |-> "none"] /\ execCancel = {} /\ cancelled = {} /\ expired = {}
  /\ run = [t \in Tasks |-> "none"] /\ runCancel = {} /\ breaks = [t \in Tasks |-> 0]
  /\ leader = [t \in Tasks |-> "none"] /\ child = [t \in Tasks |-> "none"]
  /\ outcome = [t \in Tasks |-> "open"] /\ cancelReq = {}
  /\ daemon = "up" /\ cancels = 0

-----------------------------------------------------------------------------
(* _execute: what wait_for returned or raised *)

(* Mutant of Conclude: every CancelledError is raised again. *)
ConcludeReraises(t, how) ==
  /\ exec' = [exec EXCEPT ![t] = "done"]
  /\ execCancel' = execCancel \ {t}
  /\ outcome' = IF how = "cancelled" THEN outcome ELSE [outcome EXCEPT ![t] = how]
  /\ UNCHANGED cancelReq

(* A cancelled task is closed only if a CANCEL asked for it: the others    *)
(* are left to recover().                                                  *)
Conclude(t, how) ==
  /\ exec' = [exec EXCEPT ![t] = "done"]
  /\ execCancel' = execCancel \ {t}
  /\ cancelReq' = IF how = "cancelled" THEN cancelReq \ {t} ELSE cancelReq
  /\ outcome' = IF how = "cancelled" /\ t \notin cancelReq THEN outcome ELSE [outcome EXCEPT ![t] = how]

(* Mutant of Verdict: wait_for's own cancellation is not told apart. *)
VerdictUntimed(t, end) ==
  CASE end = "returned" -> "delivered" [] end = "raised" -> "failed" [] end = "cancelled" -> "cancelled"

(* A CancelledError in run() is the deadline's TimeoutError unless         *)
(* _execute was cancelled too.                                             *)
Verdict(t, end) ==
  CASE end = "returned" -> "delivered" [] end = "raised" -> "failed"
    [] end = "cancelled" -> IF t \in cancelled THEN "cancelled" ELSE "timed out"

(* wait_for finds run() ended; a cancel() that came too late is dropped.   *)
ExecReturns(t) ==
  /\ exec[t] = "waiting" /\ run[t] \in Ends
  /\ Conclude(t, Verdict(t, run[t]))
  /\ UNCHANGED <<runnerVars, cancelled, expired, run, runCancel, breaks, osVars, daemon, cancels, python>>

(* The deadline: run() is cancelled ... *)
Deadline(t) ==
  /\ exec[t] \in (IF Inline THEN {"waiting", "killing"} ELSE {"waiting"})
  /\ Running(t) /\ t \notin expired /\ t \notin execCancel
  /\ expired' = expired \cup {t} /\ runCancel' = runCancel \cup {t}
  /\ exec' = [exec EXCEPT ![t] = "killing"]
  /\ BreakOff({t})
  /\ UNCHANGED <<runnerVars, execCancel, cancelled, outcome, cancelReq, run, osVars, daemon, cancels, python>>

(* ... as it is when _execute is cancelled; wait_for then awaits its end.  *)
ExecCancelled(t) ==
  /\ exec[t] = "waiting" /\ Running(t) /\ t \in execCancel
  /\ execCancel' = execCancel \ {t} /\ cancelled' = cancelled \cup {t}
  /\ runCancel' = runCancel \cup {t}
  /\ exec' = [exec EXCEPT ![t] = "killing"]
  /\ UNCHANGED <<runnerVars, expired, outcome, cancelReq, run, breaks, osVars, daemon, cancels, python>>

ExecKilled(t) ==
  /\ exec[t] = "killing" /\ run[t] \in Ends /\ t \notin execCancel
  /\ Conclude(t, Verdict(t, "cancelled"))
  /\ UNCHANGED <<runnerVars, cancelled, expired, run, runCancel, breaks, osVars, daemon, cancels, python>>

(* Cancelled again: wait_for no longer waits, and run() goes on by itself. *)
ExecInterrupted(t) ==
  /\ exec[t] = "killing" /\ t \in execCancel
  /\ Conclude(t, "cancelled")
  /\ cancelled' = cancelled \cup {t}
  /\ UNCHANGED <<runnerVars, expired, run, runCancel, breaks, osVars, daemon, cancels, python>>

(* task.cancel() on _execute. From Python 3.12 on it is run() that the     *)
(* CancelledError is raised in.                                            *)
CancelExec(t) ==
  IF exec[t] = "done"
    THEN UNCHANGED <<exec, execCancel, cancelled, runCancel, breaks>>
    ELSE /\ BreakOff({t})
         /\ IF Inline
              THEN /\ runCancel' = runCancel \cup {t} /\ cancelled' = cancelled \cup {t}
                   /\ exec' = [exec EXCEPT ![t] = "killing"] /\ UNCHANGED execCancel
              ELSE execCancel' = execCancel \cup {t} /\ UNCHANGED <<exec, cancelled, runCancel>>

-----------------------------------------------------------------------------
(* run() and _kill_group *)

(* From Python 3.12 on _execute goes on in the same resumption. *)
End(t, how) ==
  /\ run' = [run EXCEPT ![t] = how]
  /\ runCancel' = runCancel \ {t}
  /\ IF Inline
       THEN Conclude(t, Verdict(t, how)) /\ UNCHANGED <<cancelled, expired>>
       ELSE UNCHANGED execVars

Resumes(t) == t \notin runCancel

(* stdout is closed and the process has been waited for. *)
RunReturns(t) ==
  /\ run[t] = "io" /\ Resumes(t) /\ leader[t] = "reaped" /\ child[t] # "alive"
  /\ End(t, "returned")
  /\ UNCHANGED <<runnerVars, breaks, osVars, daemon, cancels, python>>

(* The group is gone: killpg raises ProcessLookupError. *)
GroupGone(t) == leader[t] # "alive" /\ child[t] # "alive"

(* run() raises: its own exception (the agent does not read its stdin, the *)
(* log cannot be written) or a CancelledError. _kill_group does nothing    *)
(* when the leader was waited for, and sends SIGTERM otherwise.            *)
RunBreaks(t) ==
  LET how == IF Resumes(t) THEN "raised" ELSE "cancelled" IN
  /\ run[t] = "io"
  /\ IF Resumes(t) THEN BreakOff({t}) ELSE UNCHANGED breaks
  /\ \/ /\ leader[t] = "reaped" \/ GroupGone(t)
        /\ End(t, how)
     \/ /\ leader[t] # "reaped"
        /\ run' = [run EXCEPT ![t] = "term"]
        /\ runCancel' = runCancel \ {t}
        /\ UNCHANGED execVars
  /\ UNCHANGED <<runnerVars, osVars, daemon, cancels, python>>

(* Awaiting the leader in _kill_group: it ends, ... *)
Killing(t) == run[t] \in {"term", "kill"}

(* what broke the run off is raised again. *)
Reraise(t) == End(t, IF exec[t] = "waiting" THEN "raised" ELSE "cancelled")

KillDone(t) ==
  /\ Killing(t) /\ Resumes(t) /\ leader[t] = "reaped"
  /\ Reraise(t)
  /\ UNCHANGED <<runnerVars, breaks, osVars, daemon, cancels, python>>

(* Mutants of Escalate: SIGTERM is sent once more, or nothing. *)
EscalateSoftly(t) ==
  /\ run[t] = "term" /\ Resumes(t) /\ leader[t] # "reaped"
  /\ UNCHANGED vars

EscalateNever(t) ==
  /\ run[t] = "term" /\ Resumes(t) /\ leader[t] # "reaped"
  /\ Reraise(t)
  /\ UNCHANGED <<runnerVars, breaks, osVars, daemon, cancels, python>>

(* ... or five seconds pass: SIGKILL, ... *)
Escalate(t) ==
  /\ run[t] = "term" /\ Resumes(t) /\ leader[t] # "reaped"
  /\ \/ GroupGone(t) /\ Reraise(t) /\ UNCHANGED osVars
     \/ /\ run' = [run EXCEPT ![t] = "kill"]
        /\ leader' = [leader EXCEPT ![t] = "exited"]
        /\ child' = [child EXCEPT ![t] = IF @ = "alive" THEN "gone" ELSE @]
        /\ UNCHANGED <<execVars, runCancel>>
  /\ UNCHANGED <<runnerVars, breaks, daemon, cancels, python>>

(* ... and after another five no more is done; ... *)
KillGivesUp(t) ==
  /\ run[t] = "kill" /\ Resumes(t) /\ leader[t] # "reaped"
  /\ Reraise(t)
  /\ UNCHANGED <<runnerVars, breaks, osVars, daemon, cancels, python>>

(* ... or a further CancelledError ends _kill_group itself. *)
KillInterrupted(t) ==
  /\ Killing(t) /\ ~Resumes(t)
  /\ End(t, "cancelled")
  /\ UNCHANGED <<runnerVars, breaks, osVars, daemon, cancels, python>>

-----------------------------------------------------------------------------
(* The processes *)

Fork(t) ==
  /\ leader[t] = "alive" /\ child[t] = "none"
  /\ child' = [child EXCEPT ![t] = "alive"]
  /\ UNCHANGED <<runnerVars, execVars, run, runCancel, breaks, leader, daemon, cancels, python>>

LeaderExits(t) ==
  /\ leader[t] = "alive"
  /\ leader' = [leader EXCEPT ![t] = "exited"]
  /\ UNCHANGED <<runnerVars, execVars, run, runCancel, breaks, child, daemon, cancels, python>>

ChildExits(t) ==
  /\ child[t] = "alive"
  /\ child' = [child EXCEPT ![t] = "gone"]
  /\ UNCHANGED <<runnerVars, execVars, run, runCancel, breaks, leader, daemon, cancels, python>>

(* The event loop learns of the leader's exit: returncode is set. *)
Reap(t) ==
  /\ leader[t] = "exited"
  /\ leader' = [leader EXCEPT ![t] = "reaped"]
  /\ UNCHANGED <<runnerVars, execVars, run, runCancel, breaks, child, daemon, cancels, python>>

-----------------------------------------------------------------------------
(* _runner *)

(* An open task is launched; _execute of a closed one returns at once.     *)
Take(t) ==
  /\ runner = "get" /\ ~runnerCancel /\ t \in queue
  /\ queue' = queue \ {t} /\ cur' = t /\ runner' = "await"
  /\ IF outcome[t] = "open"
       THEN /\ exec' = [exec EXCEPT ![t] = "waiting"]
            /\ run' = [run EXCEPT ![t] = "io"] /\ leader' = [leader EXCEPT ![t] = "alive"]
       ELSE exec' = [exec EXCEPT ![t] = "done"] /\ UNCHANGED <<run, leader>>
  /\ UNCHANGED <<runnerCancel, execCancel, cancelled, expired, outcome, cancelReq, runCancel, breaks, child,
                 daemon, cancels, python>>

(* create_subprocess_exec raises. *)
LaunchFails(t) ==
  /\ runner = "get" /\ ~runnerCancel /\ t \in queue /\ outcome[t] = "open"
  /\ queue' = queue \ {t} /\ cur' = t /\ runner' = "await"
  /\ Conclude(t, "failed")
  /\ UNCHANGED <<runnerCancel, cancelled, expired, run, runCancel, breaks, osVars, daemon, cancels, python>>

(* Mutant of RunnerGoesOn: the task is not taken out of _running. *)
RunnerGoesOnStale ==
  /\ runner = "await" /\ exec[cur] = "done"
  /\ runner' = "get" /\ runnerCancel' = FALSE
  /\ UNCHANGED <<queue, cur, execVars, run, runCancel, breaks, osVars, daemon, cancels, python>>

(* _execute is done: the runner goes on. A CancelledError that reaches the *)
(* runner just then is swallowed.                                          *)
RunnerGoesOn ==
  /\ runner = "await" /\ exec[cur] = "done"
  /\ runner' = "get" /\ cur' = NoTask /\ runnerCancel' = FALSE
  /\ UNCHANGED <<queue, execVars, run, runCancel, breaks, osVars, daemon, cancels, python>>

(* Cancelled while _execute is under way, the runner cancels it and waits. *)
RunnerCancelled ==
  /\ runner = "await" /\ runnerCancel /\ exec[cur] # "done"
  /\ runner' = "stopping" /\ runnerCancel' = FALSE
  /\ CancelExec(cur)
  /\ UNCHANGED <<queue, cur, expired, outcome, cancelReq, run, osVars, daemon, cancels, python>>

RunnerEnds ==
  /\ \/ runner = "get" /\ runnerCancel
     \/ runner = "stopping" /\ exec[cur] = "done"
  /\ runner' = "ended" /\ cur' = NoTask /\ runnerCancel' = FALSE
  /\ UNCHANGED <<queue, execVars, run, runCancel, breaks, osVars, daemon, cancels, python>>

-----------------------------------------------------------------------------
(* The rest of the daemon *)

(* _on_cancel: the task's _execute is cancelled, or the task is closed.    *)
OnCancel(t) ==
  /\ daemon = "up" /\ cancels < MaxCancels /\ outcome[t] = "open"
  /\ cancels' = cancels + 1
  /\ cancelReq' = cancelReq \cup {t}
  /\ IF cur = t
       THEN CancelExec(t) /\ UNCHANGED outcome
       ELSE /\ outcome' = [outcome EXCEPT ![t] = "cancelled"]
            /\ UNCHANGED <<exec, execCancel, cancelled, runCancel, breaks>>
  /\ UNCHANGED <<runnerVars, expired, run, osVars, daemon, python>>

(* stop(): every loop is cancelled once, ...                               *)
Stop ==
  /\ daemon = "up" /\ daemon' = "stopping"
  /\ runnerCancel' = TRUE
  /\ UNCHANGED <<queue, cur, runner, execVars, run, runCancel, breaks, osVars, cancels, python>>

(* ... and awaited. Then asyncio.run cancels what is left.                 *)
StopReturns ==
  /\ daemon = "stopping" /\ runner = "ended"
  /\ daemon' = "stopped"
  /\ runCancel' = runCancel \cup {t \in Tasks : Running(t)}
  /\ UNCHANGED <<runnerVars, execVars, run, breaks, osVars, cancels, python>>

-----------------------------------------------------------------------------
Exec(t) == ExecReturns(t) \/ Deadline(t) \/ ExecCancelled(t) \/ ExecKilled(t) \/ ExecInterrupted(t)

KillGroup(t) == KillDone(t) \/ Escalate(t) \/ KillGivesUp(t) \/ KillInterrupted(t)

Runner == (\E t \in Tasks : Take(t) \/ LaunchFails(t)) \/ RunnerGoesOn \/ RunnerCancelled \/ RunnerEnds

Next ==
  \/ \E t \in Tasks :
       \/ Exec(t) \/ RunReturns(t) \/ RunBreaks(t) \/ KillGroup(t)
       \/ Fork(t) \/ LeaderExits(t) \/ ChildExits(t) \/ Reap(t)
       \/ OnCancel(t)
  \/ Runner \/ Stop \/ StopReturns

(* The event loop resumes what can go on: the runner, _execute (the timer  *)
(* of its deadline included), a run() that was cancelled, _kill_group (its *)
(* timers included), stop(). Processes need do nothing.                    *)
Fairness ==
  /\ WF_vars(Runner) /\ WF_vars(StopReturns)
  /\ \A t \in Tasks :
       /\ WF_vars(Exec(t)) /\ WF_vars(KillGroup(t))
       /\ WF_vars(t \in runCancel /\ RunBreaks(t))

Spec == Init /\ [][Next]_vars
FairSpec == Spec /\ Fairness

-----------------------------------------------------------------------------
(* Every variable has its type. *)
TypeOK ==
  /\ python \in Pythons
  /\ queue \subseteq Tasks /\ cur \in Tasks \cup {NoTask}
  /\ runner \in {"get", "await", "stopping", "ended"} /\ runnerCancel \in BOOLEAN
  /\ cur = NoTask <=> runner \in {"get", "ended"}
  /\ exec \in [Tasks -> {"none", "waiting", "killing", "done"}]
  /\ execCancel \subseteq Tasks /\ cancelled \subseteq Tasks /\ expired \subseteq Tasks
  /\ run \in [Tasks -> {"none", "io", "term", "kill"} \cup Ends] /\ runCancel \subseteq Tasks
  /\ breaks \in [Tasks -> Nat]
  /\ leader \in [Tasks -> {"none", "alive", "exited", "reaped"}]
  /\ child \in [Tasks -> {"none", "alive", "gone"}]
  /\ outcome \in [Tasks -> {"open"} \cup Outcomes] /\ cancelReq \subseteq Tasks
  /\ daemon \in {"up", "stopping", "stopped"} /\ cancels \in Nat

(* runtime.py:123 "never leave orphans behind": when _execute is done with *)
(* a task, delivered, failed, timed out, cancelled or left for recover(),  *)
(* the agent's process has exited; unless its run was broken off twice,    *)
(* the second time in the middle of _kill_group.                           *)
DoneIsDead == \A t \in Tasks : exec[t] = "done" /\ leader[t] = "alive" => breaks[t] > 1

(* node.py:109 "running tasks are interrupted and resumed by recover()     *)
(* next start", and no others: however a run ended, and in whatever order  *)
(* deadline, CANCEL and stop() fell, its task was closed, unless stop()    *)
(* broke it off and no CANCEL asked for that too.  (The awaits before and  *)
(* after the run are OwnerNode's, where a CANCEL can do otherwise.)        *)
OpenIsLeftByStop ==
  \A t \in Tasks : exec[t] = "done" /\ outcome[t] = "open" => daemon # "up" /\ t \notin cancelReq

(* What _execute leaves behind is settled: the process and the task.       *)
DoneIsSettled == DoneIsDead /\ OpenIsLeftByStop

(* However it behaves, a run ends: there is always a deadline, and the     *)
(* deadline ends even an agent that ignores SIGTERM or whose child holds   *)
(* its stdout.                                                             *)
RunEnds == \A t \in Tasks : exec[t] = "waiting" ~> exec[t] = "done"

(* A CANCEL of a task whose agent runs closes the task, whatever else      *)
(* breaks the run off, unless the daemon is stopped meanwhile.             *)
CancelLands == \A t \in Tasks : t \in cancelReq ~> outcome[t] # "open" \/ daemon # "up"

(* stop() returns (node.py:109: "Graceful stop: running tasks are          *)
(* interrupted"), however the agents behave; unless _runner has swallowed  *)
(* its cancellation, which it does when _execute has just ended.           *)
StopEnds ==
  daemon = "stopping" ~>
    daemon = "stopped" \/ (runner \in {"get", "await"} /\ ~runnerCancel)
=============================================================================
