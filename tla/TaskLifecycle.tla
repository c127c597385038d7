--------------------------- MODULE TaskLifecycle ---------------------------
(***************************************************************************)
(* What the owner of a task promises its requester, whatever its daemon,   *)
(* its agents and their processes do: a task is opened once, moves freely  *)
(* while open, and is closed at most once; the step that closes it is the  *)
(* step that queues the one announcement of it; a closed task never        *)
(* changes again; and a RESULT message is queued for finished tasks only:  *)
(* with the closing itself, or again for a requester that asks again.      *)
(***************************************************************************)
EXTENDS Naturals

CONSTANT Tasks

VARIABLES
  status,     \* task -> state; "none" before its REQUEST is taken
  result,     \* tasks closed with a result
  closings,   \* task -> announcements of its closing
  answers     \* task -> RESULT messages

vars == <<status, result, closings, answers>>

Open     == {"PENDING", "ACCEPTED", "RUNNING", "WAITING", "BLOCKED"}
Finished == {"COMPLETED", "FAILED"}
Terminal == Finished \cup {"CANCELLED"}

Init ==
  /\ status = [t \in Tasks |-> "none"] /\ result = {}
  /\ closings = [t \in Tasks |-> 0] /\ answers = [t \in Tasks |-> 0]

Keeps(t) == closings'[t] = closings[t] /\ (t \in result' <=> t \in result)

(* A task is opened, or moves between open states. *)
Moves(t) ==
  /\ status[t] \in Open \cup {"none"} /\ status'[t] \in Open
  /\ Keeps(t) /\ answers'[t] = answers[t]

(* A task is withdrawn or refused, open or not yet opened: no result. *)
Withdraws(t) ==
  /\ status[t] \in Open \cup {"none"} /\ status'[t] \in {"FAILED", "CANCELLED"}
  /\ closings'[t] = closings[t] + 1
  /\ answers'[t] = answers[t] /\ (t \in result' <=> t \in result)

(* A task is finished, with its result. *)
Finishes(t) ==
  /\ status[t] \in Open /\ status'[t] \in Finished
  /\ closings'[t] = closings[t] + 1
  /\ answers'[t] = answers[t] + 1 /\ t \in result'

(* Nothing happens to a task, but that its result may be sent again. *)
Stays(t) ==
  /\ status'[t] = status[t] /\ Keeps(t)
  /\ \/ answers'[t] = answers[t]
     \/ status[t] \in Finished /\ t \in result /\ answers'[t] = answers[t] + 1

Next == \A t \in Tasks : Moves(t) \/ Withdraws(t) \/ Finishes(t) \/ Stays(t)

Spec == Init /\ [][Next]_vars

(* What that comes to: a closed task was announced as closed once, an open *)
(* one never; and who has had a RESULT of a task has had that of the       *)
(* closing it is in.                                                       *)
ClosedOnce ==
  \A t \in Tasks :
    /\ closings[t] = IF status[t] \in Terminal THEN 1 ELSE 0
    /\ answers[t] > 0 <=> t \in result
    /\ t \in result => status[t] \in Finished
=============================================================================
