----------------------------- MODULE TaskRecord -----------------------------
(***************************************************************************)
(* The record of one owned task in the shared KV store and what task_view  *)
(* makes of it: several processes and coroutines of the owner's node move  *)
(* the task and each mirrors it (owner_transition, finish,                 *)
(* publish_task_record); the requester merges the record with its own row. *)
(*                                                                         *)
(* Grain: one ledger transaction, one KV operation. Publishers read the    *)
(* ledger in one step and their put is stored, or fails, in a later one.   *)
(* A row is its status and its updated_at. Announcements are handled in    *)
(* any order, and again after a death, as module Mailbox shows.            *)
(* Clocks: milliseconds, so two writes may share one; the requester's      *)
(* clock differs from the owner's by Skew.                                 *)
(*                                                                         *)
(* Abstracted: results, threads and refs, which travel with the status;    *)
(* RUNNING stands for every open state a task moves to.                    *)
(***************************************************************************)
EXTENDS Integers

CONSTANTS
  Publishers,  \* processes and coroutines of the owner's node
  Skew,        \* requester's clock minus owner's clock
  MaxTime,     \* bound: the last millisecond anything is written in
  MaxFails     \* bound: puts and lookups that fail, publishers that die

ASSUME ClockAssumption == Skew \in Int /\ MaxTime \in Nat
ASSUME BoundsAssumption == MaxFails \in Nat

Terminal == {"COMPLETED", "FAILED", "CANCELLED"}
Moves    == {"RUNNING"} \cup Terminal
States   == {"PENDING"} \cup Moves
Row      == [status : States, at : Int]
NoRow    == [status |-> "none", at |-> 0]

VARIABLES
  now,        \* the owner's clock
  own,        \* owner's ledger: the task's row
  pub,        \* publisher -> "idle", "read" (about to read the row) or the row it puts
  record,     \* the KV record
  mail,       \* states announced to the requester and not yet handled
  local,      \* requester's ledger: its row
  withdrawn,  \* cancel_task closed that row
  looking,    \* task_view has read this row and not yet the record
  view,       \* status task_view returned last
  fails

ownerVars     == <<own, pub, record>>
requesterVars == <<local, withdrawn>>
viewVars      == <<looking, view>>
vars == <<now, ownerVars, mail, requesterVars, viewVars, fails>>

Idle    == [step |-> "idle", row |-> NoRow]
ToRead  == [step |-> "read", row |-> NoRow]
Put(r)  == [step |-> "put", row |-> r]

(* Time passes, or does not, before a write. *)
Tick == now' \in now .. now + 1 /\ now' <= MaxTime

Init ==
  /\ now = 0
  /\ own = [status |-> "PENDING", at |-> 0] /\ local = [status |-> "PENDING", at |-> Skew]
  /\ pub = [p \in Publishers |-> Idle] /\ record = NoRow
  /\ mail = {} /\ withdrawn = FALSE
  /\ looking = NoRow /\ view = "none"
  /\ fails = 0

-----------------------------------------------------------------------------
(* The owner's node *)

(* Mutant of OwnerTransition: what ledger.update_task refuses is announced all the same. *)
OwnerTransitionAnnounced(p, s) ==
  /\ pub[p] = Idle
  /\ Tick
  /\ mail' = mail \cup {s} /\ pub' = [pub EXCEPT ![p] = ToRead]
  /\ own' = IF own.status \in Terminal THEN own ELSE [status |-> s, at |-> now']
  /\ UNCHANGED <<record, requesterVars, viewVars, fails>>

(* owner_transition or finish: the row and its announcement in one         *)
(* transaction, refused for a closed task; then the record is published.   *)
OwnerTransition(p, s) ==
  /\ pub[p] = Idle /\ own.status \notin Terminal
  /\ Tick
  /\ own' = [status |-> s, at |-> now'] /\ mail' = mail \cup {s} /\ pub' = [pub EXCEPT ![p] = ToRead]
  /\ UNCHANGED <<record, requesterVars, viewVars, fails>>

(* bump_attempts, result_draft: updated_at moves alone, even if closed. *)
Touch ==
  /\ Tick /\ own' = [own EXCEPT !.at = now']
  /\ UNCHANGED <<pub, record, mail, requesterVars, viewVars, fails>>

(* publish_task_record without a transition: _on_request, recover. *)
Publish(p) ==
  /\ pub[p] = Idle
  /\ pub' = [pub EXCEPT ![p] = ToRead]
  /\ UNCHANGED <<now, own, record, mail, requesterVars, viewVars, fails>>

ReadRow(p) ==
  /\ pub[p] = ToRead
  /\ pub' = [pub EXCEPT ![p] = Put(own)]
  /\ UNCHANGED <<now, own, record, mail, requesterVars, viewVars, fails>>

PutStored(p) ==
  /\ pub[p].step = "put"
  /\ record' = pub[p].row /\ pub' = [pub EXCEPT ![p] = Idle]
  /\ UNCHANGED <<now, own, mail, requesterVars, viewVars, fails>>

(* A put that raises is logged and not repeated; or the process dies. *)
PutFails(p) ==
  /\ pub[p] # Idle
  /\ fails < MaxFails /\ fails' = fails + 1
  /\ pub' = [pub EXCEPT ![p] = Idle]
  /\ UNCHANGED <<now, own, record, mail, requesterVars, viewVars>>

-----------------------------------------------------------------------------
(* The requester's node *)

(* _on_reply: the row follows the announcement unless it is closed. *)
OnReply(s) ==
  /\ s \in mail /\ Tick
  /\ mail' \in {mail, mail \ {s}}
  /\ local' = IF local.status \in Terminal THEN local ELSE [status |-> s, at |-> now' + Skew]
  /\ UNCHANGED <<ownerVars, withdrawn, viewVars, fails>>

(* A reply that carries no state moves updated_at alone, even if closed. *)
OnOtherReply ==
  /\ Tick /\ local' = [local EXCEPT !.at = now' + Skew]
  /\ UNCHANGED <<ownerVars, mail, withdrawn, viewVars, fails>>

(* cancel_task closes the requester's row. *)
Withdraw ==
  /\ local.status \notin Terminal /\ Tick
  /\ local' = [status |-> "CANCELLED", at |-> now' + Skew] /\ withdrawn' = TRUE
  /\ UNCHANGED <<ownerVars, mail, viewVars, fails>>

(* Mutant of Merge: of two changes in the same millisecond the owner's wins. *)
MergeOwner(mine, remote) ==
  IF remote = NoRow \/ mine.at > remote.at THEN mine.status ELSE remote.status

(* task_view prefers "whichever side saw the more recent change". *)
Merge(mine, remote) ==
  IF remote = NoRow \/ mine.at >= remote.at THEN mine.status ELSE remote.status

(* task_view, by itself or in the loop of wait_result. *)
LookLocal ==
  /\ looking = NoRow /\ looking' = local
  /\ UNCHANGED <<now, ownerVars, mail, requesterVars, view, fails>>

Look(status) ==
  /\ looking # NoRow /\ looking' = NoRow
  /\ view' = status
  /\ UNCHANGED <<now, ownerVars, mail, requesterVars>>

LookRemote == Look(Merge(looking, record)) /\ fails' = fails

(* Mutant of LookFails: a record that cannot be read is no view. *)
LookUnreachable == fails < MaxFails /\ fails' = fails + 1 /\ Look("unreachable")

(* The record is out of reach: the local row is all there is. *)
LookFails == fails < MaxFails /\ fails' = fails + 1 /\ Look(looking.status)

-----------------------------------------------------------------------------
Publisher(p) ==
  \/ \E s \in Moves : OwnerTransition(p, s)
  \/ Publish(p) \/ ReadRow(p) \/ PutStored(p) \/ PutFails(p)

Requester ==
  \/ \E s \in Moves : OnReply(s)
  \/ OnOtherReply \/ Withdraw \/ LookLocal \/ LookRemote \/ LookFails

Next == (\E p \in Publishers : Publisher(p)) \/ Touch \/ Requester

Spec == Init /\ [][Next]_vars

-----------------------------------------------------------------------------
(* Every variable has its type. *)
TypeOK ==
  /\ now \in Nat /\ own \in Row /\ local \in Row
  /\ pub \in [Publishers -> [step : {"idle", "read", "put"}, row : Row \cup {NoRow}]]
  /\ record \in Row \cup {NoRow} /\ looking \in Row \cup {NoRow}
  /\ mail \subseteq Moves /\ withdrawn \in BOOLEAN
  /\ view \in States \cup {"none"}
  /\ fails \in Nat

(* A record that says the task is closed says how, however its publishers  *)
(* overtake each other.                                                    *)
RecordIsTrue == record.status \in Terminal => record.status = own.status

(* What a requester who did not withdraw the task is told of its end       *)
(* (task_view, wait_result) is how the owner closed it.                    *)
ViewIsTrue == ~withdrawn /\ view \in Terminal => view = own.status

(* When the closing announcement has been handled, every look from then on *)
(* shows the task closed, so wait_result ends; whatever the record says,   *)
(* as long as the requester's clock is not behind the owner's (Skew >= 0). *)
HandledIsSeen ==
  ~withdrawn /\ local.status \in Terminal => \A remote \in {record, NoRow} : Merge(local, remote) \in Terminal
=============================================================================
