------------------------------ MODULE Notifier ------------------------------
(***************************************************************************)
(* The inbox of one interactive agent and who looks into it: its sessions  *)
(* (tools.inbox, which marks what it returns as seen) and the notifier of  *)
(* agentctl watch, which peeks and keeps a cursor in a file, while the     *)
(* daemon commits and handles messages.                                    *)
(*                                                                         *)
(* A row is its rowid. Rowids only grow; outgoing messages and those of    *)
(* other agents on the node take some. The daemon handles an agent's rows  *)
(* in rowid order, as module Mailbox shows.                                *)
(*                                                                         *)
(* Grain: one ledger access or transaction, one file operation.            *)
(* Abstracted: message types but for being ACTIONABLE; texts; the wait     *)
(* loop of inbox(), which reads a count before it reads the rows; the      *)
(* notification itself, which several new messages share.                  *)
(***************************************************************************)
EXTENDS Naturals, FiniteSets

CONSTANTS
  MaxRows,    \* bound: messages of the ledger
  Limit,      \* most rows inbox() returns
  MaxDeaths   \* bound: deaths of the notifier

ASSUME BoundsAssumption == MaxRows \in Nat /\ Limit \in Nat \ {0} /\ MaxDeaths \in Nat

Rows  == 1 .. MaxRows
RowId == 0 .. MaxRows
NoCursor == MaxRows + 1   \* the cursor file is missing, or cut off by a crash

VARIABLES
  last,        \* largest rowid
  state,       \* row -> "none", "new", "handled", or "hidden" (rejected, dropped, not this agent's)
  actionable,  \* rows of an ACTIONABLE type
  seen,        \* rows a session was shown, or withdrawn unseen
  withdrawing, \* row of a CANCEL whose task's rows are marked seen, 0 for none
  cursor,      \* content of the cursor file
  watch,       \* what the notifier is doing
  batch,       \* rows it is announcing
  announced,   \* row -> times announced
  start,       \* cursor the first notifier began with, NoCursor before
  lost,        \* a cursor was cut off and replaced by the end of the ledger
  deaths

ledgerVars == <<last, state, actionable, seen, withdrawing>>
watchVars  == <<watch, batch, announced>>
vars == <<ledgerVars, cursor, watchVars, start, lost, deaths>>

IsGreatest(r, S) == r \in S /\ \A q \in S : q <= r

(* The first Limit rows of S, in rowid order. *)
Page(S) == {r \in S : Cardinality({q \in S : q < r}) < Limit}

Init ==
  /\ last = 0 /\ state = [r \in Rows |-> "none"] /\ actionable = {} /\ seen = {} /\ withdrawing = 0
  /\ cursor = NoCursor /\ start = NoCursor /\ lost = FALSE
  /\ watch = "down" /\ batch = {} /\ announced = [r \in Rows |-> 0]
  /\ deaths = 0

-----------------------------------------------------------------------------
(* The daemon *)

(* A message takes the next rowid. *)
Commit ==
  /\ last < MaxRows /\ last' = last + 1
  /\ \E s \in {"new", "hidden"} : state' = [state EXCEPT ![last'] = s]
  /\ actionable' \in {actionable, actionable \cup {last'}}
  /\ UNCHANGED <<seen, withdrawing, cursor, watchVars, start, lost, deaths>>

IsNext(r) == state[r] = "new" /\ \A q \in Rows : q < r => state[q] # "new"

(* Mutants of Handle: the row's state takes what belongs in its seen flag, ... *)
HandleMarksSeen(r) ==
  /\ IsNext(r) /\ withdrawing \in {0, r}
  /\ withdrawing' = 0
  /\ \E s \in {"seen", "hidden"} : state' = [state EXCEPT ![r] = s]
  /\ UNCHANGED <<last, actionable, seen, cursor, watchVars, start, lost, deaths>>

(* ... or rows are handled in any order. *)
HandleAny(r) ==
  /\ state[r] = "new" /\ withdrawing \in {0, r}
  /\ withdrawing' = 0
  /\ \E s \in {"handled", "hidden"} : state' = [state EXCEPT ![r] = s]
  /\ UNCHANGED <<last, actionable, seen, cursor, watchVars, start, lost, deaths>>

(* The dispatcher handles the next row; a refused request is "rejected", a *)
(* handler that raises "dropped".                                          *)
Handle(r) ==
  /\ IsNext(r) /\ withdrawing \in {0, r}
  /\ withdrawing' = 0
  /\ \E s \in {"handled", "hidden"} : state' = [state EXCEPT ![r] = s]
  /\ UNCHANGED <<last, actionable, seen, cursor, watchVars, start, lost, deaths>>

(* A CANCEL of a PENDING task: its rows, this one too, need no look        *)
(* (ledger.mark_seen), before the CANCEL itself is marked handled.         *)
WithdrawTask(r, q) ==
  /\ IsNext(r) /\ withdrawing = 0
  /\ q < r /\ state[q] = "handled"
  /\ seen' = seen \cup {q, r} /\ withdrawing' = r
  /\ UNCHANGED <<last, state, actionable, cursor, watchVars, start, lost, deaths>>

(* ledger.unseen *)
Unseen(types, since) == Page({r \in types : state[r] = "handled" /\ r \notin seen /\ r > since})

(* A session looks into the inbox: what it returns is seen. *)
ReadInbox ==
  /\ seen' = seen \cup Unseen(Rows, 0) /\ seen' # seen
  /\ UNCHANGED <<last, state, actionable, withdrawing, cursor, watchVars, start, lost, deaths>>

-----------------------------------------------------------------------------
(* The notifier *)

(* cmd_watch starts: without a cursor it begins at the end of the ledger. *)
WatchStart ==
  /\ watch = "down" /\ watch' = "waiting" /\ batch' = {}
  /\ cursor' = IF cursor = NoCursor THEN last ELSE cursor
  /\ start' = IF start = NoCursor THEN cursor' ELSE start
  /\ lost' = (lost \/ (cursor = NoCursor /\ start # NoCursor))
  /\ UNCHANGED <<ledgerVars, announced, deaths>>

(* inbox(peek): the next page of actionable rows past the cursor. *)
Peek ==
  /\ watch = "waiting"
  /\ batch' = Unseen(actionable, cursor) /\ batch' # {}
  /\ watch' = "notifying"
  /\ UNCHANGED <<ledgerVars, cursor, announced, start, lost, deaths>>

Notify ==
  /\ watch = "notifying" /\ watch' = "saving"
  /\ announced' = [r \in Rows |-> announced[r] + IF r \in batch THEN 1 ELSE 0]
  /\ UNCHANGED <<ledgerVars, batch, cursor, start, lost, deaths>>

(* write_text cuts the file off before it writes it. *)
Truncate ==
  /\ watch = "saving" /\ watch' = "writing"
  /\ cursor' = NoCursor
  /\ UNCHANGED <<ledgerVars, batch, announced, start, lost, deaths>>

(* Mutants of SaveCursor: the end of the ledger is saved, ... *)
SaveEnd ==
  /\ watch = "writing" /\ watch' = "waiting"
  /\ cursor' = last
  /\ UNCHANGED <<ledgerVars, batch, announced, start, lost, deaths>>

(* ... or the first row announced. *)
SaveFirst ==
  /\ watch = "writing" /\ watch' = "waiting"
  /\ \E r \in batch : (\A q \in batch : r <= q) /\ cursor' = r
  /\ UNCHANGED <<ledgerVars, batch, announced, start, lost, deaths>>

SaveCursor ==
  /\ watch = "writing" /\ watch' = "waiting"
  /\ \E r \in batch : IsGreatest(r, batch) /\ cursor' = r
  /\ UNCHANGED <<ledgerVars, batch, announced, start, lost, deaths>>

WatchDies ==
  /\ watch # "down" /\ watch' = "down"
  /\ deaths < MaxDeaths /\ deaths' = deaths + 1
  /\ UNCHANGED <<ledgerVars, cursor, batch, announced, start, lost>>

-----------------------------------------------------------------------------
Watch == WatchStart \/ Peek \/ Notify \/ Truncate \/ SaveCursor

Next ==
  \/ Commit
  \/ \E r \in Rows : Handle(r)
  \/ \E r, q \in Rows : WithdrawTask(r, q)
  \/ ReadInbox
  \/ Watch
  \/ WatchDies

Spec == Init /\ [][Next]_vars

(* The notifier is a service that is started again, and goes on; the       *)
(* dispatcher goes on. Sessions need not look.                             *)
FairSpec == Spec /\ WF_vars(Watch) /\ WF_vars(\E r \in Rows : Handle(r))

-----------------------------------------------------------------------------
(* Every variable has its type. *)
TypeOK ==
  /\ last \in RowId /\ state \in [Rows -> {"none", "new", "handled", "hidden"}]
  /\ actionable \subseteq Rows /\ seen \subseteq Rows /\ withdrawing \in RowId
  /\ cursor \in RowId \cup {NoCursor} /\ start \in RowId \cup {NoCursor}
  /\ watch \in {"down", "waiting", "notifying", "saving", "writing"}
  /\ batch \subseteq Rows /\ announced \in [Rows -> Nat]
  /\ lost \in BOOLEAN /\ deaths \in Nat

(* Rows somebody should hear of: actionable, handled, not seen and newer   *)
(* than the first start of the notifier.                                   *)
Due == {r \in actionable : state[r] = "handled" /\ r \notin seen /\ r > start}

(* The cursor never passes a row that was not announced, although rows are *)
(* handled, and thereby become visible, after rows of higher rowids exist; *)
(* unless a death cut the cursor off.                                      *)
NoneSkipped == ~lost => \A r \in Due : r <= cursor /\ cursor # NoCursor => announced[r] > 0

(* A message is announced again only when the notifier died with it.       *)
RepeatedByDeath == \A r \in Rows : announced[r] <= 1 + deaths

(* Every row due is announced or seen in the end, a page at a time; unless *)
(* a death cut the cursor off.                                             *)
EventuallyAnnounced == \A r \in Rows : r \in Due ~> (announced[r] > 0 \/ r \in seen \/ lost)
=============================================================================
