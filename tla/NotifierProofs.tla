--------------------------- MODULE NotifierProofs ---------------------------
(* Proofs about Notifier, for any number of rows and deaths and any Limit. *)
EXTENDS Notifier, FiniteSetTheorems, TLAPS

(***************************************************************************)
(* Types                                                                   *)
(***************************************************************************)

LEMMA InitTypeOK == Init => TypeOK
<1> SUFFICES ASSUME Init PROVE TypeOK OBVIOUS
<1>1. last \in RowId /\ withdrawing \in RowId BY BoundsAssumption DEF Init, RowId
<1>2. state \in [Rows -> {"none", "new", "handled", "hidden"}] BY DEF Init
<1>3. announced \in [Rows -> Nat] BY DEF Init
<1> QED BY <1>1, <1>2, <1>3 DEF Init, TypeOK

LEMMA StepTypeOK == TypeOK /\ [Next]_vars => TypeOK'
<1> SUFFICES ASSUME TypeOK, [Next]_vars PROVE TypeOK' OBVIOUS
<1> USE BoundsAssumption DEF TypeOK, Rows, RowId, NoCursor, ledgerVars, watchVars
<1>1. CASE Commit
  <2>1. last' \in Rows /\ last' \in RowId BY <1>1 DEF Commit
  <2> QED BY <1>1, <2>1 DEF Commit
<1>2. ASSUME NEW r \in Rows, Handle(r) PROVE TypeOK' BY <1>2 DEF Handle
<1>3. ASSUME NEW r \in Rows, NEW q \in Rows, WithdrawTask(r, q) PROVE TypeOK' BY <1>3 DEF WithdrawTask
<1>4. CASE ReadInbox
  <2>1. seen' \subseteq Rows BY <1>4 DEF ReadInbox, Unseen, Page
  <2> QED BY <1>4, <2>1 DEF ReadInbox
<1>5. CASE WatchStart BY <1>5 DEF WatchStart
<1>6. CASE Peek
  <2>1. batch' \subseteq Rows BY <1>6 DEF Peek, Unseen, Page
  <2> QED BY <1>6, <2>1 DEF Peek
<1>7. CASE Notify
  <2>1. announced' \in [Rows -> Nat] BY <1>7 DEF Notify
  <2> QED BY <1>7, <2>1 DEF Notify
<1>8. CASE Truncate BY <1>8 DEF Truncate
<1>9. CASE SaveCursor BY <1>9 DEF SaveCursor, IsGreatest
<1>10. CASE WatchDies BY <1>10 DEF WatchDies
<1>11. CASE UNCHANGED vars BY <1>11 DEF vars
<1> QED BY <1>1, <1>2, <1>3, <1>4, <1>5, <1>6, <1>7, <1>8, <1>9, <1>10, <1>11 DEF Next, Watch

(* Every variable of Notifier keeps its type. *)
THEOREM TypeCorrect == Spec => []TypeOK
BY InitTypeOK, StepTypeOK, PTL DEF Spec

(***************************************************************************)
(* Repetitions                                                             *)
(***************************************************************************)

(* What is still to be announced was announced by dead notifiers only: the *)
(* rows past the cursor and, while a batch is announced and its cursor not *)
(* yet written, the rows past the batch.                                   *)
RepeatInv ==
  /\ RepeatedByDeath
  /\ watch = "down" => \A r \in Rows : announced[r] <= deaths
  /\ watch \in {"waiting", "notifying"} => \A r \in Rows : r > cursor => announced[r] <= deaths
  /\ watch \in {"notifying", "saving", "writing"} => batch # {}
  /\ watch = "notifying" => \A r \in batch : r > cursor
  /\ watch \in {"saving", "writing"} =>
       \A r \in Rows : (\A b \in batch : b < r) => announced[r] <= deaths

LEMMA StepRepeatInv == TypeOK /\ RepeatInv /\ [Next]_vars => RepeatInv'
<1> SUFFICES ASSUME TypeOK, RepeatInv, [Next]_vars PROVE RepeatInv' OBVIOUS
<1> USE BoundsAssumption DEF TypeOK, RepeatInv, RepeatedByDeath, Rows, RowId, NoCursor, ledgerVars, watchVars
<1>1. CASE Commit BY <1>1 DEF Commit
<1>2. ASSUME NEW r \in Rows, Handle(r) PROVE RepeatInv' BY <1>2 DEF Handle
<1>3. ASSUME NEW r \in Rows, NEW q \in Rows, WithdrawTask(r, q) PROVE RepeatInv' BY <1>3 DEF WithdrawTask
<1>4. CASE ReadInbox BY <1>4 DEF ReadInbox
<1>5. CASE WatchStart BY <1>5 DEF WatchStart
<1>6. CASE Peek
  <2>1. \A r \in batch' : r > cursor BY <1>6 DEF Peek, Unseen, Page
  <2> QED BY <1>6, <2>1 DEF Peek
<1>7. CASE Notify
  <2>1. \A r \in Rows : announced'[r] = announced[r] + (IF r \in batch THEN 1 ELSE 0) BY <1>7 DEF Notify
  <2>2. RepeatedByDeath'
    <3> SUFFICES ASSUME NEW r \in Rows PROVE announced'[r] <= 1 + deaths BY <1>7 DEF Notify
    <3>1. CASE r \in batch
      <4>1. r > cursor /\ announced[r] <= deaths BY <1>7, <3>1 DEF Notify
      <4> QED BY <2>1, <3>1, <4>1
    <3>2. CASE r \notin batch BY <2>1, <3>2
    <3> QED BY <3>1, <3>2
  <2>3. ASSUME NEW r \in Rows, \A b \in batch : b < r PROVE announced'[r] <= deaths
    <3>1. PICK b \in batch : b < r BY <1>7, <2>3 DEF Notify
    <3>2. r > cursor /\ announced[r] <= deaths BY <1>7, <3>1 DEF Notify
    <3>3. r \notin batch BY <2>3
    <3> QED BY <2>1, <3>2, <3>3
  <2> QED BY <1>7, <2>2, <2>3 DEF Notify
<1>8. CASE Truncate BY <1>8 DEF Truncate
<1>9. CASE SaveCursor
  <2>1. PICK g \in batch : IsGreatest(g, batch) /\ cursor' = g BY <1>9 DEF SaveCursor
  <2>2. ASSUME NEW r \in Rows, r > cursor' PROVE announced[r] <= deaths
    <3>1. \A b \in batch : b < r BY <2>1, <2>2 DEF IsGreatest
    <3> QED BY <1>9, <3>1 DEF SaveCursor
  <2> QED BY <1>9, <2>2 DEF SaveCursor
<1>10. CASE WatchDies BY <1>10 DEF WatchDies
<1>11. CASE UNCHANGED vars BY <1>11 DEF vars
<1> QED BY <1>1, <1>2, <1>3, <1>4, <1>5, <1>6, <1>7, <1>8, <1>9, <1>10, <1>11 DEF Next, Watch

(* A row is announced again only by a notifier that runs because an        *)
(* earlier one died (cmd_watch writes the cursor behind the notification). *)
THEOREM RepeatedOnlyByDeath == Spec => []RepeatedByDeath
<1>1. Init => RepeatInv BY BoundsAssumption DEF Init, RepeatInv, RepeatedByDeath
<1>2. RepeatInv => RepeatedByDeath BY DEF RepeatInv
<1> QED BY InitTypeOK, StepTypeOK, <1>1, StepRepeatInv, <1>2, PTL DEF Spec

(***************************************************************************)
(* Omissions                                                               *)
(***************************************************************************)

(* A page has every row of S that is not greater than one of its rows. *)
LEMMA PageIsPrefix ==
  ASSUME NEW S \in SUBSET Rows, NEW b \in Page(S), NEW r \in S, r <= b
  PROVE  r \in Page(S)
<1> DEFINE Below(n) == {q \in S : q < n}
<1>1. IsFiniteSet(Rows) BY FS_Interval, BoundsAssumption DEF Rows
<1>2. IsFiniteSet(Below(b)) /\ Below(b) \subseteq Rows BY <1>1, FS_Subset
<1>3. Below(r) \subseteq Below(b)
  <2>1. b \in Nat /\ r \in Nat /\ S \subseteq Nat BY BoundsAssumption DEF Rows, Page
  <2>2. ASSUME NEW q \in S, q < r PROVE q < b BY <2>1, <2>2
  <2> QED BY <2>2
<1>4. Cardinality(Below(r)) <= Cardinality(Below(b)) BY <1>2, <1>3, FS_Subset
<1>5. Cardinality(Below(r)) \in Nat /\ Cardinality(Below(b)) \in Nat
  BY <1>2, <1>3, FS_Subset, FS_CardinalityType
<1>6. Cardinality(Below(b)) < Limit BY DEF Page
<1>7. Cardinality(Below(r)) < Limit BY <1>4, <1>5, <1>6, BoundsAssumption
<1> QED BY <1>7 DEF Page

(* Rows are committed and handled in order, so a handled row has no new    *)
(* row before it.                                                          *)
OrderInv ==
  /\ \A r \in Rows : r > last => state[r] = "none"
  /\ \A r, q \in Rows : state[r] = "handled" /\ q < r => state[q] # "new"

LEMMA StepOrderInv == TypeOK /\ OrderInv /\ [Next]_vars => OrderInv'
<1> SUFFICES ASSUME TypeOK, OrderInv, [Next]_vars PROVE OrderInv' OBVIOUS
<1> USE BoundsAssumption DEF TypeOK, OrderInv, Rows, RowId, ledgerVars
<1>1. CASE Commit
  <2>1. last' \in Rows BY <1>1 DEF Commit
  <2>2. PICK s \in {"new", "hidden"} : state' = [state EXCEPT ![last'] = s] BY <1>1 DEF Commit
  <2>3. \A r \in Rows : state'[r] = IF r = last' THEN s ELSE state[r] BY <2>1, <2>2
  <2>4. \A r \in Rows : r > last' => state'[r] = "none" BY <1>1, <2>3 DEF Commit
  <2>5. ASSUME NEW r \in Rows, NEW q \in Rows, state'[r] = "handled", q < r PROVE state'[q] # "new"
    <3>1. r # last' /\ state[r] = "handled" BY <2>3, <2>5
    <3>2. q # last' BY <1>1, <2>5, <3>1 DEF Commit
    <3> QED BY <2>3, <2>5, <3>1, <3>2
  <2> QED BY <2>4, <2>5
<1>2. ASSUME NEW r \in Rows, Handle(r) PROVE OrderInv'
  <2>1. PICK s \in {"handled", "hidden"} : state' = [state EXCEPT ![r] = s] BY <1>2 DEF Handle
  <2>2. \A q \in Rows : state'[q] = IF q = r THEN s ELSE state[q] BY <2>1
  <2>3. state[r] = "new" /\ \A q \in Rows : q < r => state[q] # "new" BY <1>2 DEF Handle, IsNext
  <2>4. last' = last BY <1>2 DEF Handle
  <2>5. \A q \in Rows : q > last' => state'[q] = "none" BY <2>2, <2>3, <2>4
  <2>6. \A p, q \in Rows : state'[p] = "handled" /\ q < p => state'[q] # "new" BY <2>2, <2>3
  <2> QED BY <2>5, <2>6
<1>3. ASSUME NEW r \in Rows, NEW q \in Rows, WithdrawTask(r, q) PROVE OrderInv' BY <1>3 DEF WithdrawTask
<1>4. CASE ReadInbox BY <1>4 DEF ReadInbox
<1>5. CASE Watch BY <1>5 DEF Watch, WatchStart, Peek, Notify, Truncate, SaveCursor
<1>6. CASE WatchDies BY <1>6 DEF WatchDies
<1>7. CASE UNCHANGED vars BY <1>7 DEF vars
<1> QED BY <1>1, <1>2, <1>3, <1>4, <1>5, <1>6, <1>7 DEF Next

(* The cursor is where the notifier began or a handled row; what is due up *)
(* to it, and, while its batch is announced, up to the rows of the batch,  *)
(* is announced.                                                           *)
CursorInv ==
  /\ start = NoCursor => cursor = NoCursor /\ watch = "down"
  /\ watch \in {"waiting", "notifying", "saving"} => cursor # NoCursor
  /\ ~lost /\ cursor # NoCursor /\ cursor # start => cursor \in Rows /\ state[cursor] = "handled"
  /\ watch \in {"notifying", "saving", "writing"} => \A b \in batch : state[b] = "handled"

Covered(r) == announced[r] > 0 \/ (watch = "notifying" /\ r \in batch)

SkipInv ==
  /\ NoneSkipped
  /\ ~lost /\ watch \in {"notifying", "saving", "writing"} =>
       \A r \in Due : \A b \in batch : r <= b => Covered(r)

LEMMA StepCursorInv == TypeOK /\ OrderInv /\ CursorInv /\ [Next]_vars => CursorInv'
<1> SUFFICES ASSUME TypeOK, OrderInv, CursorInv, [Next]_vars PROVE CursorInv' OBVIOUS
<1> USE BoundsAssumption DEF TypeOK, CursorInv, Rows, RowId, NoCursor, ledgerVars, watchVars
<1>1. CASE Commit
  <2>1. ASSUME NEW r \in Rows, state[r] = "handled" PROVE state'[r] = "handled"
    BY <1>1, <2>1 DEF Commit, OrderInv
  <2> QED BY <1>1, <2>1 DEF Commit
<1>2. ASSUME NEW r \in Rows, Handle(r) PROVE CursorInv'
  <2>1. \A q \in Rows : state[q] = "handled" => state'[q] = "handled" BY <1>2 DEF Handle, IsNext
  <2> QED BY <1>2, <2>1 DEF Handle
<1>3. ASSUME NEW r \in Rows, NEW q \in Rows, WithdrawTask(r, q) PROVE CursorInv' BY <1>3 DEF WithdrawTask
<1>4. CASE ReadInbox BY <1>4 DEF ReadInbox
<1>5. CASE WatchStart
  <2>1. start' # NoCursor /\ cursor' # NoCursor BY <1>5 DEF WatchStart
  <2>2. CASE cursor # NoCursor
    <3>1. cursor' = cursor /\ start' = start /\ (lost' => lost) /\ (lost => lost')
      BY <1>5, <2>2 DEF WatchStart
    <3> QED BY <1>5, <2>1, <2>2, <3>1 DEF WatchStart
  <2>3. CASE cursor = NoCursor /\ start = NoCursor BY <1>5, <2>1, <2>3 DEF WatchStart
  <2>4. CASE cursor = NoCursor /\ start # NoCursor
    <3>1. lost' BY <1>5, <2>4 DEF WatchStart
    <3> QED BY <1>5, <2>1, <3>1 DEF WatchStart
  <2> QED BY <2>2, <2>3, <2>4
<1>6. CASE Peek
  <2>1. \A b \in batch' : state[b] = "handled" BY <1>6 DEF Peek, Unseen, Page
  <2> QED BY <1>6, <2>1 DEF Peek
<1>7. CASE Notify BY <1>7 DEF Notify
<1>8. CASE Truncate BY <1>8 DEF Truncate
<1>9. CASE SaveCursor BY <1>9 DEF SaveCursor, IsGreatest
<1>10. CASE WatchDies BY <1>10 DEF WatchDies
<1>11. CASE UNCHANGED vars BY <1>11 DEF vars
<1> QED BY <1>1, <1>2, <1>3, <1>4, <1>5, <1>6, <1>7, <1>8, <1>9, <1>10, <1>11 DEF Next, Watch

LEMMA StepSkipInv == TypeOK /\ TypeOK' /\ OrderInv /\ CursorInv /\ SkipInv /\ [Next]_vars => SkipInv'
<1> SUFFICES ASSUME TypeOK, TypeOK', OrderInv, CursorInv, SkipInv, [Next]_vars PROVE SkipInv' OBVIOUS
<1> USE BoundsAssumption DEF TypeOK, SkipInv, NoneSkipped, Covered, Rows, RowId, NoCursor, ledgerVars, watchVars
<1>a. ASSUME Due' \subseteq Due, UNCHANGED <<cursor, watchVars, lost>> PROVE SkipInv' BY <1>a
<1>1. CASE Commit
  <2>1. PICK s \in {"new", "hidden"} : state' = [state EXCEPT ![last'] = s] BY <1>1 DEF Commit
  <2>2. Due' \subseteq Due BY <1>1, <2>1 DEF Due, Commit
  <2> QED BY <1>a, <1>1, <2>2 DEF Commit
<1>2. ASSUME NEW r \in Rows, Handle(r) PROVE SkipInv'
  <2>1. Due' \subseteq Due \cup {r} BY <1>2 DEF Due, Handle
  <2>2. state[r] = "new" BY <1>2 DEF Handle, IsNext
  <2>3. \A q \in Rows : state[q] = "handled" => r > q
    BY <2>2 DEF OrderInv
  <2>4. ~lost /\ r \in Due' /\ cursor # NoCursor => r > cursor
    BY <1>2, <2>3 DEF CursorInv, Due, Handle
  <2>5. watch \in {"notifying", "saving", "writing"} => \A b \in batch : r > b
    BY <2>3 DEF CursorInv
  <2>6. UNCHANGED <<cursor, watchVars, lost>> BY <1>2 DEF Handle
  <2>7. NoneSkipped' BY <2>1, <2>4, <2>6
  <2>8. ASSUME ~lost', watch' \in {"notifying", "saving", "writing"},
               NEW q \in Due', NEW b \in batch', q <= b
        PROVE  Covered(q)'
    <3>1. b \in batch /\ q # r BY <2>5, <2>6, <2>8
    <3> QED BY <2>1, <2>6, <2>8, <3>1
  <2> QED BY <2>7, <2>8
<1>3. ASSUME NEW r \in Rows, NEW q \in Rows, WithdrawTask(r, q) PROVE SkipInv'
  BY <1>a, <1>3 DEF WithdrawTask, Due
<1>4. CASE ReadInbox BY <1>a, <1>4 DEF ReadInbox, Due
<1>5. CASE WatchStart
  <2>1. CASE cursor = NoCursor /\ start = NoCursor
    <3>1. Due' = {} BY <1>5, <2>1 DEF WatchStart, Due, OrderInv
    <3> QED BY <1>5, <3>1 DEF WatchStart
  <2>2. CASE cursor = NoCursor /\ start # NoCursor BY <1>5, <2>2 DEF WatchStart
  <2>3. CASE cursor # NoCursor
    <3>1. Due' = Due BY <1>5, <2>3 DEF WatchStart, Due, CursorInv
    <3> QED BY <1>5, <2>3, <3>1 DEF WatchStart
  <2> QED BY <2>1, <2>2, <2>3
<1>6. CASE Peek
  <2> DEFINE T == {r \in actionable : state[r] = "handled" /\ r \notin seen /\ r > cursor}
  <2>1. Due' = Due /\ batch' = Page(T) BY <1>6 DEF Peek, Due, Unseen
  <2>2. ASSUME ~lost, NEW r \in Due, NEW b \in batch', r <= b PROVE Covered(r)'
    <3>1. cursor # NoCursor BY <1>6 DEF Peek, CursorInv
    <3>2. CASE r <= cursor BY <1>6, <2>2, <3>1, <3>2 DEF Peek
    <3>3. CASE r > cursor
      <4>1. r \in T /\ T \in SUBSET Rows BY <3>3 DEF Due
      <4>2. r \in Page(T) BY <2>1, <2>2, <4>1, PageIsPrefix
      <4> QED BY <1>6, <2>1, <4>2 DEF Peek
    <3> QED BY <2>2, <3>2, <3>3 DEF Due
  <2> QED BY <1>6, <2>1, <2>2 DEF Peek
<1>7. CASE Notify
  <2>1. \A r \in Rows : announced'[r] = announced[r] + (IF r \in batch THEN 1 ELSE 0) BY <1>7 DEF Notify
  <2>2. \A r \in Rows : announced[r] > 0 \/ r \in batch => announced'[r] > 0 BY <2>1
  <2>3. Due' = Due /\ Due \subseteq Rows BY <1>7 DEF Notify, Due
  <2> QED BY <1>7, <2>2, <2>3 DEF Notify
<1>8. CASE Truncate BY <1>8 DEF Truncate, Due
<1>9. CASE SaveCursor
  <2>1. PICK g \in batch : IsGreatest(g, batch) /\ cursor' = g BY <1>9 DEF SaveCursor
  <2>2. Due' = Due BY <1>9 DEF SaveCursor, Due
  <2> QED BY <1>9, <2>1, <2>2 DEF SaveCursor
<1>10. CASE WatchDies BY <1>10 DEF WatchDies, Due
<1>11. CASE UNCHANGED vars BY <1>11 DEF vars, Due
<1> QED BY <1>1, <1>2, <1>3, <1>4, <1>5, <1>6, <1>7, <1>8, <1>9, <1>10, <1>11 DEF Next, Watch

(* The cursor never passes a row that is due and was not announced,        *)
(* although rows become visible after younger ones exist; unless a death   *)
(* cut the cursor off (cmd_watch, Ledger.unseen).                          *)
THEOREM NothingIsSkipped == Spec => []NoneSkipped
<1>1. Init => OrderInv BY DEF Init, OrderInv
<1>2. Init => CursorInv BY DEF Init, CursorInv
<1>3. Init => SkipInv BY DEF Init, SkipInv, NoneSkipped, Due
<1>4. SkipInv => NoneSkipped BY DEF SkipInv
<1> QED BY InitTypeOK, StepTypeOK, <1>1, StepOrderInv, <1>2, StepCursorInv, <1>3, StepSkipInv, <1>4, PTL
        DEF Spec
=============================================================================
