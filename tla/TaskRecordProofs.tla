-------------------------- MODULE TaskRecordProofs --------------------------
(* Proofs about TaskRecord, for any publishers, times and failures.        *)
EXTENDS TaskRecord, TLAPS

(***************************************************************************)
(* Types                                                                   *)
(***************************************************************************)

LEMMA TickType == ASSUME now \in Nat, Tick PROVE now' \in Nat /\ now' >= now
BY DEF Tick

LEMMA InitTypeOK == Init => TypeOK
<1> SUFFICES ASSUME Init PROVE TypeOK OBVIOUS
<1>1. own \in Row /\ local \in Row BY ClockAssumption DEF Init, Row, States
<1>2. pub \in [Publishers -> [step : {"idle", "read", "put"}, row : Row \cup {NoRow}]] BY DEF Init, Idle
<1> QED BY <1>1, <1>2 DEF Init, TypeOK, States, Moves

LEMMA StepTypeOK == TypeOK /\ [Next]_vars => TypeOK'
<1> SUFFICES ASSUME TypeOK, [Next]_vars PROVE TypeOK' OBVIOUS
<1> USE ClockAssumption DEF TypeOK, Row, States, ownerVars, requesterVars, viewVars
<1>1. ASSUME NEW p \in Publishers, NEW s \in Moves, OwnerTransition(p, s) PROVE TypeOK'
  <2>1. now' \in Nat BY <1>1, TickType DEF OwnerTransition
  <2>2. pub' \in [Publishers -> [step : {"idle", "read", "put"}, row : Row \cup {NoRow}]]
    BY <1>1 DEF OwnerTransition, ToRead
  <2> QED BY <1>1, <2>1, <2>2 DEF OwnerTransition
<1>2. CASE Touch BY <1>2, TickType DEF Touch
<1>3. ASSUME NEW p \in Publishers, Publish(p) PROVE TypeOK' BY <1>3 DEF Publish, ToRead
<1>4. ASSUME NEW p \in Publishers, ReadRow(p) PROVE TypeOK' BY <1>4 DEF ReadRow, Put
<1>5. ASSUME NEW p \in Publishers, PutStored(p) PROVE TypeOK' BY <1>5 DEF PutStored, Idle
<1>6. ASSUME NEW p \in Publishers, PutFails(p) PROVE TypeOK' BY <1>6 DEF PutFails, Idle
<1>7. ASSUME NEW s \in Moves, OnReply(s) PROVE TypeOK' BY <1>7, TickType DEF OnReply
<1>8. CASE OnOtherReply BY <1>8, TickType DEF OnOtherReply
<1>9. CASE Withdraw BY <1>9, TickType DEF Withdraw, Moves, Terminal
<1>10. CASE LookLocal BY <1>10 DEF LookLocal
<1>11. CASE LookRemote
  <2>1. looking \in Row /\ Merge(looking, record) \in States
    BY <1>11 DEF LookRemote, Look, Merge
  <2> QED BY <1>11, <2>1 DEF LookRemote, Look
<1>12. CASE LookFails
  <2>1. looking.status \in States BY <1>12 DEF LookFails, Look
  <2> QED BY <1>12, <2>1 DEF LookFails, Look
<1>13. CASE UNCHANGED vars BY <1>13 DEF vars
<1> QED BY <1>1, <1>2, <1>3, <1>4, <1>5, <1>6, <1>7, <1>8, <1>9, <1>10, <1>11, <1>12, <1>13
        DEF Next, Publisher, Requester

(* Every variable of TaskRecord keeps its type. *)
THEOREM TypeCorrect == Spec => []TypeOK
BY InitTypeOK, StepTypeOK, PTL DEF Spec

(***************************************************************************)
(* A closed state means the same wherever a copy of it is.                 *)
(***************************************************************************)

Agrees(status) == status \in Terminal => status = own.status

(* Every copy of the row, on its way or arrived, agrees with the owner's   *)
(* row about the end of the task; the requester's unless withdrawn.        *)
TruthInv ==
  /\ RecordIsTrue
  /\ \A p \in Publishers : Agrees(pub[p].row.status)
  /\ \A s \in mail : Agrees(s)
  /\ ~withdrawn => Agrees(local.status) /\ Agrees(looking.status)
  /\ ViewIsTrue

LEMMA StepTruthInv == TypeOK /\ TruthInv /\ [Next]_vars => TruthInv'
<1> SUFFICES ASSUME TypeOK, TruthInv, [Next]_vars PROVE TruthInv' OBVIOUS
<1> USE DEF TypeOK, TruthInv, Agrees, RecordIsTrue, ViewIsTrue, ownerVars, requesterVars, viewVars
<1>0. NoRow.status \notin Terminal BY DEF NoRow, Terminal
<1>1. ASSUME NEW p \in Publishers, NEW s \in Moves, OwnerTransition(p, s) PROVE TruthInv'
  <2>1. \A q \in Publishers : Agrees(pub[q].row.status)' BY <1>0, <1>1 DEF OwnerTransition, ToRead
  <2> QED BY <1>1, <2>1 DEF OwnerTransition
<1>2. CASE Touch
  <2>1. own'.status = own.status BY <1>2 DEF Touch, Row
  <2> QED BY <1>2, <2>1 DEF Touch
<1>3. ASSUME NEW p \in Publishers, Publish(p) PROVE TruthInv' BY <1>0, <1>3 DEF Publish, ToRead
<1>4. ASSUME NEW p \in Publishers, ReadRow(p) PROVE TruthInv' BY <1>4 DEF ReadRow, Put
<1>5. ASSUME NEW p \in Publishers, PutStored(p) PROVE TruthInv' BY <1>0, <1>5 DEF PutStored, Idle
<1>6. ASSUME NEW p \in Publishers, PutFails(p) PROVE TruthInv' BY <1>0, <1>6 DEF PutFails, Idle
<1>7. ASSUME NEW s \in Moves, OnReply(s) PROVE TruthInv' BY <1>7 DEF OnReply
<1>8. CASE OnOtherReply
  <2>1. local'.status = local.status BY <1>8 DEF OnOtherReply, Row
  <2> QED BY <1>8, <2>1 DEF OnOtherReply
<1>9. CASE Withdraw BY <1>9 DEF Withdraw
<1>10. CASE LookLocal BY <1>10 DEF LookLocal
<1>11. CASE LookRemote BY <1>0, <1>11 DEF LookRemote, Look, Merge
<1>12. CASE LookFails BY <1>0, <1>12 DEF LookFails, Look
<1>13. CASE UNCHANGED vars BY <1>13 DEF vars
<1> QED BY <1>1, <1>2, <1>3, <1>4, <1>5, <1>6, <1>7, <1>8, <1>9, <1>10, <1>11, <1>12, <1>13
        DEF Next, Publisher, Requester

LEMMA TruthHolds == Spec => [](TypeOK /\ TruthInv)
<1>1. Init => TruthInv
  BY DEF Init, TruthInv, Agrees, RecordIsTrue, ViewIsTrue, Idle, NoRow, Terminal
<1> QED BY <1>1, InitTypeOK, StepTypeOK, StepTruthInv, PTL DEF Spec

(* A record that says the task is closed says how the owner closed it.     *)
THEOREM RecordTellsTheEnd == Spec => []RecordIsTrue
<1>1. TruthInv => RecordIsTrue BY DEF TruthInv
<1> QED BY <1>1, TruthHolds, PTL

(* What a requester who did not withdraw the task is told of its end is    *)
(* how the owner closed it, whatever the clocks.                           *)
THEOREM ViewTellsTheEnd == Spec => []ViewIsTrue
<1>1. TruthInv => ViewIsTrue BY DEF TruthInv
<1> QED BY <1>1, TruthHolds, PTL

(***************************************************************************)
(* A handled closing is seen, if the requester's clock is not behind.      *)
(***************************************************************************)

(* A copy cannot hide a closed local row: it is closed itself or no newer. *)
CannotHide(r) == ~withdrawn /\ local.status \in Terminal => r.status \in Terminal \/ r.at <= local.at

SeenInv ==
  /\ own.at <= now /\ record.at <= now
  /\ record # NoRow => CannotHide(record)
  /\ \A p \in Publishers :
       pub[p].step = "put" => pub[p].row \in Row /\ pub[p].row.at <= now /\ CannotHide(pub[p].row)

LEMMA StepSeenInv ==
  ASSUME Skew >= 0, TypeOK, TruthInv, SeenInv, [Next]_vars
  PROVE  SeenInv'
<1> USE ClockAssumption DEF TypeOK, SeenInv, CannotHide, ownerVars, requesterVars, viewVars
<1>0. NoRow.at = 0 BY DEF NoRow
<1>1. ASSUME NEW p \in Publishers, NEW s \in Moves, OwnerTransition(p, s) PROVE SeenInv'
  <2>1. now' \in Nat /\ now' >= now BY <1>1, TickType DEF OwnerTransition
  <2>2. \A q \in Publishers : pub'[q].step = "put" => pub'[q] = pub[q] BY <1>1 DEF OwnerTransition, ToRead
  <2>3. own.at \in Int /\ record.at \in Int BY <1>0 DEF Row
  <2>4. \A q \in Publishers : pub[q].step = "put" => pub[q].row.at \in Int BY DEF Row
  <2> QED BY <1>1, <2>1, <2>2, <2>3, <2>4 DEF OwnerTransition
<1>2. CASE Touch
  <2>1. now' \in Nat /\ now' >= now BY <1>2, TickType DEF Touch
  <2>2. own'.at = now' BY <1>2 DEF Touch, Row
  <2>3. record.at \in Int BY <1>0 DEF Row
  <2>4. \A q \in Publishers : pub[q].step = "put" => pub[q].row.at \in Int BY DEF Row
  <2> QED BY <1>2, <2>1, <2>2, <2>3, <2>4 DEF Touch
<1>3. ASSUME NEW p \in Publishers, Publish(p) PROVE SeenInv'
  <2>1. \A q \in Publishers : pub'[q].step = "put" => pub'[q] = pub[q] BY <1>3 DEF Publish, ToRead
  <2> QED BY <1>3, <2>1 DEF Publish
<1>4. ASSUME NEW p \in Publishers, ReadRow(p) PROVE SeenInv'
  <2>1. \A q \in Publishers \ {p} : pub'[q] = pub[q] BY <1>4 DEF ReadRow
  <2>2. pub'[p].row = own BY <1>4 DEF ReadRow, Put
  <2>3. CannotHide(own) BY DEF TruthInv, Agrees
  <2> QED BY <1>4, <2>1, <2>2, <2>3 DEF ReadRow
<1>5. ASSUME NEW p \in Publishers, PutStored(p) PROVE SeenInv'
  <2>1. \A q \in Publishers : pub'[q].step = "put" => pub'[q] = pub[q] BY <1>5 DEF PutStored, Idle
  <2> QED BY <1>5, <2>1 DEF PutStored
<1>6. ASSUME NEW p \in Publishers, PutFails(p) PROVE SeenInv'
  <2>1. \A q \in Publishers : pub'[q].step = "put" => pub'[q] = pub[q] BY <1>6 DEF PutFails, Idle
  <2> QED BY <1>6, <2>1 DEF PutFails
<1>7. ASSUME NEW s \in Moves, OnReply(s) PROVE SeenInv'
  <2>1. now' \in Nat /\ now' >= now BY <1>7, TickType DEF OnReply
  <2>2. local' = local \/ local'.at = now' + Skew BY <1>7 DEF OnReply
  <2>3. local' = local \/ local.status \notin Terminal BY <1>7 DEF OnReply
  <2>4. own.at \in Int /\ record.at \in Int BY <1>0 DEF Row
  <2>5. \A q \in Publishers : pub[q].step = "put" => pub[q].row.at \in Int BY DEF Row
  <2> QED BY <1>7, <2>1, <2>2, <2>3, <2>4, <2>5 DEF OnReply
<1>8. CASE OnOtherReply
  <2>1. now' \in Nat /\ now' >= now BY <1>8, TickType DEF OnOtherReply
  <2>2. local'.at = now' + Skew BY <1>8 DEF OnOtherReply, Row
  <2>4. own.at \in Int /\ record.at \in Int BY <1>0 DEF Row
  <2>5. \A q \in Publishers : pub[q].step = "put" => pub[q].row.at \in Int BY DEF Row
  <2> QED BY <1>8, <2>1, <2>2, <2>4, <2>5 DEF OnOtherReply
<1>9. CASE Withdraw
  <2>1. now' \in Nat /\ now' >= now BY <1>9, TickType DEF Withdraw
  <2>4. own.at \in Int /\ record.at \in Int BY <1>0 DEF Row
  <2>5. \A q \in Publishers : pub[q].step = "put" => pub[q].row.at \in Int BY DEF Row
  <2> QED BY <1>9, <2>1, <2>4, <2>5 DEF Withdraw
<1>10. CASE LookLocal BY <1>10 DEF LookLocal
<1>11. CASE LookRemote BY <1>11 DEF LookRemote, Look
<1>12. CASE LookFails BY <1>12 DEF LookFails, Look
<1>13. CASE UNCHANGED vars BY <1>13 DEF vars
<1> QED BY <1>1, <1>2, <1>3, <1>4, <1>5, <1>6, <1>7, <1>8, <1>9, <1>10, <1>11, <1>12, <1>13
        DEF Next, Publisher, Requester

(* Once a closing announcement is handled, every look shows the task       *)
(* closed, if the requester's clock is not behind the owner's.             *)
THEOREM ClosingIsSeen == ASSUME Skew >= 0 PROVE Spec => []HandledIsSeen
<1>1. Init => SeenInv BY DEF Init, SeenInv, Idle, NoRow
<1>2. TypeOK /\ TruthInv /\ SeenInv /\ [Next]_vars => SeenInv' BY StepSeenInv
<1>3. TypeOK /\ SeenInv => HandledIsSeen
  <2> SUFFICES ASSUME TypeOK, SeenInv, ~withdrawn, local.status \in Terminal,
                      NEW remote \in {record, NoRow}
               PROVE  Merge(local, remote) \in Terminal
    BY DEF HandledIsSeen
  <2>1. CASE remote = NoRow BY <2>1 DEF Merge
  <2>2. CASE remote # NoRow
    <3>1. remote = record /\ record \in Row BY <2>2 DEF TypeOK
    <3>2. record.status \in Terminal \/ record.at <= local.at
      BY <2>2, <3>1 DEF SeenInv, CannotHide
    <3>3. record.at \in Int /\ local.at \in Int BY <3>1 DEF TypeOK, Row
    <3> QED BY <2>2, <3>1, <3>2, <3>3 DEF Merge
  <2> QED BY <2>1, <2>2
<1>4. Spec => [](TypeOK /\ SeenInv) BY <1>1, <1>2, TruthHolds, PTL DEF Spec
<1> QED BY <1>3, <1>4, PTL
=============================================================================
