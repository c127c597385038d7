\* A refused task and a code task with a CANCEL share a runner over two lives; agents report anything.
CONSTANTS
  Tasks = {t1, t2}
  Denied = {t1}
  Code = {t2}
  Slots = {s1}
  NoTask = NoTask
  NoMsg = NoMsg
  MaxAttempts = 2
  Cancelled = {t2}
  Copies = 1
  Reports = {"RUNNING", "WAITING", "BLOCKED"}
  MaxRestarts = 1
  Orphans = FALSE
  DeliveryRaises = FALSE
SPECIFICATION FairSpec
INVARIANT DeniedRunsOnlyAfterDeath
PROPERTY AcceptedGetsDone
CHECK_DEADLOCK FALSE
