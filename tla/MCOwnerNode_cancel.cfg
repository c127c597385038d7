\* A task is cancelled; the daemon never restarts.
CONSTANTS
  Tasks = {t1}
  Denied = {}
  Code = {}
  Slots = {s1}
  NoTask = NoTask
  NoMsg = NoMsg
  MaxAttempts = 2
  Cancelled = {t1}
  Copies = 1
  Reports = {}
  MaxRestarts = 0
  Orphans = FALSE
  DeliveryRaises = FALSE
SPECIFICATION FairSpec
PROPERTY CancelIsHonoured
CHECK_DEADLOCK FALSE
