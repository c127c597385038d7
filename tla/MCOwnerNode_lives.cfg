\* One code task on two runners: resent, cancelled, reported on, over four lives of the daemon.
CONSTANTS
  Tasks = {t1}
  Denied = {}
  Code = {t1}
  Slots = {s1, s2}
  NoTask = NoTask
  NoMsg = NoMsg
  MaxAttempts = 2
  Cancelled = {t1}
  Copies = 2
  Reports = {"RUNNING", "WAITING", "BLOCKED"}
  MaxRestarts = 3
  Orphans = TRUE
  DeliveryRaises = TRUE
SPECIFICATION Spec
INVARIANTS TypeOK OneRunnerPerTask AttemptsBounded OpenTaskIsInHand
PROPERTIES NoReexecution ImplementsTaskLifecycle
SYMMETRY Runners
CHECK_DEADLOCK FALSE
