\* Two tasks of one runner, on either kind of Python, and a CANCEL.
CONSTANTS
  Tasks = {t1, t2}
  NoTask = NoTask
  Pythons = {"to 3.11", "from 3.12"}
  MaxCancels = 1
SPECIFICATION FairSpec
INVARIANTS TypeOK DoneIsSettled
PROPERTIES RunEnds CancelLands StopEnds
CHECK_DEADLOCK FALSE
