\* Two tasks, one of them refused by the policy, two sessions, any four calls, one death of a daemon.
CONSTANTS
  Tasks = {t1, t2}
  Denied = {t2}
  Sessions = {s1, s2}
  NoOp = NoOp
  MaxCalls = 4
  MaxKills = 1
SPECIFICATION FairSpec
INVARIANTS TypeOK RequesterAgrees
PROPERTIES ImplementsTaskLifecycle RequesterLearns
CHECK_DEADLOCK FALSE
