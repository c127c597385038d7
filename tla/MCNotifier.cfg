\* Four rows, pages of two, one death of the notifier.
CONSTANTS
  MaxRows = 4
  Limit = 2
  MaxDeaths = 1
SPECIFICATION FairSpec
INVARIANTS TypeOK NoneSkipped RepeatedByDeath
PROPERTY EventuallyAnnounced
CHECK_DEADLOCK FALSE
