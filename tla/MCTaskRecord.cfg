\* Two publishers, clocks in step, two milliseconds, one failed put.
CONSTANTS
  Publishers = {p1, p2}
  Skew = 0
  MaxTime = 2
  MaxFails = 1
SPECIFICATION Spec
INVARIANTS TypeOK ViewIsTrue HandledIsSeen
SYMMETRY Processes
CHECK_DEADLOCK FALSE
