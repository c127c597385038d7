\* Two valid messages, any two faults: crashes, outages, losses, window expiries.
CONSTANTS
  Msgs = {m1, m2}
  Refused = {}
  NoMsg = NoMsg
  MaxFaults = 2
SPECIFICATION Spec
INVARIANTS TypeOK NothingLost HandledOncePerLife
PROPERTY ImplementsReliableMailbox
SYMMETRY Symmetry
CHECK_DEADLOCK FALSE
