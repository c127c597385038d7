\* A valid and a refused message share the outbox; one fault on their way.
CONSTANTS
  Msgs = {m1, m2}
  Refused = {m2}
  NoMsg = NoMsg
  MaxFaults = 1
SPECIFICATION FairSpec
PROPERTY EventuallyHandled
CHECK_DEADLOCK FALSE
