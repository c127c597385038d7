\* One agent at first, that may be renamed, removed or joined by another.
CONSTANTS
  Agents = {a1, a2}
  First = {a1}
  Node = Node
  NoAlias = NoAlias
  NoAgent = NoAgent
  NoCard = NoCard
  Msgs = {m1}
  Heartbeat = 1
  Latency = 0
  Misses = 3
  MaxEvents = 2
SPECIFICATION FairSpec
INVARIANTS TypeOK PresenceIsTrue
PROPERTIES RemovesOnlyGhosts MailArrives ComesOnline
CHECK_DEADLOCK FALSE
