\* Two workers, users who release and clear, a key that expires, a handler that dies.
CONSTANTS
  q1 = q1
  q2 = q2
  q3 = q3
  w1 = w1
  w2 = w2
  None = None
  Requests <- ThreeRequests
  Workers <- TwoWorkers
  MaxQueue = 1
  Operators = TRUE
  Expiry = TRUE
  MaxLosses = 1
SPECIFICATION FairSpec
INVARIANTS
  TypeOK
  QueueBound
  NoGhost
PROPERTIES
  EveryCallEnds
  AgentFreed
CHECK_DEADLOCK FALSE
