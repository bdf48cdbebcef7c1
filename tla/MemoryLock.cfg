SPECIFICATION LockSpec
CONSTANTS
  p1 = p1
  p2 = p2
  p3 = p3
  p4 = p4
  NoEntry = NoEntry
  Callers <- FourCallers
  Token <- SharedToken
  TTL = 1
  MaxTime = 2
INVARIANTS
  LockTypeOK
  Releasable
PROPERTIES
  MutualExclusion
CHECK_DEADLOCK FALSE
