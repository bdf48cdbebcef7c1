SPECIFICATION TxSpec
CONSTANTS
  w1 = w1
  r1 = r1
  r2 = r2
  f1 = f1
  NoWorker = NoWorker
  Free = Free
  Offered <- MCOffered
  Workers = {w1}
  MaxRetries <- NoRetry
  Backoff = 0
  MaxId = 2
  MaxNow = 0
  RetryCap = 1
  Requests = {r1, r2}
  Spawns = {f1}
INVARIANTS
  SnapshotIsCurrent
  ConnectionIsHeld
PROPERTIES
  IsTaskStore
  CallsEnd
