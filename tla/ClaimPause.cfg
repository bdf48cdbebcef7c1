SPECIFICATION SchedSafety
CONSTANTS
  w1 = w1
  NoWorker = NoWorker
  Workers <- MCWorkers
  MaxRetries <- NoRetry
  Backoff = 0
  MaxId = 2
  MaxNow = 0
  RetryCap = 0
  Key <- OwnNames
  MaxHandlers = 1
INVARIANTS
  PausedHasNoLiveChildren
