SPECIFICATION FairSpec
CONSTANTS
  w1 = w1
  w2 = w2
  s1 = s1
  s2 = s2
  NoWorker = NoWorker
  Workers <- OneWorker
  Slots <- OneSlot
  MaxRetries <- MCMaxRetries
  Backoff = 0
  MaxId = 4
  MaxNow = 0
  RetryCap = 3
  Ids = {1, 2, 3, 4}
  Claims = {1, 2}
  RetriesOf <- FirstRetries
  Stoppable = {1}
  Env <- StopEnv
INVARIANTS
  RunningIsLive
PROPERTIES
  Settles
  StopReaches
