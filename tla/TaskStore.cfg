SPECIFICATION Spec
CONSTANTS
  w1 = w1
  w2 = w2
  NoWorker = NoWorker
  Workers <- MCWorkers
  MaxRetries <- MCMaxRetries
  Backoff = 1
  MaxId = 2
  MaxNow = 3
  RetryCap = 3
SYMMETRY MCSymmetry
INVARIANTS
  TypeOK
  Ownership
  CronNeverRuns
  RetryBudget
PROPERTIES
  ClaimIsExclusive
  StopIsSticky
  DeletedStaysDeleted
  RunningIsAccounted
