SPECIFICATION DispatchSpec
CONSTANTS
  w1 = w1
  w2 = w2
  s1 = s1
  s2 = s2
  NoWorker = NoWorker
  Workers <- TwoWorkers
  Slots <- OneSlot
  MaxRetries <- MCMaxRetries
  Backoff = 0
  MaxId = 1
  MaxNow = 0
  RetryCap = 3
  Ids = {1}
  Claims = {1, 2}
  RetriesOf <- AnyRetries
  Stoppable = {1}
  Env <- AllEnv
SYMMETRY MCSymmetry
INVARIANTS
  OneRunPerClaim
  LiveRunIsOwned
  AttemptsCounted
  StopsReachBack
PROPERTIES
  OutcomeIsFinal
