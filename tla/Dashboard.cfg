SPECIFICATION DashSpec
CONSTANTS
  s1 = s1
  s2 = s2
  NoWorker = NoWorker
  Unset = Unset
  Workers = {}
  MaxRetries <- NoRetry
  Backoff = 0
  MaxId = 3
  MaxNow = 0
  RetryCap = 0
  Like <- SameText
  DefaultSize = 2
  MaxSize = 2
  Filters <- MCFilters
  Sizes = {1, 2}
  Slots = {s1, s2}
  MaxActs = 3
INVARIANTS
  PagesAreExact
  PageIsBarPage
  BarsAreRight
PROPERTIES
  CatchesUp
CHECK_DEADLOCK FALSE
