SPECIFICATION PoolSpec
CONSTANTS
  w1 = w1
  s1 = s1
  s2 = s2
  Workers <- MCWorkers
  Slots <- TwoSlots
  Ids = {1, 2}
  Claims <- MCClaims
VIEW WithoutReports
INVARIANTS
  PoolTypeOK
  ActiveIsLive
PROPERTIES
  ShutdownEnds
