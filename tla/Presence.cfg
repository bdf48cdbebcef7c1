SPECIFICATION PresenceSpec
CONSTANTS
  w1 = w1
  c1 = c1
  h1 = h1
  h2 = h2
  h3 = h3
  Clients = {c1}
  Workers = {w1}
  Handlers = {h1, h2, h3}
  Address <- MCAddress
  PerMin = 2
  Minute = 3
  TTL = 4
  Stale = 4
  Delay = 1
SYMMETRY MCSymmetry
INVARIANTS
  PresenceTypeOK
  HeardIsListed
  ShownIsAlive
PROPERTIES
  IsTokenBucket
