SPECIFICATION Spec
CONSTANTS
  d1 = d1
  d2 = d2
  Domain = {d1, d2}
  Rate = 1
  Burst = 2
  TTL = 2
  SweepInterval = 2
  Pause = 1
  Lag = 1
  MaxTime = 7
  None = None
SYMMETRY Symmetry
INVARIANTS
  TypeOK
  WithinRate
  IdleEntriesExpire
PROPERTY ImplementsTokenBucket
