SPECIFICATION Spec
CONSTANTS
  m1 = m1
  m2 = m2
  w1 = w1
  w2 = w2
  Msg = {m1, m2}
  Worker = {w1, w2}
  Schedule <- TwoRetries
  Lifetimes = {1, None}
  ClaimLimit = 2
  Faults = {"store", "shutdown", "crash"}
  MaxTime = 2
  None = None
SYMMETRY Symmetry
INVARIANTS
  TypeOK
  ClaimsExclusive
  PostsAccounted
  RetriesFitSchedule
PROPERTIES
  ImplementsDispatch
  BackoffRespected
