SPECIFICATION Spec
CONSTANTS
  m1 = m1
  m2 = m2
  w1 = w1
  w2 = w2
  Msg = {m1}
  Worker = {w1}
  Schedule <- OneRetry
  Lifetimes = {None}
  ClaimLimit = 2
  Faults = {"shutdown"}
  MaxTime = 2
  None = None
INVARIANT ClaimedIsHeld
