SPECIFICATION FairSpec
CONSTANTS
  m1 = m1
  m2 = m2
  w1 = w1
  w2 = w2
  Msg = {m1, m2}
  Worker = {w1}
  Schedule <- TwoRetries
  Lifetimes = {2, None}
  ClaimLimit = 2
  Faults = {}
  MaxTime = 2
  None = None
INVARIANT ClaimedIsHeld
PROPERTY EventuallySettled
CHECK_DEADLOCK FALSE
