SPECIFICATION Spec
CONSTANTS
  k1 = k1
  k2 = k2
  k3 = k3
  k4 = k4
  r1 = r1
  r2 = r2
  Key = {k1, k2, k3}
  Rotation = {r1, r2}
  Grace = 1
  Faults = {}
  MaxTime = 1
  None = None
INVARIANT RetiredNeverSigns
CHECK_DEADLOCK FALSE
