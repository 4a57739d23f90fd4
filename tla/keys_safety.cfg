SPECIFICATION Spec
CONSTANTS
  k1 = k1
  k2 = k2
  k3 = k3
  k4 = k4
  r1 = r1
  r2 = r2
  Key = {k1, k2, k3, k4}
  Rotation = {r1, r2}
  Grace = 2
  Faults = {"store", "crash"}
  MaxTime = 3
  None = None
SYMMETRY Symmetry
INVARIANTS
  TypeOK
  AlwaysAnActiveKey
  SignerPublished
  GraceHonoured
