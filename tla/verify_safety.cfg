SPECIFICATION Spec
CONSTANTS
  k1 = k1
  k2 = k2
  r1 = r1
  h1 = h1
  h2 = h2
  alice = alice
  Key = {k1, k2}
  Rotation = {r1}
  Grace = 3
  Faults = {}
  MaxTime = 3
  None = None
  Agent = {alice}
  Domain = Domain
  Handler = {h1, h2}
  TTL = 1
  Timeout = 1
SYMMETRY Symmetry
INVARIANTS
  TypeOK
PROPERTIES
  VerifiedIsTimely
  SettledMailVerifies
  GraceMailVerifies
CHECK_DEADLOCK FALSE
