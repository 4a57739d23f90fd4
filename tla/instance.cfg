SPECIFICATION Spec
CONSTANTS
  r1 = r1
  r2 = r2
  n1 = n1
  n2 = n2
  d1 = d1
  Request = {r1, r2}
  Name = {n1, n2}
  Domain = {d1}
  Faults = {"store", "client", "crash"}
  MaxTokens = 3
  MaxBoots = 2
  None = None
INVARIANTS
  TypeOK
  IssuedTokenWorks
  OneTokenPerName
  CredentialKnown
  ServesBootstrapped
  ListsAreCurrent
  CleanExitCutsNothing
PROPERTY StopsEventually
CHECK_DEADLOCK FALSE
