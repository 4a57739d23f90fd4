SPECIFICATION Spec
CONSTANTS
  Msg = {1, 2, 3, 4}
  ThreadOf <- MCThreadOf
  Agents = 2
  Owner <- MCOwner
  Again = {1, 2}
  Keyed = {1}
  Limit = 2
  Faults = {"crash", "commit"}
VIEW MCView
INVARIANTS
  TypeOK
  PagesAscend
PROPERTIES
  OnlyACutCommitLoses
  NothingSkipped
  LookupsMissOnlyMoving
  ThreadIsWhole
  SearchFindsAll
