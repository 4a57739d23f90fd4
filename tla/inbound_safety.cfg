SPECIFICATION Spec
CONSTANTS
  h1 = h1
  h2 = h2
  Handler = {h1, h2}
  Envelope <- AllMail
  Malformed <- BadMail
  Outgoing <- LocalMail
  Agent = {"bob"}
  Self = "here"
  Faults = {"store", "crash"}
  None = None
SYMMETRY Symmetry
INVARIANTS
  TypeOK
  AcceptedIsKnown
  RedeliveryIsNoop
  InboxIsSound
PROPERTY ConflictsAreRaces
