SPECIFICATION Spec
CONSTANTS
  h1 = h1
  h2 = h2
  Handler = {h1, h2}
  Envelope <- LocalMail
  Malformed <- NoMail
  Outgoing <- LocalMail
  Agent = {"bob"}
  Self = "here"
  Faults = {}
  None = None
INVARIANT StoredInEveryCase
