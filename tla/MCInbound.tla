----------------------------- MODULE MCInbound -----------------------------
\* Small instances of Inbound for TLC: two peers, one of which reuses an id and
\* an idempotency key of the other's, an unknown recipient, a malformed
\* envelope, and mail between two agents of this very instance.
EXTENDS Inbound, TLC

CONSTANTS h1, h2

Mail(id, key, from, to, signed) ==
  [id |-> id, key |-> key, from |-> from, to |-> to, signed |-> signed]

Keyed      == Mail("i1", "k1", "a.example", "bob", TRUE)
SameKey    == Mail("i2", "k1", "b.example", "bob", FALSE)
Unkeyed    == Mail("i3", None, "a.example", "bob", FALSE)
SameId     == Mail("i3", None, "b.example", "bob", TRUE)
Nobody     == Mail("i4", None, "a.example", "eve", TRUE)
Broken     == Mail("i5", None, "b.example", "bob", FALSE)
Local      == Mail("i6", None, "here", "bob", TRUE)

AllMail    == {Keyed, SameKey, Unkeyed, SameId, Nobody, Broken, Local}
BadMail    == {Broken}
LocalMail  == {Local}
OneKeyed   == {Keyed}
NoMail     == {}
Symmetry   == Permutations(Handler)
=============================================================================
