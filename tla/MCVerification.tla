--------------------------- MODULE MCVerification ---------------------------
\* Small instances of Verification for TLC.
EXTENDS Verification, TLC

CONSTANTS k1, k2, r1, h1, h2, alice

Symmetry == Permutations(Key) \cup Permutations(Handler)
=============================================================================
