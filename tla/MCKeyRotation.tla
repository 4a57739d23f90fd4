--------------------------- MODULE MCKeyRotation ---------------------------
\* Small instances of KeyRotation for TLC.
EXTENDS KeyRotation, TLC

CONSTANTS k1, k2, k3, k4, r1, r2

Symmetry == Permutations(Key) \cup Permutations(Rotation)
=============================================================================
