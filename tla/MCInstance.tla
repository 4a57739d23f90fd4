----------------------------- MODULE MCInstance -----------------------------
\* A small instance of Instance for TLC.
EXTENDS Instance

CONSTANTS r1, r2, n1, n2, d1
=============================================================================
