--------------------------- MODULE MCRateLimiter ---------------------------
\* A small instance of RateLimiter for TLC.
EXTENDS RateLimiter, TLC

CONSTANTS d1, d2

Symmetry == Permutations(Domain)
=============================================================================
