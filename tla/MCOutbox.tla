------------------------------ MODULE MCOutbox ------------------------------
\* Small instances of Outbox for TLC.
EXTENDS Outbox, TLC

CONSTANTS m1, m2, w1, w2

TwoRetries == <<1, 2>>
OneRetry   == <<1>>
Symmetry   == Permutations(Msg) \cup Permutations(Worker)
=============================================================================
