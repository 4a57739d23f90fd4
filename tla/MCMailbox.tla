----------------------------- MODULE MCMailbox -----------------------------
\* A small instance of Mailbox for TLC: the first agent has two messages in one
\* thread, and both agents have one in another.
EXTENDS Mailbox

MCThreadOf == [m \in Msg |-> IF m % 2 = 1 THEN 1 ELSE 2]
MCOwner    == [m \in Msg |-> IF m = 4 THEN 2 ELSE 1]

\* Between calls nothing is read of the last one: no action or action property
\* starts from it, so states that differ there alone are explored once; the
\* invariants' values keep one that violates them apart.
MCView == <<files, IF pc = "idle" THEN <<TypeOK, PagesAscend>> ELSE <<walk, moved>>>>
=============================================================================
