---------------------------- MODULE TokenBucket ----------------------------
(***************************************************************************)
(* What the limit on POST /deliver promises (README.md, "Per-sender-domain *)
(* token bucket"): a bucket for every domain there is, refilled with time, *)
(* emptied by a restart and by nothing else but the requests let through.  *)
(***************************************************************************)
EXTENDS Integers

CONSTANTS Domain, Rate, Burst

VARIABLES
  level,   \* the tokens in each domain's bucket
  answer   \* the latest answer; turn flips, so that like answers are two steps

Capped(n) == IF n < Burst THEN n ELSE Burst

Init ==
  /\ level = [d \in Domain |-> Burst]
  /\ answer = [to |-> "nobody", ok |-> FALSE, turn |-> 0]

Says(d, ok) == answer' = [to |-> d, ok |-> ok, turn |-> 1 - answer.turn]

\* A request is let through with a token, and only refused for want of one.
Admit(d)  == level[d] > 0 /\ level' = [level EXCEPT ![d] = @ - 1] /\ Says(d, TRUE)
Refuse(d) == level[d] = 0 /\ Says(d, FALSE) /\ UNCHANGED level

\* Time passes.
Refill == level' = [d \in Domain |-> Capped(level[d] + Rate)] /\ UNCHANGED answer

\* README.md: "an instance restart resetting it is an acceptable trade".
Reset == level' = [d \in Domain |-> Burst] /\ UNCHANGED answer

Next == (\E d \in Domain : Admit(d) \/ Refuse(d)) \/ Refill \/ Reset

Spec == Init /\ [][Next]_<<level, answer>>
=============================================================================
