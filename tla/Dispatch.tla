------------------------------ MODULE Dispatch ------------------------------
(***************************************************************************)
(* What the outbound half of an instance promises an agent, with no rows,  *)
(* workers, clock or faults: an accepted message is tried at most Tries    *)
(* times, only while it is still waiting, and then comes to rest, as       *)
(* delivered only if its recipient's instance took it.  Outbox is shown to *)
(* implement this.                                                         *)
(***************************************************************************)
EXTENDS Naturals

CONSTANTS
  Msg,    \* messages agents may submit
  Tries   \* how often a peer may see one message

VARIABLES
  state,  \* where each message stands
  tried,  \* how often it has reached a peer
  taken   \* the messages a peer has answered 200 for

vars == <<state, tried, taken>>

Init ==
  /\ state = [m \in Msg |-> "new"]
  /\ tried = [m \in Msg |-> 0]
  /\ taken = {}

Accept(m) ==
  /\ state[m] = "new"
  /\ state' = [state EXCEPT ![m] = "waiting"]
  /\ UNCHANGED <<tried, taken>>

Try(m) ==
  /\ state[m] = "waiting"
  /\ tried[m] < Tries
  /\ tried' = [tried EXCEPT ![m] = @ + 1]
  /\ taken' \in {taken, taken \cup {m}}
  /\ UNCHANGED state

Settle(m, outcome) ==
  /\ state[m] = "waiting"
  /\ outcome = "delivered" => m \in taken
  /\ state' = [state EXCEPT ![m] = outcome]
  /\ UNCHANGED <<tried, taken>>

Next == \E m \in Msg :
  \/ Accept(m)
  \/ Try(m)
  \/ \E outcome \in {"delivered", "failed"} : Settle(m, outcome)

Spec == Init /\ [][Next]_vars
=============================================================================
