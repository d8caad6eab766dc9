----------------------------- MODULE Consensus -----------------------------
(***************************************************************************)
(* What smvba.MainProcess promises its callers: every party that returns   *)
(* returns the same value, which is the proposal of some party.            *)
(***************************************************************************)
CONSTANTS Party, Value, None

VARIABLES
  proposal,  \* the value MainProcess of each party is called with
  decision   \* what MainProcess returned, None before it does

vars == <<proposal, decision>>

Init ==
  /\ proposal \in [Party -> Value]
  /\ decision = [p \in Party |-> None]

Decide(p, v) ==
  /\ decision[p] = None
  /\ \E q \in Party : proposal[q] = v
  /\ \A q \in Party : decision[q] \in {None, v}
  /\ decision' = [decision EXCEPT ![p] = v]
  /\ UNCHANGED proposal

Next == \E p \in Party, v \in Value : Decide(p, v)

Spec == Init /\ [][Next]_vars
=============================================================================
