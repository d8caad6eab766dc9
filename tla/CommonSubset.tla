---------------------------- MODULE CommonSubset ----------------------------
(***************************************************************************)
(* What acs.BuadaACS promises its callers: all parties that return return  *)
(* the proposals of the same parties, 2F+1 of them or more.                *)
(***************************************************************************)
EXTENDS Quorums

VARIABLE output  \* the pids of the proposals each party returned, or {}

Init == output = [p \in Party |-> {}]

Return(p, S) ==
  /\ output[p] = {}
  /\ IsQuorum(S)
  /\ \A q \in Party : output[q] \in {{}, S}
  /\ output' = [output EXCEPT ![p] = S]

Next == \E p \in Party, S \in SUBSET Party : Return(p, S)

Spec == Init /\ [][Next]_output
=============================================================================
