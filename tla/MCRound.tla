------------------------------ MODULE MCRound ------------------------------
(* The instances of Round that TLC checks: four parties, F = 1.            *)
EXTENDS Round, TLC

(* Parties may be exchanged if they are alike in Up and in Lockers.        *)
Alike ==
  {f \in Permutations(Party) :
     /\ \A p \in Up : f[p] \in Up
     /\ \A p \in Lockers : f[p] \in Lockers}
=============================================================================
