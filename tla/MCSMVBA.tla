------------------------------ MODULE MCSMVBA ------------------------------
(* The instance of SMVBA that TLC checks: four parties, F = 1.             *)
EXTENDS SMVBA, TLC

CONSTANTS
  Odd,     \* the party with a proposal of its own
  v, w,    \* the two proposals
  Leader0  \* the leader of the first round

(* One party against the others: the steps compare values for nothing but  *)
(* equality, so every split of the inputs that matters has a dissenter.    *)
OneDissent == {[p \in Party |-> IF p = Odd THEN v ELSE w]}

(* Another party leads the first round and the dissenter all later ones.   *)
OddLeadsLater == {[r \in Rounds |-> IF r = 0 THEN Leader0 ELSE Odd]}
=============================================================================
