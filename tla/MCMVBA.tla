------------------------------- MODULE MCMVBA -------------------------------
(* The instances of MVBA that TLC checks: four parties, F = 1.             *)
EXTENDS MVBA, TLC

(* Messages that fill their rows of two bytes, and one that does not.      *)
Even == [value |-> <<7>>, validation |-> <<9>>]
Odd  == [value |-> <<7, 8>>, validation |-> <<9>>]
Bare == [value |-> <<7, 8>>, validation |-> <<>>]

OneProposal == {Even}
AllProposals == {Even, Odd, Bare}

(* All but the leader are alike while every party is up.                   *)
Receivers == Permutations(Party \ {Leader})
=============================================================================
