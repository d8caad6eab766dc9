------------------------------ MODULE Quorums ------------------------------
(***************************************************************************)
(* The parties of a Buada deployment and the two thresholds its code       *)
(* compares message counts with: 2F+1 (signature threshold, party.SigKeyGen*)
(* is called with 2F+1) and F+1.  Every configuration of the repository    *)
(* has N = 3F+1 (config.yaml: 4/1, the tests: 4/1 and 31/10).              *)
(***************************************************************************)
EXTENDS Integers, FiniteSets

CONSTANTS
  Party,   \* the parties; a PID of the code is an element of this set
  F        \* HonestParty.F, the number of parties that may be slow or gone

N == Cardinality(Party)

ASSUME PartyAssumption ==
  /\ IsFiniteSet(Party)
  /\ F \in Nat
  /\ N = 3 * F + 1

(***************************************************************************)
(* "len(s) > int(2*p.F)": enough shares over one message for tbls.Recover. *)
(***************************************************************************)
IsQuorum(S) == Cardinality(S) > 2 * F
=============================================================================
