---------------------------- MODULE QuorumLemmas ----------------------------
(***************************************************************************)
(* What the protocol proofs use of the threshold 2F+1 among N = 3F+1.      *)
(***************************************************************************)
EXTENDS Quorums, FiniteSetTheorems, TLAPS

(***************************************************************************)
(* A count is a natural number, and it never drops as messages come in.    *)
(***************************************************************************)
LEMMA PartyCount ==
  ASSUME NEW S \in SUBSET Party
  PROVE  IsFiniteSet(S) /\ Cardinality(S) \in Nat
BY PartyAssumption, FS_Subset, FS_CardinalityType

(* A union has no more members than its parts together.                    *)
LEMMA UnionCount ==
  ASSUME NEW S \in SUBSET Party, NEW T \in SUBSET Party
  PROVE  Cardinality(S \cup T) <= Cardinality(S) + Cardinality(T)
<1>1. /\ IsFiniteSet(S) /\ Cardinality(S) \in Nat
      /\ IsFiniteSet(T) /\ Cardinality(T) \in Nat
      /\ Cardinality(S \cap T) \in Nat
  BY PartyCount
<1>2. Cardinality(S \cup T)
        = Cardinality(S) + Cardinality(T) - Cardinality(S \cap T)
  BY <1>1, FS_Union
<1> QED
  BY <1>1, <1>2

(* A quorum stays one when senders are added.                              *)
LEMMA QuorumGrows ==
  ASSUME NEW S \in SUBSET Party, NEW T \in SUBSET Party,
         S \subseteq T, IsQuorum(S)
  PROVE  IsQuorum(T)
<1>1. Cardinality(S) <= Cardinality(T)
  BY PartyCount, FS_Subset
<1> QED
  BY <1>1, PartyCount, PartyAssumption DEF IsQuorum

(* A quorum has a member.                                                  *)
LEMMA QuorumNonEmpty ==
  ASSUME NEW S \in SUBSET Party, IsQuorum(S)
  PROVE  S # {}
BY FS_EmptySet, PartyAssumption DEF IsQuorum

(***************************************************************************)
(* Two counts of 2F+1 have a party in common.                              *)
(***************************************************************************)
THEOREM QuorumsIntersect ==
  ASSUME NEW S \in SUBSET Party, NEW T \in SUBSET Party,
         IsQuorum(S), IsQuorum(T)
  PROVE  S \cap T # {}
<1>1. Cardinality(S) + Cardinality(T) > Cardinality(Party)
  BY PartyCount, PartyAssumption DEF IsQuorum, N
<1> QED
  BY <1>1, PartyAssumption, FS_MajoritiesIntersect

(***************************************************************************)
(* A quorum without any F parties still has F+1.                           *)
(***************************************************************************)
LEMMA QuorumSurvives ==
  ASSUME NEW S \in SUBSET Party, IsQuorum(S),
         NEW gone \in SUBSET Party, Cardinality(gone) <= F
  PROVE  Cardinality(S \ gone) > F
<1>1. /\ IsFiniteSet(S) /\ Cardinality(S) \in Nat
      /\ IsFiniteSet(gone) /\ Cardinality(gone) \in Nat
      /\ IsFiniteSet(S \cap gone) /\ Cardinality(S \cap gone) \in Nat
  BY PartyCount
<1>2. Cardinality(S \ gone) = Cardinality(S) - Cardinality(S \cap gone)
  BY <1>1, FS_Difference
<1>3. Cardinality(S \cap gone) <= Cardinality(gone)
  BY <1>1, FS_Subset
<1> QED
  BY <1>1, <1>2, <1>3, PartyAssumption DEF IsQuorum
=============================================================================
