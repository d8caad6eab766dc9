---------------------------- MODULE BuadaProofs ----------------------------
(***************************************************************************)
(* The epoch agrees on a common subset whose proposals the steady parties  *)
(* hold, for any number of parties.                                        *)
(*                                                                         *)
(* The argument: a Final has 2F+1 Echoes, MVBA is called with Finals only, *)
(* and what it returns is one of these inputs.  Of 2F+1 parties that echoed*)
(* F+1 are steady, and those that are not overtaken have stored.           *)
(***************************************************************************)
EXTENDS Buada, Codec, QuorumLemmas, SequenceTheorems

(* A Final comes from 2F+1 Echoes.                                         *)
FinalInv == \A j \in final : IsQuorum(Echoers(j))

(* MVBA is called with Finals, and with some of them.                      *)
InputInv ==
  \A p \in Party : /\ input[p] \subseteq final
                   /\ main[p] # "finals" => input[p] # {}

(* So are its results, which are there before anybody calls for help.      *)
ChosenInv ==
  /\ chosen \subseteq final
  /\ Calling # {} => chosen # {}

IInv == TypeOK /\ FinalInv /\ InputInv /\ ChosenInv

-----------------------------------------------------------------------------
(* A set of Finals that is collected is a quorum.                          *)
LEMMA FinalSetQuorum ==
  ASSUME NEW S \in FinalSet
  PROVE  IsQuorum(S) /\ S \in SUBSET Party
BY PartyAssumption DEF FinalSet, IsQuorum

(* The invariant holds before the first Value.                             *)
LEMMA InitIInv == Init => IInv
BY DEF Init, IInv, TypeOK, FinalInv, InputInv, ChosenInv, Calling

(* Every action keeps the variables in their types.                        *)
LEMMA NextTypeOK == TypeOK /\ Next => TypeOK'
<1> SUFFICES ASSUME TypeOK, NEW p \in Party,
                    \/ \E j \in Party : Receive(p, j) \/ Store(p, j)
                    \/ Final(p)
                    \/ \E S \in SUBSET Party : CollectFinals(p, S)
                    \/ ReturnMVBA(p) \/ ReturnHelp(p) \/ Decrypt(p)
             PROVE  TypeOK'
  BY DEF Next
<1> USE DEF TypeOK
<1>1. ASSUME NEW j \in Party, Receive(p, j) PROVE TypeOK'
  BY <1>1 DEF Receive
<1>2. ASSUME NEW j \in Party, Store(p, j) PROVE TypeOK'
  BY <1>2 DEF Store
<1>3. CASE Final(p)
  BY <1>3 DEF Final
<1>4. ASSUME NEW S \in SUBSET Party, CollectFinals(p, S) PROVE TypeOK'
  BY <1>4 DEF CollectFinals, Collected, FinalSet
<1>5. CASE ReturnMVBA(p)
  BY <1>5 DEF ReturnMVBA, Entered
<1>6. CASE ReturnHelp(p)
  BY <1>6 DEF ReturnHelp
<1>7. CASE Decrypt(p)
  BY <1>7 DEF Decrypt
<1> QED
  BY <1>1, <1>2, <1>3, <1>4, <1>5, <1>6, <1>7

(* Echoes are never withdrawn.                                             *)
LEMMA EchoersGrow ==
  ASSUME TypeOK, Next, NEW j \in Party
  PROVE  Echoers(j) \subseteq Echoers(j)'
<1>1. CASE receiver' = receiver
  BY <1>1 DEF Echoers
<1>2. ASSUME NEW p \in Party, NEW i \in Party, Receive(p, i) \/ Store(p, i)
      PROVE  Echoers(j) \subseteq Echoers(j)'
  BY <1>2 DEF TypeOK, Receive, Store, Echoers
<1> QED
  BY <1>1, <1>2
     DEF Next, Final, CollectFinals, ReturnMVBA, ReturnHelp, Decrypt

(* Every Final has its Echoes.                                             *)
LEMMA NextFinalInv == TypeOK /\ FinalInv /\ Next => FinalInv'
<1> SUFFICES ASSUME TypeOK, FinalInv, Next, NEW j \in final'
             PROVE  IsQuorum(Echoers(j)')
  BY DEF FinalInv
<1>1. j \in Party
  BY NextTypeOK DEF TypeOK
<1>2. IsQuorum(Echoers(j))
  BY DEF FinalInv, Next, Receive, Store, Final, CollectFinals, ReturnMVBA,
         ReturnHelp, Decrypt
<1>3. Echoers(j) \in SUBSET Party /\ Echoers(j)' \in SUBSET Party
  BY DEF Echoers
<1> QED
  BY <1>1, <1>2, <1>3, EchoersGrow, QuorumGrows

(* Inputs and results of MVBA are sets of Finals.                          *)
LEMMA NextSets ==
  ASSUME IInv, Next
  PROVE  InputInv' /\ ChosenInv'
<1> PICK p \in Party :
      \/ \E j \in Party : Receive(p, j) \/ Store(p, j)
      \/ Final(p)
      \/ \E S \in SUBSET Party : CollectFinals(p, S)
      \/ ReturnMVBA(p) \/ ReturnHelp(p) \/ Decrypt(p)
  BY DEF Next
<1> USE DEF IInv, TypeOK, InputInv, ChosenInv, Calling
<1>1. CASE \E j \in Party : Receive(p, j) \/ Store(p, j)
  BY <1>1 DEF Receive, Store
<1>2. CASE Final(p)
  BY <1>2 DEF Final
<1>3. ASSUME NEW S \in SUBSET Party, CollectFinals(p, S)
      PROVE  InputInv' /\ ChosenInv'
  <2>1. S # {}
    <3>1. S \in FinalSet
      BY <1>3 DEF CollectFinals, Collected, FinalSet
    <3> QED
      BY <3>1, FinalSetQuorum, QuorumNonEmpty
  <2>2. InputInv'
    BY <1>3, <2>1 DEF CollectFinals
  <2>3. ChosenInv'
    BY <1>3 DEF CollectFinals
  <2> QED
    BY <2>2, <2>3
<1>4. CASE ReturnMVBA(p)
  <2>1. chosen' \subseteq final /\ chosen' # {}
    BY <1>4 DEF ReturnMVBA, Entered
  <2> QED
    BY <1>4, <2>1 DEF ReturnMVBA
<1>5. CASE ReturnHelp(p)
  BY <1>5 DEF ReturnHelp
<1>6. CASE Decrypt(p)
  BY <1>6 DEF Decrypt
<1> QED
  BY <1>1, <1>2, <1>3, <1>4, <1>5, <1>6

(* The invariant holds of every behaviour.                                 *)
THEOREM Inductive == Spec => []IInv
<1>1. IInv /\ Next => IInv'
  BY NextTypeOK, NextFinalInv, NextSets DEF IInv
<1>2. IInv /\ UNCHANGED vars => IInv'
  BY DEF vars, IInv, TypeOK, FinalInv, InputInv, ChosenInv, Echoers, Calling
<1> QED
  BY InitIInv, <1>1, <1>2, PTL DEF Spec

-----------------------------------------------------------------------------
(* MVBA's result, once there is a caller, is 2F+1 Finals.                  *)
LEMMA ChosenQuorum ==
  ASSUME IInv, Calling # {}
  PROVE  IsQuorum(chosen) /\ chosen \in SUBSET Party
BY FinalSetQuorum DEF IInv, TypeOK, ChosenInv

(* The invariant gives CancelHarmless.                                     *)
LEMMA IInvCancelHarmless == IInv => CancelHarmless
<1> SUFFICES ASSUME IInv, NEW p \in Party, Cancelled(p)
             PROVE  IsQuorum(final)
  BY DEF CancelHarmless
<1>1. Calling # {}
  BY DEF Cancelled, Calling
<1>2. final \in SUBSET Party /\ chosen \subseteq final
  BY DEF IInv, TypeOK, ChosenInv
<1> QED
  BY <1>1, <1>2, ChosenQuorum, QuorumGrows

(* No more than F parties are not steady.                                  *)
LEMMA FewUnsteady == Cardinality(Party \ Steady) <= F
<1>1. Cardinality(Party \ Steady) = Cardinality(Party) - Cardinality(Steady)
  <2>1. Party \cap Steady = Steady
    BY BuadaAssumption
  <2> QED
    BY <2>1, PartyAssumption, FS_Difference
<1>2. Cardinality(Steady) \in Nat /\ Cardinality(Steady) > 2 * F
  BY BuadaAssumption, PartyCount DEF IsQuorum
<1> QED
  BY <1>1, <1>2, PartyAssumption DEF N

(* The invariant gives ProvidesHeld.                                       *)
LEMMA IInvProvidesHeld == IInv => ProvidesHeld
<1> SUFFICES ASSUME IInv, Steady \subseteq Calling, ~ Overtaken,
                    NEW j \in chosen
             PROVE  /\ Cardinality({p \in Calling \cap Steady : j \in Pr(p)}) > F
                    /\ Cardinality({p \in Calling : j \notin Pr(p)}) <= F + 1
  BY DEF ProvidesHeld, Held
<1> DEFINE H == {p \in Calling \cap Steady : j \in Pr(p)}
           L == {p \in Calling : j \notin Pr(p)}
           E == Echoers(j) \ (Party \ Steady)
<1>1. j \in Party /\ IsQuorum(Echoers(j)) /\ Echoers(j) \in SUBSET Party
  BY DEF IInv, TypeOK, ChosenInv, FinalInv, Echoers
<1>2. Cardinality(E) > F
  BY <1>1, FewUnsteady, QuorumSurvives
<1>3. E \subseteq H
  BY <1>1 DEF Overtaken, Echoers, Pr, IInv, TypeOK
<1>4. H \in SUBSET Party /\ E \in SUBSET Party
  BY <1>1 DEF Calling
<1>5. Cardinality(E) <= Cardinality(H)
  BY <1>3, <1>4, PartyCount, FS_Subset
<1>6. Cardinality(E) \in Nat /\ Cardinality(H) \in Nat
  BY <1>4, PartyCount
<1>7. L \subseteq Party \ Echoers(j)
  BY <1>1 DEF Overtaken, Echoers, Pr, Calling, IInv, TypeOK
<1> HIDE DEF H, L, E
<1>8. Cardinality(Party \ Echoers(j)) = N - Cardinality(Echoers(j))
  <2>1. /\ Party \cap Echoers(j) = Echoers(j)
        /\ IsFiniteSet(Party) /\ IsFiniteSet(Echoers(j))
    BY <1>1, PartyCount
  <2> QED
    BY <2>1, FS_Difference DEF N
<1>9. Cardinality(L) <= Cardinality(Party \ Echoers(j))
  <2>1. IsFiniteSet(Party \ Echoers(j))
    BY PartyCount
  <2> QED
    BY <1>7, <2>1, FS_Subset
<1>10. Cardinality(L) \in Nat /\ Cardinality(Echoers(j)) \in Nat
  <2>1. L \in SUBSET Party
    BY <1>7
  <2> QED
    BY <1>1, <2>1, PartyCount
<1>11. Cardinality(L) <= F + 1
  BY <1>1, <1>8, <1>9, <1>10, PartyAssumption DEF IsQuorum
<1>12. Cardinality(H) > F
  BY <1>2, <1>5, <1>6, PartyAssumption
<1> QED
  BY <1>11, <1>12 DEF H, L
-----------------------------------------------------------------------------
(* What each party returned, as CommonSubset sees it.                      *)
Output == [p \in Party |-> IF Cancelled(p) THEN chosen ELSE {}]

(* Nobody has returned at first.                                           *)
LEMMA InitRefines == Init => CS!Init
BY DEF Init, CS!Init, Cancelled

(* Every step is a return of the common subset or changes no output.       *)
LEMMA NextRefines ==
  ASSUME IInv, Next
  PROVE  CS!Next \/ Output' = Output
<1> PICK p \in Party :
      \/ \E j \in Party : Receive(p, j) \/ Store(p, j)
      \/ Final(p)
      \/ \E S \in SUBSET Party : CollectFinals(p, S)
      \/ ReturnMVBA(p) \/ ReturnHelp(p) \/ Decrypt(p)
  BY DEF Next
<1>1. TypeOK /\ ChosenInv
  BY DEF IInv
<1>2. CASE \/ \E j \in Party : Receive(p, j) \/ Store(p, j)
           \/ Final(p)
  BY <1>2 DEF Receive, Store, Final, Output, Cancelled
<1>3. CASE \E S \in SUBSET Party : CollectFinals(p, S)
  BY <1>1, <1>3 DEF TypeOK, CollectFinals, Output, Cancelled
<1>4. CASE ReturnMVBA(p)
  <2>1. \A q \in Party : Cancelled(q)' = Cancelled(q)
    BY <1>1, <1>4 DEF TypeOK, ReturnMVBA, Cancelled
  <2>2. CASE chosen = {}
    <3>1. \A q \in Party : ~ Cancelled(q)
      BY <1>1, <2>2 DEF ChosenInv, Calling, Cancelled
    <3> QED
      BY <2>1, <3>1 DEF Output
  <2>3. CASE chosen # {}
    BY <1>4, <2>1, <2>3 DEF ReturnMVBA, Output
  <2> QED
    BY <2>2, <2>3
<1>5. CASE ReturnHelp(p)
  <2>1. chosen' = chosen /\ ~ Cancelled(p) /\ Cancelled(p)'
    BY <1>1, <1>5 DEF TypeOK, ReturnHelp, Cancelled
  <2>2. \A q \in Party \ {p} : Cancelled(q)' = Cancelled(q)
    BY <1>1, <1>5 DEF TypeOK, ReturnHelp, Cancelled
  <2>3. Output' = [Output EXCEPT ![p] = chosen]
    BY <2>1, <2>2 DEF Output
  <2>4. Output[p] = {} /\ \A q \in Party : Output[q] \in {{}, chosen}
    BY <2>1 DEF Output
  <2>5. CS!IsQuorum(chosen) /\ chosen \in SUBSET Party
    BY <1>5, ChosenQuorum
       DEF ReturnHelp, Calling, CS!IsQuorum, IsQuorum,
           CS!Cardinality, Cardinality
  <2>6. CS!Return(p, chosen)
    BY <2>3, <2>4, <2>5 DEF CS!Return, Output
  <2> QED
    BY <2>5, <2>6 DEF CS!Next
<1>6. CASE Decrypt(p)
  BY <1>1, <1>6 DEF TypeOK, Decrypt, Output, Cancelled
<1> QED
  BY <1>2, <1>3, <1>4, <1>5, <1>6

(***************************************************************************)
(* TypeOK holds of every behaviour.                                        *)
(***************************************************************************)
THEOREM TypeCorrect == Spec => []TypeOK
BY Inductive, PTL DEF IInv

(***************************************************************************)
(* A party that returns from BuadaACS and cancels its broadcasts leaves    *)
(* 2F+1 Finals to everybody else.                                          *)
(***************************************************************************)
THEOREM CancelHarmlessAlways == Spec => []CancelHarmless
BY Inductive, IInvCancelHarmless, PTL

(***************************************************************************)
(* BuadaACS meets what CallHelp presumes: F+1 steady parties hold each     *)
(* chosen proposal unless a Pr.Store was overtaken.                        *)
(***************************************************************************)
THEOREM ProvidesHeldAlways == Spec => []ProvidesHeld
BY Inductive, IInvProvidesHeld, PTL

(***************************************************************************)
(* BuadaACS implements CommonSubset: one set of 2F+1 proposals everywhere. *)
(***************************************************************************)
THEOREM CommonSubsetImplemented == Spec => ImplementsCommonSubset
<1>1. IInv /\ [Next]_vars => [CS!Next]_Output
  <2>1. ASSUME UNCHANGED vars PROVE Output' = Output
    BY <2>1 DEF vars, Output, Cancelled
  <2> QED
    BY <2>1, NextRefines
<1> QED
  BY InitRefines, Inductive, <1>1, PTL
     DEF Spec, ImplementsCommonSubset, CS!Spec, Output

-----------------------------------------------------------------------------
(***************************************************************************)
(* Where the epoch can come to rest.  Liveness itself is TLC's; what it    *)
(* rests on is a fact about states.                                        *)
(***************************************************************************)

(* No fair action of p has anything to do.                                 *)
EpochIdle(p) ==
  /\ ~ Cancelled(p) =>
       /\ \A j \in Party : <<p, j>> \in Reach => receiver[p][j] # "waiting"
       /\ p \in final \/ ~ IsQuorum(Echoers(p))
  /\ main[p] \in {"finals", "mvba"} =>
       \A j \in Party : receiver[p][j] # "echoed"
  /\ main[p] = "finals" =>
       \A S \in SUBSET Party : ~ (S \subseteq final /\ Collected(S))
  /\ main[p] = "mvba" => ~ (Steady \subseteq Entered /\ IsQuorum(Entered))
  /\ main[p] = "help" =>
       ~ (Held /\ \A j \in chosen \ Pr(p) : Cardinality(Holders(j)) > F)
  /\ main[p] = "dec" => ~ Cardinality(DecSenders) > F + 1

(* Among 2F+1 Finals or more there are 2F+1.                               *)
LEMMA QuorumPart ==
  ASSUME NEW T \in SUBSET Party, IsQuorum(T)
  PROVE  \E S \in SUBSET T : Cardinality(S) = 2 * F + 1
<1> DEFINE n == Cardinality(T)
           m == 2 * F + 1
<1>1. IsFiniteSet(T) /\ n \in Nat /\ m \in Nat
  BY PartyCount, PartyAssumption
<1>2. n >= m
  BY <1>1, PartyAssumption DEF IsQuorum
<1>3. PICK f : f \in Bijection(1..n, T)
  BY <1>1, FS_CardinalityType DEF ExistsBijection
<1> HIDE DEF n, m
<1>4. /\ f \in [1..n -> T]
      /\ \A i, k \in 1..n : f[i] = f[k] => i = k
  BY <1>3 DEF Bijection, Injection, IsInjective
<1>5. 1..m \subseteq 1..n
  BY <1>1, <1>2
<1> DEFINE S == {f[i] : i \in 1..m}
           g == [i \in 1..m |-> f[i]]
<1>6. g \in Bijection(1..m, S)
  <2>1. g \in [1..m -> S]
    OBVIOUS
  <2>2. \A i, k \in 1..m : g[i] = g[k] => i = k
    BY <1>4, <1>5
  <2>3. \A y \in S : \E i \in 1..m : g[i] = y
    OBVIOUS
  <2> HIDE DEF S, g
  <2> QED
    BY <2>1, <2>2, <2>3 DEF Bijection, Injection, IsInjective, Surjection
<1>7. S \subseteq T
  BY <1>4, <1>5
<1> HIDE DEF S, g
<1>8. Cardinality(S) = m
  BY <1>1, <1>6, FS_CountingElements DEF ExistsBijection
<1> QED
  BY <1>7, <1>8 DEF m

(* Idle steady parties have all entered MVBA.                              *)
LEMMA IdleEntered ==
  ASSUME IInv, Steady \X Steady \subseteq Reach,
         \A p \in Steady : EpochIdle(p)
  PROVE  Steady \subseteq Entered
<1>1. final \in SUBSET Party /\ Steady \in SUBSET Party /\ IsQuorum(Steady)
  BY BuadaAssumption DEF IInv, TypeOK
<1>2. IsQuorum(final)
  <2>1. CASE \E p \in Party : Cancelled(p)
    BY <2>1, IInvCancelHarmless DEF CancelHarmless
  <2>2. CASE \A p \in Party : ~ Cancelled(p)
    <3>1. \A p, j \in Steady : receiver[p][j] # "waiting"
      BY <1>1, <2>2 DEF EpochIdle
    <3>2. \A j \in Steady : Steady \subseteq Echoers(j)
      BY <1>1, <3>1 DEF Echoers
    <3>3. \A j \in Steady : IsQuorum(Echoers(j))
      <4> SUFFICES ASSUME NEW j \in Steady PROVE IsQuorum(Echoers(j))
        OBVIOUS
      <4>1. Echoers(j) \in SUBSET Party
        BY DEF Echoers
      <4> QED
        BY <1>1, <3>2, <4>1, QuorumGrows
    <3>4. Steady \subseteq final
      BY <1>1, <2>2, <3>3 DEF EpochIdle
    <3> QED
      BY <1>1, <3>4, QuorumGrows
  <2> QED
    BY <2>1, <2>2
<1>3. PICK S \in SUBSET final : Cardinality(S) = 2 * F + 1
  BY <1>1, <1>2, QuorumPart
<1> QED
  BY <1>1, <1>3 DEF EpochIdle, Collected, Entered

(* With nobody overtaken they have come through CallHelp.                  *)
LEMMA IdleHelped ==
  ASSUME IInv, Steady \subseteq Entered, ~ Overtaken,
         \A p \in Steady : EpochIdle(p)
  PROVE  Steady \subseteq DecSenders
<1>1. Steady \in SUBSET Party /\ Entered \in SUBSET Party /\ IsQuorum(Steady)
  BY BuadaAssumption DEF Entered
<1>2. IsQuorum(Entered)
  BY <1>1, QuorumGrows
<1>3. Steady \subseteq Calling
  BY <1>1, <1>2 DEF EpochIdle, Entered, Calling, IInv, TypeOK
<1>4. Held
  BY <1>3, IInvProvidesHeld DEF ProvidesHeld
<1>5. ASSUME NEW j \in chosen PROVE Cardinality(Holders(j)) > F
  <2> DEFINE H == {p \in Calling \cap Steady : j \in Pr(p)}
  <2>1. Cardinality(H) > F
    BY <1>4 DEF Held
  <2>2. H \subseteq Holders(j) /\ H \in SUBSET Party /\ Holders(j) \in SUBSET Party
    BY DEF Holders, Calling
  <2> HIDE DEF H
  <2>3. /\ Cardinality(H) <= Cardinality(Holders(j))
        /\ Cardinality(H) \in Nat /\ Cardinality(Holders(j)) \in Nat
    BY <2>2, PartyCount, FS_Subset
  <2> QED
    BY <2>1, <2>3, PartyAssumption
<1>6. \A p \in Steady : main[p] # "help"
  BY <1>4, <1>5 DEF EpochIdle
<1> QED
  BY <1>1, <1>3, <1>6 DEF Calling, DecSenders

(***************************************************************************)
(* If the proposals of the steady parties reach the steady parties, the    *)
(* epoch comes to rest only where BuadaEnds says: a Pr.Store was overtaken *)
(* or every steady party has returned, whoever else stopped and when.      *)
(* F > 0: a single party would wait for two decryption shares for ever.    *)
(***************************************************************************)
THEOREM RestsEnded ==
  F > 0 /\ Steady \X Steady \subseteq Reach /\ Spec =>
    []((\A p \in Steady : EpochIdle(p)) => Overtaken \/ Ended)
<1> SUFFICES ASSUME F > 0, Steady \X Steady \subseteq Reach
             PROVE  Spec => []((\A p \in Steady : EpochIdle(p)) =>
                                 Overtaken \/ Ended)
  OBVIOUS
<1>1. ASSUME IInv, ~ Overtaken, \A p \in Steady : EpochIdle(p)
      PROVE  Ended
  <2>1. Steady \subseteq DecSenders
    BY <1>1, IdleEntered, IdleHelped
  <2>2. Steady \in SUBSET Party /\ DecSenders \in SUBSET Party
    BY BuadaAssumption DEF DecSenders
  <2>3. IsQuorum(DecSenders)
    BY <2>1, <2>2, BuadaAssumption, QuorumGrows
  <2>4. Cardinality(DecSenders) > F + 1
    BY <2>2, <2>3, PartyCount, PartyAssumption DEF IsQuorum
  <2> QED
    BY <1>1, <2>1, <2>4 DEF DecSenders, EpochIdle, Ended
<1>2. IInv => ((\A p \in Steady : EpochIdle(p)) => Overtaken \/ Ended)
  BY <1>1
<1> QED
  BY <1>2, Inductive, PTL

-----------------------------------------------------------------------------
(***************************************************************************)
(* What the epoch takes from its call of MVBA, as module MVBA follows it:  *)
(* nobody returns before 2F+1 parties have entered (the guard of           *)
(* ReturnMVBA), and the value SMVBA chooses can be decoded, whichever F    *)
(* parties are lost.                                                       *)
(*                                                                         *)
(* The argument: a Stored comes from a holder, 2F+1 of them lock the       *)
(* dispersal, the leader enters SMVBA locked, and no result is returned    *)
(* before it has entered.                                                  *)
(***************************************************************************)
CONSTANTS
  Leader,  \* the party whose proposal SMVBA returns
  Up,      \* the parties that are up in the call of MVBA
  Proposals  \* what the leader may call it with

VARIABLES
  sender, store, stored, sigs, recast, shares,  \* as in module MVBA
  proposal, result,
  storing,  \* where each party's PDReceiver goroutine is (receiver of MVBA)
  within    \* where each party is within MVBA (main of MVBA)

D == INSTANCE MVBA WITH receiver <- storing, main <- within

(* MVBAAssumption, of the constants as they are called here.               *)
CallAssumption ==
  /\ Leader \in Party
  /\ Up \in SUBSET Party
  /\ N <= 256
  /\ Proposals \subseteq [value : Seq(Byte), validation : Seq(Byte)]
  /\ \A i \in Proposals : FourBytes(Len(i.validation))

(* Both modules mean the same parties by a quorum.                         *)
LEMMA SameQuorum == \A S : D!IsQuorum(S) <=> IsQuorum(S)
BY DEF D!IsQuorum, IsQuorum, D!Cardinality, Cardinality

-----------------------------------------------------------------------------
(* The bytes that are dispersed, and what Recast makes of them.            *)

(* A number below 2^32 comes out of its four bytes again.                  *)
LEMMA BytesIs ==
  ASSUME NEW n \in Nat, FourBytes(n)
  PROVE  /\ IntToBytes(n) \in Seq(Byte) /\ Len(IntToBytes(n)) = 4
         /\ BytesToUint32(IntToBytes(n)) = n
<1> DEFINE b == IntToBytes(n)
           x == Shift(n)
           y == Shift(x)
           z == Shift(y)
<1>1. /\ x \in Nat /\ n = 256 * x + (n % 256)
      /\ y \in Nat /\ x = 256 * y + (x % 256)
      /\ z \in Nat /\ y = 256 * z + (y % 256)
  <2>1. ASSUME NEW i \in Nat
        PROVE  Shift(i) \in Nat /\ i = 256 * Shift(i) + (i % 256)
    BY DEF Shift
  <2>2. x \in Nat /\ n = 256 * x + (n % 256)
    BY <2>1
  <2> HIDE DEF x
  <2>3. y \in Nat /\ x = 256 * y + (x % 256)
    BY <2>1, <2>2
  <2> HIDE DEF y
  <2>4. z \in Nat /\ y = 256 * z + (y % 256)
    BY <2>1, <2>3
  <2> QED
    BY <2>2, <2>3, <2>4
<1>2. \A i \in Nat : i % 256 \in Byte
  BY DEF Byte
<1>3. z < 256
  BY DEF FourBytes
<1> HIDE DEF x, y, z
<1>4. b = <<z % 256, y % 256, x % 256, n % 256>>
  BY DEF IntToBytes, x, y, z
<1>5. b \in Seq(Byte) /\ Len(b) = 4
  BY <1>1, <1>2, <1>4
<1>6. z % 256 = z
  BY <1>1, <1>3
<1>7. b[1] = z /\ b[2] = y % 256 /\ b[3] = x % 256 /\ b[4] = n % 256
  BY <1>4, <1>6
<1>8. BytesToUint32(b) = n
  BY <1>1, <1>2, <1>7 DEF BytesToUint32, Byte
<1> QED
  BY <1>5, <1>8

(* A sequence that begins with m, cut to its length.                       *)
LEMMA PrefixIs ==
  ASSUME NEW S, NEW m \in Seq(S), NEW s, \A i \in 1 .. Len(m) : s[i] = m[i]
  PROVE  SubSeq(s, 1, Len(m)) = m
<1>1. Len(m) \in Nat /\ \A i \in 1 .. Len(m) : m[i] \in S
  BY LenProperties, ElementOfSeq
<1>2. /\ SubSeq(s, 1, Len(m)) \in Seq(S)
      /\ Len(SubSeq(s, 1, Len(m))) = IF 1 <= Len(m) THEN Len(m) - 1 + 1 ELSE 0
      /\ \A i \in 1 .. Len(m) - 1 + 1 : SubSeq(s, 1, Len(m))[i] = s[1 + i - 1]
  BY <1>1, SubSeqProperties
<1>3. /\ (IF 1 <= Len(m) THEN Len(m) - 1 + 1 ELSE 0) = Len(m)
      /\ Len(m) - 1 + 1 = Len(m)
      /\ \A i \in 1 .. Len(m) : 1 + i - 1 = i
  BY <1>1
<1>4. \A i \in 1 .. Len(m) : SubSeq(s, 1, Len(m))[i] = m[i]
  BY <1>2, <1>3
<1> QED
  BY <1>2, <1>3, <1>4, SeqEqual

(* The padding comes off again.                                            *)
LEMMA UnpadIs ==
  ASSUME NEW m \in Seq(Byte), NEW k \in 1 .. 255
  PROVE  Unpad(Pad(m, k)) = m
<1> DEFINE n == Len(m)
           padding == Padding(n, k)
           size == n + padding
           padded == Pad(m, k)
<1>1. n \in Nat /\ m \in [1 .. n -> Byte]
  BY LenProperties
<1>2. padding \in 1 .. k
  <2>1. n % k \in 0 .. k - 1
    BY <1>1
  <2> QED
    BY <2>1 DEF Padding
<1>3. size \in Nat /\ size >= 1 /\ size > n
  BY <1>1, <1>2
<1>4. padding % 256 = padding
  BY <1>2
<1>5. padded = [i \in 1 .. size |->
                 IF i = size THEN padding ELSE IF i <= n THEN m[i] ELSE 0]
  BY <1>4 DEF Pad
<1> HIDE DEF padding, size, padded
<1>6. padded \in Seq(Byte) /\ Len(padded) = size
  <2>1. padded \in [1 .. size -> Byte]
    BY <1>1, <1>2, <1>5 DEF Byte
  <2> QED
    BY <1>3, <2>1, SeqDef, LenProperties
<1>7. padded[Len(padded)] = padding
  BY <1>3, <1>5, <1>6
<1>8. \A i \in 1 .. n : padded[i] = m[i]
  BY <1>1, <1>3, <1>5
<1>9. Len(padded) - padded[Len(padded)] = n
  BY <1>1, <1>2, <1>6, <1>7 DEF size
<1>10. SubSeq(padded, 1, n) = m
  BY <1>8, PrefixIs
<1> QED
  BY <1>9, <1>10 DEF Unpad, padded
(* The suffix says how long the validation is, and comes off with it.      *)
LEMMA ResultValueIs ==
  ASSUME NEW v \in Seq(Byte), NEW w \in Seq(Byte), FourBytes(Len(w))
  PROVE  /\ ValueAndValidation(v, w) \in Seq(Byte)
         /\ ResultValue(ValueAndValidation(v, w)) = v
<1> DEFINE b == IntToBytes(Len(w))
           u == v \o w
           m == ValueAndValidation(v, w)
<1>1. /\ Len(v) \in Nat /\ Len(w) \in Nat
      /\ v \in [1 .. Len(v) -> Byte]
  BY LenProperties
<1>2. b \in Seq(Byte) /\ Len(b) = 4 /\ BytesToUint32(b) = Len(w)
  BY <1>1, BytesIs
<1>3. m = u \o b
  BY DEF ValueAndValidation
<1> HIDE DEF b, u, m
<1>4. /\ u \in Seq(Byte) /\ Len(u) = Len(v) + Len(w)
      /\ \A i \in 1 .. Len(v) : u[i] = v[i]
  <2>1. /\ u \in Seq(Byte) /\ Len(u) = Len(v) + Len(w)
        /\ \A i \in 1 .. Len(v) + Len(w) :
              u[i] = IF i <= Len(v) THEN v[i] ELSE w[i - Len(v)]
    BY ConcatProperties DEF u
  <2> QED
    BY <1>1, <2>1
<1>5. /\ m \in Seq(Byte) /\ Len(m) = Len(u) + 4
      /\ \A i \in 1 .. Len(u) : m[i] = u[i]
      /\ \A i \in 1 .. 4 : m[Len(u) + i] = b[i]
  <2>1. /\ m \in Seq(Byte) /\ Len(m) = Len(u) + 4
        /\ \A i \in 1 .. Len(u) + 4 :
              m[i] = IF i <= Len(u) THEN u[i] ELSE b[i - Len(u)]
    <3>1. u \in Seq(Byte) /\ b \in Seq(Byte)
      BY <1>2, <1>4
    <3>2. /\ u \o b \in Seq(Byte) /\ Len(u \o b) = Len(u) + Len(b)
          /\ \A i \in 1 .. Len(u) + Len(b) :
                (u \o b)[i] = IF i <= Len(u) THEN u[i] ELSE b[i - Len(u)]
      BY <3>1, ConcatProperties
    <3> QED
      BY <1>2, <1>3, <3>2
  <2>2. Len(u) \in Nat
    BY <1>1, <1>4
  <2>3. \A i \in 1 .. 4 : Len(u) + i \in 1 .. Len(u) + 4 /\ ~ (Len(u) + i <= Len(u))
                          /\ (Len(u) + i) - Len(u) = i
    BY <2>2
  <2>4. \A i \in 1 .. 4 : m[Len(u) + i] = b[i]
    BY <2>1, <2>3
  <2>5. \A i \in 1 .. Len(u) : m[i] = u[i]
    BY <2>1, <2>2
  <2> QED
    BY <2>1, <2>4, <2>5
<1>6. SubSeq(m, Len(m) - 3, Len(m)) = b
  <2> DEFINE s == SubSeq(m, Len(m) - 3, Len(m))
  <2>1. Len(u) \in Nat /\ Len(m) - 3 = Len(u) + 1 /\ Len(m) = Len(u) + 4
    BY <1>1, <1>4, <1>5
  <2>2. \A i \in Len(u) + 1 .. Len(u) + 4 : m[i] \in Byte
    BY <1>5, <2>1, ElementOfSeq
  <2>3. s = SubSeq(m, Len(u) + 1, Len(u) + 4)
    BY <2>1
  <2>4. /\ s \in Seq(Byte) /\ Len(s) = 4
        /\ \A i \in 1 .. 4 : s[i] = m[Len(u) + i]
    <3>1. /\ s \in Seq(Byte)
          /\ Len(s) = IF Len(u) + 1 <= Len(u) + 4
                      THEN (Len(u) + 4) - (Len(u) + 1) + 1 ELSE 0
          /\ \A i \in 1 .. (Len(u) + 4) - (Len(u) + 1) + 1 :
                s[i] = m[(Len(u) + 1) + i - 1]
      BY <2>1, <2>2, <2>3, SubSeqProperties
    <3> HIDE DEF s
    <3>2. /\ Len(u) + 1 <= Len(u) + 4 /\ (Len(u) + 4) - (Len(u) + 1) + 1 = 4
          /\ \A i \in 1 .. 4 : (Len(u) + 1) + i - 1 = Len(u) + i
      BY <2>1
    <3> QED
      BY <3>1, <3>2
  <2> HIDE DEF s
  <2>5. \A i \in 1 .. Len(s) : s[i] = b[i]
    BY <1>5, <2>4
  <2>6. s = b
    BY <1>2, <2>4, <2>5, SeqEqual
  <2> QED
    BY <2>6 DEF s
<1>7. Len(m) - Len(w) - 4 = Len(v)
  BY <1>1, <1>4, <1>5
<1>8. SubSeq(m, 1, Len(v)) = v
  <2>1. \A i \in 1 .. Len(v) : m[i] = v[i]
    <3>1. \A i \in 1 .. Len(v) : i \in 1 .. Len(u)
      BY <1>1, <1>4
    <3> QED
      BY <1>4, <1>5, <3>1
  <2> QED
    BY <1>1, <2>1, PrefixIs
<1>9. ResultValue(m) = v
  BY <1>2, <1>6, <1>7, <1>8 DEF ResultValue
<1> QED
  BY <1>5, <1>9 DEF m
(* Both modules mean the same bytes.                                       *)
LEMMA SameCodec ==
  /\ \A m, k : D!Pad(m, k) = Pad(m, k)
  /\ \A m : D!Unpad(m) = Unpad(m) /\ D!ResultValue(m) = ResultValue(m)
  /\ \A v, w : D!ValueAndValidation(v, w) = ValueAndValidation(v, w)
BY DEF D!Pad, Pad, D!Padding, Padding, D!Unpad, Unpad,
       D!ResultValue, ResultValue, D!BytesToUint32, BytesToUint32,
       D!ValueAndValidation, ValueAndValidation, D!IntToBytes, IntToBytes,
       D!Shift, Shift

(* A coder for N <= 256 parties keeps the padding in one byte, so what is  *)
(* decoded is what was encoded, with the value at its beginning.           *)
LEMMA DecodedIs ==
  ASSUME CallAssumption, proposal \in Proposals
  PROVE  /\ D!Unpad(D!Encoded(D!Message)) = D!Message
         /\ D!ResultValue(D!Message) = proposal.value
         /\ proposal.value \in Seq(Byte)
<1>1. /\ proposal.value \in Seq(Byte) /\ proposal.validation \in Seq(Byte)
      /\ FourBytes(Len(proposal.validation))
  BY DEF CallAssumption
<1>2. /\ D!Message \in Seq(Byte)
      /\ D!ResultValue(D!Message) = proposal.value
  BY <1>1, SameCodec, ResultValueIs DEF D!Message
<1>3. F + 1 \in 1 .. 255
  BY PartyAssumption DEF CallAssumption
<1>4. D!Unpad(D!Encoded(D!Message)) = D!Message
  BY <1>2, <1>3, SameCodec, UnpadIs DEF D!Encoded
<1> QED
  BY <1>1, <1>2, <1>4

(* Hence the recast that takes its last shard succeeds.                    *)
LEMMA TakeRecastIs ==
  ASSUME CallAssumption, proposal \in Proposals,
         NEW p \in Party, NEW j \in Party, D!TakeRecast(p, j)
  PROVE  /\ within[p] = "recast" /\ j \in recast
         /\ shares' = [shares EXCEPT ![p] = @ \cup {j}]
         /\ within' = IF IsQuorum(shares'[p])
                      THEN [within EXCEPT ![p] = "returned"] ELSE within
         /\ result' = IF IsQuorum(shares'[p])
                      THEN [result EXCEPT ![p] = proposal.value] ELSE result
         /\ UNCHANGED <<sender, store, storing, stored, sigs, recast, proposal>>
<1>1. /\ D!Unpad(D!Encoded(D!Message)) = D!Message
      /\ D!ResultValue(D!Message) = proposal.value
  BY DecodedIs
<1>2. D!Decodes(shares'[p]) <=> IsQuorum(shares'[p])
  BY SameQuorum DEF D!Decodes
<1> QED
  BY <1>1, <1>2 DEF D!TakeRecast

-----------------------------------------------------------------------------
(* A Stored, taken or not, was sent by a party that holds its shard.       *)
StoredInv == stored \cup sigs \subseteq D!Holders

(* A locked dispersal has 2F+1 signature shares.                           *)
LockedInv == sender = "locked" => IsQuorum(sigs)

(* The leader enters SMVBA with its dispersal locked, and before anybody   *)
(* has a result.                                                           *)
LeaderInv ==
  /\ Leader \in D!Entered => sender = "locked"
  /\ \A p \in Party : within[p] \in {"recast", "returned"} =>
                      Leader \in D!Entered

(* What a party has returned is the leader's value.                        *)
WholeInv == \A p \in Party : within[p] = "returned" => result[p] = proposal.value

DispersalInv ==
  CallAssumption /\ D!TypeOK /\ StoredInv /\ LockedInv /\ LeaderInv /\ WholeInv

(* The actions of MVBA, whichever party is up.                             *)
LEMMA DispersalCases ==
  D!Next <=>
    \/ Leader \in Up /\ D!SendStore
    \/ Leader \in Up /\ \E p \in Party : D!CollectStored(p)
    \/ \E p \in Up :
         \/ D!ReceiveStore(p) \/ D!SaveStore(p)
         \/ D!EnterSMVBA(p) \/ D!ReturnSMVBA(p)
         \/ \E j \in Party : D!TakeRecast(p, j)
BY DEF D!Next, D!SenderStep, D!ReceiverStep, D!MainStep

-----------------------------------------------------------------------------
(* The invariant holds before the first Store.                             *)
LEMMA InitDispersal == CallAssumption /\ D!Init => DispersalInv
BY DEF CallAssumption, D!Init, DispersalInv, D!TypeOK,
       StoredInv, LockedInv, LeaderInv, WholeInv, D!Holders, D!Entered

(* Every action keeps the variables in their types.                        *)
LEMMA NextDispersalType == CallAssumption /\ D!TypeOK /\ D!Next => D!TypeOK'
<1> SUFFICES ASSUME CallAssumption, D!TypeOK, D!Next PROVE D!TypeOK'
  OBVIOUS
<1>0. Leader \in Party /\ Up \in SUBSET Party
  BY DEF CallAssumption
<1> USE <1>0 DEF D!TypeOK
<1>1. CASE D!SendStore
  BY <1>1 DEF D!SendStore
<1>2. ASSUME NEW p \in Party, D!CollectStored(p) PROVE D!TypeOK'
  BY <1>2 DEF D!CollectStored
<1>3. ASSUME NEW p \in Up, D!ReceiveStore(p) PROVE D!TypeOK'
  BY <1>3 DEF D!ReceiveStore
<1>4. ASSUME NEW p \in Up, D!SaveStore(p) PROVE D!TypeOK'
  BY <1>4 DEF D!SaveStore
<1>5. ASSUME NEW p \in Up, D!EnterSMVBA(p) PROVE D!TypeOK'
  BY <1>5 DEF D!EnterSMVBA
<1>6. ASSUME NEW p \in Up, D!ReturnSMVBA(p) PROVE D!TypeOK'
  BY <1>6 DEF D!ReturnSMVBA
<1>7. ASSUME NEW p \in Up, NEW j \in Party, D!TakeRecast(p, j) PROVE D!TypeOK'
  <2>1. p \in Party /\ proposal \in Proposals /\ proposal.value \in Seq(Byte)
    BY DecodedIs
  <2>2. D!Byte = Byte
    BY DEF D!Byte, Byte
  <2>3. result' \in [Party -> Seq(D!Byte)]
    <3>1. \/ result' = [result EXCEPT ![p] = proposal.value]
          \/ result' = result
      BY <1>7, <2>1, TakeRecastIs
    <3>2. proposal.value \in Seq(D!Byte) /\ result \in [Party -> Seq(D!Byte)]
      BY <2>1, <2>2
    <3> QED
      BY <3>1, <3>2
  <2>4. /\ shares' = [shares EXCEPT ![p] = @ \cup {j}]
        /\ within' = [within EXCEPT ![p] = "returned"] \/ within' = within
    BY <1>7, <2>1, TakeRecastIs
  <2>5. UNCHANGED <<sender, store, storing, stored, sigs, recast, proposal>>
    BY <1>7, <2>1, TakeRecastIs
  <2> QED
    BY <2>3, <2>4, <2>5
<1> QED
  BY <1>1, <1>2, <1>3, <1>4, <1>5, <1>6, <1>7, DispersalCases

(* A party that enters SMVBA only adds to those that have.                 *)
LEMMA EnterLeader ==
  ASSUME DispersalInv, NEW p \in Up, D!EnterSMVBA(p)
  PROVE  LeaderInv'
<1>1. p \in Party /\ within \in [Party -> {"pd", "smvba", "recast", "returned"}]
  BY DEF DispersalInv, CallAssumption, D!TypeOK
<1>2. /\ within[p] = "pd" /\ within' = [within EXCEPT ![p] = "smvba"]
      /\ p = Leader => sender = "locked"
      /\ sender' = sender
  BY DEF D!EnterSMVBA
<1>3. D!Entered' = D!Entered \cup {p} /\ D!Entered \in SUBSET Party
  BY <1>1, <1>2 DEF D!Entered
<1>4. \A q \in Party : within'[q] \in {"recast", "returned"} =>
                      within[q] \in {"recast", "returned"}
  BY <1>1, <1>2
<1>5. LeaderInv
  BY DEF DispersalInv
<1>6. Leader \in D!Entered' => sender' = "locked"
  BY <1>2, <1>3, <1>5 DEF LeaderInv
<1>7. ASSUME NEW q \in Party, within'[q] \in {"recast", "returned"}
      PROVE  Leader \in D!Entered'
  BY <1>3, <1>4, <1>5, <1>7 DEF LeaderInv
<1> QED
  BY <1>6, <1>7 DEF LeaderInv

(* A result stays as it is, and a new one is the leader's value.           *)
LEMMA NextWhole == DispersalInv /\ D!Next => WholeInv'
<1> SUFFICES ASSUME DispersalInv, D!Next PROVE WholeInv'
  OBVIOUS
<1>1. /\ CallAssumption /\ Up \in SUBSET Party /\ proposal \in Proposals
      /\ within \in [Party -> {"pd", "smvba", "recast", "returned"}]
      /\ result \in [Party -> Seq(D!Byte)]
      /\ WholeInv
  BY DEF DispersalInv, CallAssumption, D!TypeOK
<1>2. ASSUME UNCHANGED <<within, proposal, result>> PROVE WholeInv'
  BY <1>1, <1>2 DEF WholeInv
<1>3. ASSUME NEW p \in Up, D!EnterSMVBA(p) \/ D!ReturnSMVBA(p) PROVE WholeInv'
  <2>1. /\ UNCHANGED <<proposal, result>>
        /\ \/ within' = [within EXCEPT ![p] = "smvba"]
           \/ within' = [within EXCEPT ![p] = "recast"]
    BY <1>3 DEF D!EnterSMVBA, D!ReturnSMVBA
  <2> QED
    BY <1>1, <2>1 DEF WholeInv
<1>4. ASSUME NEW p \in Up, NEW j \in Party, D!TakeRecast(p, j) PROVE WholeInv'
  <2>1. /\ within' = IF IsQuorum(shares'[p])
                     THEN [within EXCEPT ![p] = "returned"] ELSE within
        /\ result' = IF IsQuorum(shares'[p])
                     THEN [result EXCEPT ![p] = proposal.value] ELSE result
        /\ proposal' = proposal
    BY <1>1, <1>4, TakeRecastIs
  <2> QED
    BY <1>1, <2>1 DEF WholeInv
<1> QED
  BY <1>2, <1>3, <1>4, DispersalCases
     DEF D!SendStore, D!CollectStored, D!ReceiveStore, D!SaveStore

(* Every step keeps the invariant.                                         *)
LEMMA NextDispersal == DispersalInv /\ [D!Next]_D!vars => DispersalInv'
<1> SUFFICES ASSUME DispersalInv, [D!Next]_D!vars PROVE DispersalInv'
  OBVIOUS
<1>0. /\ CallAssumption /\ Leader \in Party /\ Up \in SUBSET Party
      /\ proposal \in Proposals
  BY DEF DispersalInv, CallAssumption, D!TypeOK
<1> USE <1>0 DEF DispersalInv, D!TypeOK, StoredInv, LockedInv, LeaderInv,
           D!Holders, D!Entered
<1>1. CASE UNCHANGED D!vars
  BY <1>1 DEF D!vars, WholeInv
<1>2. CASE D!Next
  <2>1. D!TypeOK'
    BY <1>2, NextDispersalType
  <2>2. WholeInv'
    BY <1>2, NextWhole
  <2>3. CASE D!SendStore
    <3>1. StoredInv' /\ LockedInv' /\ LeaderInv'
      BY <2>3 DEF D!SendStore
    <3> QED
      BY <2>1, <2>2, <3>1
  <2>4. ASSUME NEW p \in Party, D!CollectStored(p) PROVE DispersalInv'
    <3>1. StoredInv' /\ LockedInv' /\ LeaderInv'
      BY <2>4, SameQuorum DEF D!CollectStored
    <3> QED
      BY <2>1, <2>2, <3>1
  <2>5. ASSUME NEW p \in Up, D!ReceiveStore(p) PROVE DispersalInv'
    <3>1. StoredInv' /\ LockedInv' /\ LeaderInv'
      BY <2>5 DEF D!ReceiveStore
    <3> QED
      BY <2>1, <2>2, <3>1
  <2>6. ASSUME NEW p \in Up, D!SaveStore(p) PROVE DispersalInv'
    <3>1. StoredInv' /\ LockedInv' /\ LeaderInv'
      BY <2>6 DEF D!SaveStore
    <3> QED
      BY <2>1, <2>2, <3>1
  <2>7. ASSUME NEW p \in Up, D!EnterSMVBA(p) PROVE DispersalInv'
    <3>1. StoredInv' /\ LockedInv'
      BY <2>7 DEF D!EnterSMVBA
    <3> QED
      BY <2>1, <2>2, <2>7, <3>1, EnterLeader
  <2>8. ASSUME NEW p \in Up, D!ReturnSMVBA(p) PROVE DispersalInv'
    <3>1. D!Entered' = D!Entered
      BY <2>8 DEF D!ReturnSMVBA
    <3>2. StoredInv' /\ LockedInv' /\ LeaderInv'
      BY <2>8, <3>1, SameQuorum DEF D!ReturnSMVBA
    <3> QED
      BY <2>1, <2>2, <3>2
  <2>9. ASSUME NEW p \in Up, NEW j \in Party, D!TakeRecast(p, j) PROVE DispersalInv'
    <3>1. /\ within[p] = "recast"
          /\ within' = [within EXCEPT ![p] = "returned"] \/ within' = within
          /\ UNCHANGED <<sender, store, storing, stored, sigs>>
      BY <2>9, TakeRecastIs
    <3>2. D!Entered' = D!Entered
      BY <3>1
    <3>3. StoredInv' /\ LockedInv' /\ LeaderInv'
      BY <3>1, <3>2
    <3> QED
      BY <2>1, <2>2, <3>3
  <2> QED
    BY <1>2, <2>3, <2>4, <2>5, <2>6, <2>7, <2>8, <2>9, DispersalCases
<1> QED
  BY <1>1, <1>2

(* The invariant holds of every behaviour.                                 *)
THEOREM DispersalInductive == CallAssumption /\ D!Spec => []DispersalInv
BY InitDispersal, NextDispersal, PTL DEF D!Spec

-----------------------------------------------------------------------------
(***************************************************************************)
(* MVBA returns nowhere, and does not even come to Recast, before 2F+1     *)
(* parties have answered the Store of the party whose value it is.  A      *)
(* PDReceiver runs only inside a call of MVBA, so as many have called it,  *)
(* as ReturnMVBA presumes; that SMVBA waits for a quorum of its own is not *)
(* used.                                                                   *)
(***************************************************************************)
AnsweredByQuorum ==
  \A p \in Party :
    within[p] \in {"recast", "returned"} => IsQuorum(D!Holders)

(* An answer stays with its party when the leader takes it, and the leader *)
(* enters SMVBA, whose result is its proposal, with 2F+1 of them.          *)
LEMMA DispersalInvAnswered == DispersalInv => AnsweredByQuorum
<1> SUFFICES ASSUME DispersalInv,
                    NEW p \in Party, within[p] \in {"recast", "returned"}
             PROVE  IsQuorum(D!Holders)
  BY DEF AnsweredByQuorum
<1>1. IsQuorum(sigs)
  BY DEF DispersalInv, LeaderInv, LockedInv
<1>2. sigs \subseteq D!Holders /\ D!Holders \subseteq Party
  BY DEF DispersalInv, StoredInv, D!Holders
<1> QED
  BY <1>1, <1>2, QuorumGrows

THEOREM AnsweredByQuorumAlways ==
  CallAssumption /\ D!Spec => []AnsweredByQuorum
BY DispersalInductive, DispersalInvAnswered, PTL

(* The invariant gives Retrievable.                                        *)
LEMMA DispersalInvRetrievable == DispersalInv => D!Retrievable
<1> SUFFICES ASSUME DispersalInv,
                    NEW p \in Party, within[p] \in {"recast", "returned"},
                    NEW gone \in SUBSET Party, Cardinality(gone) <= F
             PROVE  Cardinality(D!Holders \ gone) > F
  BY DEF D!Retrievable, D!Cardinality, Cardinality
<1>1. IsQuorum(D!Holders)
  BY DispersalInvAnswered DEF AnsweredByQuorum
<1>2. D!Holders \subseteq Party
  BY DEF D!Holders
<1> QED
  BY <1>1, <1>2, QuorumSurvives

(***************************************************************************)
(* TypeOK of module MVBA holds of every behaviour.                         *)
(***************************************************************************)
THEOREM DispersalTypeCorrect == CallAssumption /\ D!Spec => []D!TypeOK
BY DispersalInductive, PTL DEF DispersalInv

(***************************************************************************)
(* Retrievable of module MVBA: whenever SMVBA has returned somewhere, F+1  *)
(* shards of the value survive the loss of any F parties.                  *)
(***************************************************************************)
THEOREM RetrievableAlways == CallAssumption /\ D!Spec => []D!Retrievable
BY DispersalInductive, DispersalInvRetrievable, PTL

(***************************************************************************)
(* ReturnedWhole of module MVBA: every party that returns does so with the *)
(* leader's value, byte for byte, and no recast fails, whatever the        *)
(* lengths of value and validation.                                        *)
(***************************************************************************)
THEOREM ReturnedWholeAlways == CallAssumption /\ D!Spec => []D!ReturnedWhole
<1>1. DispersalInv => D!ReturnedWhole
  <2> SUFFICES ASSUME DispersalInv, NEW p \in Party
               PROVE  /\ within[p] # "failed"
                      /\ within[p] = "returned" => result[p] = proposal.value
    BY DEF D!ReturnedWhole
  <2>1. within[p] \in {"pd", "smvba", "recast", "returned"} /\ WholeInv
    BY DEF DispersalInv, D!TypeOK
  <2> QED
    BY <2>1 DEF WholeInv
<1> QED
  BY DispersalInductive, <1>1, PTL

-----------------------------------------------------------------------------
(***************************************************************************)
(* Where the call of MVBA can come to rest.  Liveness itself is TLC's;     *)
(* what it rests on is a fact about states.                                *)
(***************************************************************************)

(* The leader's PDSender has nothing to do.                                *)
SenderIdle == sender # "start" /\ (sender = "collecting" => stored = {})

(* PDReceiver and MainProcess of p have nothing to do.                     *)
MVBAIdle(p) ==
  /\ storing[p] = "waiting" => p \notin store
  /\ storing[p] # "stored"
  /\ within[p] = "pd" => p = Leader /\ sender # "locked"
  /\ within[p] = "smvba" => ~ (Leader \in D!Entered /\ IsQuorum(D!Entered))
  /\ within[p] = "recast" => recast \subseteq shares[p]

(* Every Store is in its channel or answered; the Stored that makes 2F+1   *)
(* ends the dispersal.                                                     *)
SentInv ==
  /\ sender = "start" => sigs = {}
  /\ sender = "collecting" => ~ IsQuorum(sigs)
  /\ sender # "start" =>
       \A p \in Party : IF storing[p] = "waiting" THEN p \in store
                                                  ELSE p \in stored \cup sigs
  /\ sender = "start" => store = {} /\ stored = {}
                        /\ \A p \in Party : storing[p] = "waiting"

(* A party decodes exactly when it has taken 2F+1 shards that were sent.   *)
SharesInv ==
  \A p \in Party :
    /\ shares[p] \subseteq recast
    /\ within[p] \in {"pd", "smvba", "recast"} => ~ IsQuorum(shares[p])
    /\ within[p] = "returned" => IsQuorum(shares[p])

(* The dispersal keeps SentInv.                                            *)
LEMMA NextSentInv ==
  ASSUME DispersalInv, SentInv, D!Next
  PROVE  SentInv'
<1> USE DEF DispersalInv, CallAssumption, D!TypeOK, SentInv
<1>1. CASE D!SendStore
  <2>1. ~ IsQuorum({})
    BY FS_EmptySet, PartyAssumption DEF IsQuorum
  <2> QED
    BY <1>1, <2>1 DEF D!SendStore
<1>2. ASSUME NEW p \in Party, D!CollectStored(p) PROVE SentInv'
  <2>1. /\ sender = "collecting" /\ stored' = stored \ {p}
        /\ sigs' = sigs \cup {p} /\ UNCHANGED <<store, storing>>
    BY <1>2 DEF D!CollectStored
  <2>2. sender' = IF IsQuorum(sigs') THEN "locked" ELSE sender
    BY <1>2, SameQuorum DEF D!CollectStored
  <2> QED
    BY <2>1, <2>2
<1>3. ASSUME NEW p \in Up, D!ReceiveStore(p) PROVE SentInv'
  <2>1. /\ storing[p] = "waiting" /\ p \in store /\ p \in Party
        /\ store' = store \ {p} /\ stored' = stored \cup {p}
        /\ storing' = [storing EXCEPT ![p] = "stored"]
        /\ UNCHANGED <<sender, sigs>>
    BY <1>3 DEF D!ReceiveStore
  <2> QED
    BY <2>1
<1>4. ASSUME NEW p \in Up, D!SaveStore(p) PROVE SentInv'
  BY <1>4 DEF D!SaveStore
<1>5. ASSUME UNCHANGED <<sender, store, storing, stored, sigs>> PROVE SentInv'
  BY <1>5
<1> QED
  BY <1>1, <1>2, <1>3, <1>4, <1>5, DispersalCases
     DEF D!EnterSMVBA, D!ReturnSMVBA, D!TakeRecast

(* MainProcess keeps SharesInv.                                            *)
LEMMA NextSharesInv ==
  ASSUME DispersalInv, SharesInv, D!Next
  PROVE  SharesInv'
<1> USE DEF DispersalInv, CallAssumption, D!TypeOK, SharesInv
<1>1. ASSUME NEW p \in Up, D!EnterSMVBA(p) PROVE SharesInv'
  BY <1>1 DEF D!EnterSMVBA
<1>2. ASSUME NEW p \in Up, D!ReturnSMVBA(p) PROVE SharesInv'
  <2>1. /\ p \in Party /\ within[p] = "smvba"
        /\ within' = [within EXCEPT ![p] = "recast"]
        /\ recast \subseteq recast' /\ shares' = shares
    BY <1>2 DEF D!ReturnSMVBA
  <2> QED
    BY <2>1
<1>3. ASSUME NEW p \in Up, NEW j \in Party, D!TakeRecast(p, j)
      PROVE  SharesInv'
  <2>1. /\ p \in Party /\ within[p] = "recast" /\ j \in recast
        /\ shares' = [shares EXCEPT ![p] = @ \cup {j}]
        /\ recast' = recast
    BY <1>3, TakeRecastIs
  <2>2. within' = IF IsQuorum(shares'[p])
                 THEN [within EXCEPT ![p] = "returned"] ELSE within
    BY <1>3, TakeRecastIs
  <2> QED
    BY <2>1, <2>2
<1>4. ASSUME UNCHANGED <<within, recast, shares>> PROVE SharesInv'
  BY <1>4
<1> QED
  BY <1>1, <1>2, <1>3, <1>4, DispersalCases
     DEF D!SendStore, D!CollectStored, D!ReceiveStore, D!SaveStore

(* Both hold of every behaviour.                                           *)
LEMMA RestInductive == CallAssumption /\ D!Spec => [](SentInv /\ SharesInv)
<1>1. D!Init => SentInv /\ SharesInv
  BY FS_EmptySet, PartyAssumption DEF D!Init, SentInv, SharesInv, IsQuorum
<1>2. ASSUME DispersalInv, SentInv, SharesInv, [D!Next]_D!vars
      PROVE  SentInv' /\ SharesInv'
  <2>1. CASE D!Next
    BY <1>2, <2>1, NextSentInv, NextSharesInv
  <2>2. CASE UNCHANGED D!vars
    BY <1>2, <2>2 DEF D!vars, SentInv, SharesInv, IsQuorum
  <2> QED
    BY <1>2, <2>1, <2>2
<1> QED
  BY <1>1, <1>2, DispersalInductive, PTL DEF D!Spec

(* With the shard of every party that is up, Recast has 2F+1 to take.      *)
LEMMA ShardsSuffice ==
  ASSUME DispersalInv, SharesInv, IsQuorum(Up), ~ D!NoShard,
         \A p \in Up : within[p] \in {"recast", "returned"}
  PROVE  IsQuorum(recast)
<1>1. recast \in SUBSET Party /\ Up \in SUBSET Party
  BY DEF DispersalInv, CallAssumption, D!TypeOK
<1>2. CASE \E p \in Up : within[p] = "returned"
  <2>1. PICK p \in Up : within[p] = "returned"
    BY <1>2
  <2>2. IsQuorum(shares[p]) /\ shares[p] \subseteq recast
    BY <1>1, <2>1 DEF SharesInv
  <2> QED
    BY <1>1, <2>2, QuorumGrows
<1>3. CASE \A p \in Up : within[p] = "recast"
  <2>1. Up \subseteq recast
    BY <1>3 DEF D!NoShard
  <2> QED
    BY <1>1, <2>1, QuorumGrows
<1> QED
  BY <1>2, <1>3

(* Parties idle in their call of MVBA have all left SMVBA.                 *)
LEMMA IdleInSMVBA ==
  ASSUME DispersalInv, SentInv, Leader \in Up, IsQuorum(Up),
         SenderIdle, \A p \in Up : MVBAIdle(p)
  PROVE  \A p \in Up : within[p] \in {"recast", "returned"}
<1>1. /\ Up \in SUBSET Party /\ sigs \in SUBSET Party
      /\ D!Entered \in SUBSET Party
      /\ sender \in {"start", "collecting", "locked"}
      /\ \A p \in Up : within[p] \in {"pd", "smvba", "recast", "returned"}
  BY DEF DispersalInv, CallAssumption, D!TypeOK, D!Entered
<1>2. sender = "locked"
  <2> SUFFICES ASSUME sender = "collecting" PROVE FALSE
    BY <1>1 DEF SenderIdle
  <2>1. Up \subseteq sigs
    BY <1>1 DEF SentInv, SenderIdle, MVBAIdle
  <2> QED
    BY <1>1, <2>1, QuorumGrows DEF SentInv
<1>3. Up \subseteq D!Entered
  BY <1>1, <1>2 DEF MVBAIdle, D!Entered
<1>4. IsQuorum(D!Entered)
  BY <1>1, <1>3, QuorumGrows
<1> QED
  BY <1>1, <1>3, <1>4 DEF MVBAIdle, D!Entered

(***************************************************************************)
(* With 2F+1 parties up, the leader among them, the call of MVBA comes to  *)
(* rest only where RecastEnds says: all of them have returned, or one came *)
(* to Recast without its shard.                                            *)
(***************************************************************************)
THEOREM RestsRecast ==
  CallAssumption /\ D!Spec =>
    [](/\ Leader \in Up /\ IsQuorum(Up)
       /\ SenderIdle /\ \A p \in Up : MVBAIdle(p)
       => D!AllReturned \/ D!NoShard)
<1>1. ASSUME DispersalInv, SentInv, SharesInv, Leader \in Up, IsQuorum(Up),
             SenderIdle, \A p \in Up : MVBAIdle(p), ~ D!NoShard
      PROVE  D!AllReturned
  <2>1. \A p \in Up : within[p] \in {"recast", "returned"}
    BY <1>1, IdleInSMVBA
  <2>2. IsQuorum(recast)
    BY <1>1, <2>1, ShardsSuffice
  <2> SUFFICES ASSUME NEW p \in Up, within[p] = "recast" PROVE FALSE
    BY <2>1 DEF D!AllReturned
  <2>3. p \in Party /\ recast \in SUBSET Party /\ shares[p] \in SUBSET Party
    BY <1>1 DEF DispersalInv, CallAssumption, D!TypeOK
  <2>4. recast \subseteq shares[p] /\ ~ IsQuorum(shares[p])
    BY <1>1, <2>3 DEF MVBAIdle, SharesInv
  <2> QED
    BY <2>2, <2>3, <2>4, QuorumGrows
<1>2. DispersalInv /\ SentInv /\ SharesInv =>
        (/\ Leader \in Up /\ IsQuorum(Up)
         /\ SenderIdle /\ \A p \in Up : MVBAIdle(p)
         => D!AllReturned \/ D!NoShard)
  BY <1>1
<1> QED
  BY <1>2, DispersalInductive, RestInductive, PTL

(***************************************************************************)
(* Recast can only hang as in run mvba_stall: RecastAlive holds as long as *)
(* every party that came to Recast had its shard in Sr.                    *)
(***************************************************************************)
THEOREM RecastAliveWithShards ==
  CallAssumption /\ D!Spec => [](IsQuorum(Up) /\ ~ D!NoShard => D!RecastAlive)
<1>1. ASSUME DispersalInv, SharesInv, IsQuorum(Up), ~ D!NoShard
      PROVE  D!RecastAlive
  <2> SUFFICES ASSUME \A p \in Up : within[p] = "recast" /\ recast \subseteq shares[p]
               PROVE  FALSE
    BY DEF D!RecastAlive
  <2>1. Up \in SUBSET Party
    BY <1>1 DEF DispersalInv, CallAssumption
  <2>2. PICK p \in Up : TRUE
    BY <1>1, <2>1, QuorumNonEmpty
  <2>3. IsQuorum(recast)
    BY <1>1, ShardsSuffice
  <2>4. p \in Party /\ recast \in SUBSET Party /\ shares[p] \in SUBSET Party
    BY <1>1, <2>1 DEF DispersalInv, D!TypeOK
  <2>5. recast \subseteq shares[p] /\ ~ IsQuorum(shares[p])
    BY <2>4, <1>1 DEF SharesInv
  <2> QED
    BY <2>3, <2>4, <2>5, QuorumGrows
<1>2. DispersalInv /\ SharesInv =>
        (IsQuorum(Up) /\ ~ D!NoShard => D!RecastAlive)
  BY <1>1
<1> QED
  BY <1>2, DispersalInductive, RestInductive, PTL
=============================================================================
