--------------------------- MODULE ElectionProofs ---------------------------
(***************************************************************************)
(* Election, for any number of parties and whichever are up: no coin share *)
(* before 2F+1 Finish, and doneFlagChannel never loses or blocks a flag    *)
(* that is still needed.                                                   *)
(*                                                                         *)
(* The argument for the channel is a count: each handler raises its flag   *)
(* once, and every flag raised is in the channel, waiting, or read.        *)
(***************************************************************************)
EXTENDS Election, QuorumLemmas

(* What the handlers hold was broadcast.                                   *)
HeldInv ==
  \A p \in Party : Fr[p] \subseteq finish /\ coins[p] \subseteq Done

(* A flag, wherever it is, comes from 2F+1 Finish.                         *)
FlagInv ==
  \A p \in Party :
    doneFlag[p] \/ blocked[p] # "none" \/ election[p] = "sent" =>
      IsQuorum(finish)

One(b) == IF b THEN 1 ELSE 0

Raised(p) ==
  One(Cardinality(Fr[p]) > 2 * F) + One(Cardinality(coins[p]) > F)

Kept(p) ==
  One(doneFlag[p]) + One(blocked[p] # "none") + One(election[p] = "sent")

(* No flag is lost, and a handler waits only for a full channel.           *)
CountInv ==
  \A p \in Party :
    /\ Raised(p) = Kept(p)
    /\ blocked[p] # "none" => doneFlag[p]

IInv == TypeOK /\ HeldInv /\ FlagInv /\ CountInv

(* The actions of Next, whichever party is up.                             *)
LEMMA NextCases ==
  Next => \E p \in Party :
            \/ BroadcastFinish(p) \/ BroadcastDone(p) \/ ElectionStops(p)
            \/ \E j \in Party : HandleFinish(p, j) \/ HandleDone(p, j)
            \/ TakeLeader(p) \/ Decide(p) \/ TakeHalt(p) \/ OtherRoundReturns(p)
BY ElectionAssumption DEF Next, Handlers

-----------------------------------------------------------------------------
(***************************************************************************)
(* Type correctness.                                                       *)
(***************************************************************************)
LEMMA InitTypeOK == Init => TypeOK
<1> SUFFICES ASSUME Init PROVE TypeOK
  OBVIOUS
<1>1. \A p \in Party : ~ leader[p]
  BY DEF Init
<1> QED
  BY <1>1 DEF Init, TypeOK

(* Every action keeps the variables in their types.                        *)
LEMMA NextTypeOK == TypeOK /\ Next => TypeOK'
<1> SUFFICES ASSUME TypeOK, Next PROVE TypeOK'
  OBVIOUS
<1>1. ASSUME NEW p \in Party, BroadcastFinish(p) PROVE TypeOK'
  BY <1>1 DEF TypeOK, BroadcastFinish, IsQuorum
<1>2. ASSUME NEW p \in Party, NEW j \in Party, HandleFinish(p, j)
      PROVE  TypeOK'
  <2>1. Fr' \in [Party -> SUBSET Party]
    BY <1>2 DEF TypeOK, HandleFinish
  <2>2. doneFlag' \in [Party -> BOOLEAN]
        /\ blocked' \in [Party -> {"none", "Finish", "Done"}]
    BY <1>2 DEF TypeOK, HandleFinish, WriteDoneFlag
  <2> QED
    BY <1>2, <2>1, <2>2 DEF TypeOK, HandleFinish, IsQuorum
<1>3. ASSUME NEW p \in Party, NEW j \in Party, HandleDone(p, j)
      PROVE  TypeOK'
  <2>1. coins' \in [Party -> SUBSET Party]
    BY <1>3 DEF TypeOK, HandleDone
  <2>2. doneFlag' \in [Party -> BOOLEAN]
        /\ blocked' \in [Party -> {"none", "Finish", "Done"}]
    BY <1>3 DEF TypeOK, HandleDone, WriteDoneFlag
  <2>3. leader' \in [Party -> BOOLEAN]
    BY <1>3 DEF TypeOK, HandleDone, IsQuorum
  <2>4. ASSUME NEW q \in Party, leader'[q] PROVE IsQuorum(coins'[q])
    <3>1. CASE q = p
      BY <1>3, <2>4, <3>1 DEF TypeOK, HandleDone
    <3>2. CASE q # p
      <4>1. leader[q] /\ coins'[q] = coins[q]
        BY <1>3, <2>4, <3>2 DEF TypeOK, HandleDone
      <4> QED
        BY <4>1 DEF TypeOK
    <3> QED
      BY <3>1, <3>2
  <2>5. finish' = finish /\ Fr' = Fr /\ election' = election
        /\ halt' = halt /\ main' = main
    BY <1>3 DEF HandleDone
  <2> QED
    BY <2>1, <2>2, <2>3, <2>4, <2>5 DEF TypeOK
<1>4. ASSUME NEW p \in Party, BroadcastDone(p) PROVE TypeOK'
  BY <1>4 DEF TypeOK, BroadcastDone, IsQuorum
<1>5. ASSUME NEW p \in Party,
             \/ ElectionStops(p) \/ TakeLeader(p)
             \/ Decide(p) \/ TakeHalt(p) \/ OtherRoundReturns(p)
      PROVE  TypeOK'
  BY <1>5 DEF TypeOK, ElectionStops, TakeLeader, Decide, TakeHalt,
              OtherRoundReturns, Halted, IsQuorum
<1> QED
  BY <1>1, <1>2, <1>3, <1>4, <1>5, NextCases

-----------------------------------------------------------------------------
(***************************************************************************)
(* The two handlers add one message; WriteDoneFlag adds one flag.          *)
(***************************************************************************)
LEMMA OneMore ==
  ASSUME NEW S \in SUBSET Party, NEW j \in Party, j \notin S
  PROVE  /\ Cardinality(S \cup {j}) = Cardinality(S) + 1
         /\ Cardinality(S) \in Nat
BY PartyCount, FS_AddElement

(* WriteDoneFlag(p, h) raises one flag of p, or makes h wait if one is up. *)
LEMMA FlagAdded ==
  ASSUME TypeOK, NEW p \in Party, NEW h \in {"Finish", "Done"},
         blocked[p] # "none" => doneFlag[p],
         Kept(p) < 2, election' = election, WriteDoneFlag(p, h)
  PROVE  /\ Kept(p)' = Kept(p) + 1
         /\ blocked'[p] # "none" => doneFlag'[p]
<1>1. blocked[p] = "none"
  BY DEF Kept, One
<1>2. CASE doneFlag[p]
  BY <1>1, <1>2 DEF TypeOK, WriteDoneFlag, Kept, One
<1>3. CASE ~doneFlag[p]
  BY <1>1, <1>3 DEF TypeOK, WriteDoneFlag, Kept, One
<1> QED
  BY <1>2, <1>3

(* WriteDoneFlag(p, h) touches no other party.                             *)
LEMMA OthersKept ==
  ASSUME TypeOK, NEW p \in Party, NEW h, WriteDoneFlag(p, h),
         NEW q \in Party, q # p
  PROVE  doneFlag'[q] = doneFlag[q] /\ blocked'[q] = blocked[q]
BY DEF TypeOK, WriteDoneFlag

(* BroadcastDone(p) empties the channel, or leaves the waiting flag in it. *)
LEMMA ReadFlag ==
  ASSUME TypeOK, NEW p \in Party, BroadcastDone(p)
  PROVE  /\ election[p] = "waiting" /\ election'[p] = "sent"
         /\ doneFlag[p] /\ (doneFlag'[p] <=> blocked[p] # "none")
         /\ blocked'[p] = "none"
<1>1. election[p] = "waiting" /\ doneFlag[p]
  BY DEF BroadcastDone
<1>2. election'[p] = "sent" /\ blocked'[p] = "none"
  BY DEF TypeOK, BroadcastDone
<1>3. doneFlag'[p] = (blocked[p] # "none")
  BY DEF TypeOK, BroadcastDone
<1> QED
  BY <1>1, <1>2, <1>3

(* The counts at which a handler writes are reached once, by one handler.  *)
LEMMA NextCountInv ==
  ASSUME IInv, TypeOK', Next
  PROVE  CountInv'
<1> USE PartyAssumption, ElectionAssumption DEF IInv
<1>1. ASSUME NEW p \in Party, NEW j \in Party, HandleFinish(p, j),
             NEW q \in Party
      PROVE  Raised(q)' = Kept(q)' /\ (blocked'[q] # "none" => doneFlag'[q])
  <2>1. Raised(q) = Kept(q) /\ (blocked[q] # "none" => doneFlag[q])
    BY DEF CountInv
  <2>2. CASE q # p
    <3>1. /\ Fr'[q] = Fr[q] /\ coins'[q] = coins[q] /\ election'[q] = election[q]
          /\ doneFlag'[q] = doneFlag[q] /\ blocked'[q] = blocked[q]
      BY <1>1, <2>2, OthersKept DEF TypeOK, HandleFinish
    <3> QED
      BY <2>1, <3>1 DEF Raised, Kept, One
  <2>3. CASE q = p
    <3>1. /\ Fr'[q] = Fr[q] \cup {j} /\ j \notin Fr[q]
          /\ coins' = coins /\ election' = election
      BY <1>1, <2>3 DEF TypeOK, HandleFinish
    <3>2. /\ Cardinality(Fr'[q]) = Cardinality(Fr[q]) + 1
          /\ Cardinality(Fr[q]) \in Nat
      BY <3>1, OneMore DEF TypeOK
    <3>3. CASE Cardinality(Fr'[q]) = 2 * F + 1
      <4>1. Raised(q)' = Raised(q) + 1 /\ Raised(q) < 2
        BY <3>1, <3>2, <3>3 DEF Raised, One
      <4>2. WriteDoneFlag(q, "Finish")
        BY <1>1, <2>3, <3>3 DEF HandleFinish
      <4> QED
        BY <2>1, <3>1, <4>1, <4>2, FlagAdded
    <3>4. CASE Cardinality(Fr'[q]) # 2 * F + 1
      <4>1. Raised(q)' = Raised(q)
        BY <3>1, <3>2, <3>4 DEF Raised, One
      <4>2. UNCHANGED <<doneFlag, blocked, election>>
        BY <1>1, <2>3, <3>4 DEF HandleFinish
      <4> QED
        BY <2>1, <4>1, <4>2 DEF Kept
    <3> QED
      BY <3>3, <3>4
  <2> QED
    BY <2>2, <2>3
<1>2. ASSUME NEW p \in Party, NEW j \in Party, HandleDone(p, j),
             NEW q \in Party
      PROVE  Raised(q)' = Kept(q)' /\ (blocked'[q] # "none" => doneFlag'[q])
  <2>1. Raised(q) = Kept(q) /\ (blocked[q] # "none" => doneFlag[q])
    BY DEF CountInv
  <2>2. CASE q # p
    <3>1. /\ Fr'[q] = Fr[q] /\ coins'[q] = coins[q] /\ election'[q] = election[q]
          /\ doneFlag'[q] = doneFlag[q] /\ blocked'[q] = blocked[q]
      BY <1>2, <2>2, OthersKept DEF TypeOK, HandleDone
    <3> QED
      BY <2>1, <3>1 DEF Raised, Kept, One
  <2>3. CASE q = p
    <3>1. /\ coins'[q] = coins[q] \cup {j} /\ j \notin coins[q]
          /\ Fr' = Fr /\ election' = election
      BY <1>2, <2>3 DEF TypeOK, HandleDone
    <3>2. /\ Cardinality(coins'[q]) = Cardinality(coins[q]) + 1
          /\ Cardinality(coins[q]) \in Nat
      BY <3>1, OneMore DEF TypeOK
    <3>3. CASE Cardinality(coins'[q]) = F + 1
      <4>1. Raised(q)' = Raised(q) + 1 /\ Raised(q) < 2
        BY <3>1, <3>2, <3>3 DEF Raised, One
      <4>2. WriteDoneFlag(q, "Done")
        BY <1>2, <2>3, <3>3 DEF HandleDone
      <4> QED
        BY <2>1, <3>1, <4>1, <4>2, FlagAdded
    <3>4. CASE Cardinality(coins'[q]) # F + 1
      <4>1. Raised(q)' = Raised(q)
        BY <3>1, <3>2, <3>4 DEF Raised, One
      <4>2. UNCHANGED <<doneFlag, blocked, election>>
        BY <1>2, <2>3, <3>4 DEF HandleDone
      <4> QED
        BY <2>1, <4>1, <4>2 DEF Kept
    <3> QED
      BY <3>3, <3>4
  <2> QED
    BY <2>2, <2>3
<1>3. ASSUME NEW p \in Party, BroadcastDone(p), NEW q \in Party
      PROVE  Raised(q)' = Kept(q)' /\ (blocked'[q] # "none" => doneFlag'[q])
  <2>1. Raised(q) = Kept(q) /\ (blocked[q] # "none" => doneFlag[q])
    BY DEF CountInv
  <2>2. Raised(q)' = Raised(q)
    BY <1>3 DEF BroadcastDone, Raised
  <2>3. CASE q # p
    <3>1. /\ election'[q] = election[q] /\ doneFlag'[q] = doneFlag[q]
          /\ blocked'[q] = blocked[q]
      BY <1>3, <2>3 DEF TypeOK, BroadcastDone
    <3> QED
      BY <2>1, <2>2, <3>1 DEF Kept, One
  <2>4. CASE q = p
    <3>1. /\ election[q] = "waiting" /\ election'[q] = "sent"
          /\ doneFlag[q] /\ (doneFlag'[q] <=> blocked[q] # "none")
          /\ blocked'[q] = "none"
      BY <1>3, <2>4, ReadFlag
    <3>2. Kept(q)' = Kept(q)
      BY <3>1 DEF Kept, One
    <3> QED
      BY <2>1, <2>2, <3>1, <3>2
  <2> QED
    BY <2>3, <2>4
<1>4. ASSUME UNCHANGED <<Fr, coins, doneFlag, blocked>>,
             \A p \in Party : election'[p] = "sent" <=> election[p] = "sent"
      PROVE  CountInv'
  BY <1>4 DEF CountInv, Raised, Kept, One
<1>5. ASSUME NEW p \in Party, ElectionStops(p)
      PROVE  \A q \in Party : election'[q] = "sent" <=> election[q] = "sent"
  BY <1>5 DEF ElectionStops, TypeOK
<1> QED
  BY <1>1, <1>2, <1>3, <1>4, <1>5, NextCases
     DEF CountInv, BroadcastFinish, ElectionStops, TakeLeader, Decide,
         TakeHalt, OtherRoundReturns

-----------------------------------------------------------------------------
(* Only stored messages of broadcasters are counted, and the locals last.  *)
LEMMA NextHeldInv ==
  ASSUME IInv, TypeOK', Next
  PROVE  HeldInv'
<1> USE DEF IInv, HeldInv, TypeOK, Done
<1>1. ASSUME NEW p \in Party, BroadcastFinish(p) PROVE HeldInv'
  BY <1>1 DEF BroadcastFinish
<1>2. ASSUME NEW p \in Party, NEW j \in Party, HandleFinish(p, j)
      PROVE  HeldInv'
  BY <1>2 DEF HandleFinish
<1>3. ASSUME NEW p \in Party, NEW j \in Party, HandleDone(p, j)
      PROVE  HeldInv'
  BY <1>3 DEF HandleDone
<1>4. ASSUME NEW p \in Party, BroadcastDone(p) \/ ElectionStops(p)
      PROVE  HeldInv'
  BY <1>4 DEF BroadcastDone, ElectionStops
<1>5. ASSUME UNCHANGED <<finish, Fr, coins, election>> PROVE HeldInv'
  BY <1>5
<1> QED
  BY <1>1, <1>2, <1>3, <1>4, <1>5, NextCases
     DEF TakeLeader, Decide, TakeHalt, OtherRoundReturns

(* A flag goes back to 2F+1 Finish messages handled somewhere.             *)
LEMMA NextFlagInv ==
  ASSUME IInv, TypeOK', HeldInv', Next
  PROVE  FlagInv'
<1> USE DEF IInv
<1>1. finish \subseteq finish' /\ (IsQuorum(finish) => IsQuorum(finish'))
  <2>1. finish \subseteq finish'
    BY NextCases
       DEF BroadcastFinish, BroadcastDone, ElectionStops, HandleFinish,
           HandleDone, TakeLeader, Decide, TakeHalt, OtherRoundReturns
  <2> QED
    BY <2>1, QuorumGrows DEF TypeOK
<1>2. ASSUME NEW p \in Party, NEW j \in Party, HandleFinish(p, j),
             Cardinality(Fr'[p]) = 2 * F + 1
      PROVE  IsQuorum(finish')
  <2>1. IsQuorum(Fr'[p])
    BY <1>2, PartyAssumption DEF IsQuorum
  <2>2. Fr'[p] \in SUBSET Party /\ finish' \in SUBSET Party
        /\ Fr'[p] \subseteq finish'
    BY DEF TypeOK, HeldInv
  <2> QED
    BY <2>1, <2>2, QuorumGrows
<1>3. ASSUME NEW p \in Party, NEW j \in Party, HandleDone(p, j)
      PROVE  IsQuorum(finish)
  BY <1>3 DEF HandleDone, Done, FlagInv
<1>4. ASSUME NEW p \in Party, BroadcastDone(p) PROVE IsQuorum(finish)
  BY <1>4 DEF BroadcastDone, FlagInv
<1>5. CASE IsQuorum(finish')
  BY <1>5 DEF FlagInv, IsQuorum
<1>6. ASSUME UNCHANGED <<doneFlag, blocked>>,
             \A p \in Party : election'[p] = "sent" => election[p] = "sent"
      PROVE  FlagInv'
  BY <1>1, <1>6 DEF FlagInv, IsQuorum
<1>7. ASSUME NEW p \in Party, ElectionStops(p)
      PROVE  \A q \in Party : election'[q] = "sent" => election[q] = "sent"
  BY <1>7 DEF ElectionStops, TypeOK
<1> QED
  BY <1>1, <1>2, <1>3, <1>4, <1>5, <1>6, <1>7, NextCases
     DEF BroadcastFinish, ElectionStops, HandleFinish, TakeLeader,
         Decide, TakeHalt, OtherRoundReturns

-----------------------------------------------------------------------------
(* The invariant holds before any message is handled.                      *)
LEMMA InitIInv == Init => IInv
<1> SUFFICES ASSUME Init PROVE IInv
  OBVIOUS
<1>1. HeldInv /\ FlagInv
  BY DEF Init, HeldInv, FlagInv
<1>2. CountInv
  BY FS_EmptySet, PartyAssumption DEF Init, CountInv, Raised, Kept, One
<1> QED
  BY <1>1, <1>2, InitTypeOK DEF IInv

(* Every step keeps the invariant.                                         *)
LEMMA NextIInv == IInv /\ [Next]_vars => IInv'
<1>1. ASSUME IInv, Next PROVE IInv'
  <2>1. TypeOK'
    BY <1>1, NextTypeOK DEF IInv
  <2>2. HeldInv'
    BY <1>1, <2>1, NextHeldInv
  <2> QED
    BY <1>1, <2>1, <2>2, NextFlagInv, NextCountInv DEF IInv
<1>2. ASSUME IInv, UNCHANGED vars PROVE IInv'
  BY <1>2 DEF vars, IInv, TypeOK, HeldInv, Done, FlagInv, IsQuorum, CountInv,
              Raised, Kept, One
<1> QED
  BY <1>1, <1>2

(* The invariant holds of every behaviour.                                 *)
THEOREM Inductive == Spec => []IInv
BY InitIInv, NextIInv, PTL DEF Spec

(***************************************************************************)
(* TypeOK holds of every behaviour.                                        *)
(***************************************************************************)
THEOREM TypeCorrect == Spec => []TypeOK
<1>1. IInv => TypeOK
  BY DEF IInv
<1> QED
  BY <1>1, Inductive, PTL

(***************************************************************************)
(* No share of the coin exists before 2F+1 parties broadcast Finish.       *)
(***************************************************************************)
THEOREM CoinAfterFinishQuorumAlways == Spec => []CoinAfterFinishQuorum
<1>1. IInv => CoinAfterFinishQuorum
  BY DEF IInv, CoinAfterFinishQuorum, Done, FlagInv
<1> QED
  BY <1>1, Inductive, PTL

(***************************************************************************)
(* Once the one reader of doneFlagChannel is gone, no handler waits for it. *)
(***************************************************************************)
THEOREM FlagChannelSufficesAlways == Spec => []FlagChannelSuffices
<1>1. IInv => FlagChannelSuffices
  <2> SUFFICES ASSUME IInv, NEW p \in Party, election[p] = "sent",
                      blocked[p] # "none"
               PROVE  FALSE
    BY DEF FlagChannelSuffices
  <2>1. Kept(p) = 3
    BY DEF IInv, CountInv, Kept, One
  <2>2. Raised(p) <= 2
    BY DEF Raised, One
  <2> QED
    BY <2>1, <2>2 DEF IInv, CountInv
<1> QED
  BY <1>1, Inductive, PTL
-----------------------------------------------------------------------------
(***************************************************************************)
(* Where the election can come to rest.  Liveness itself is TLC's; what it *)
(* rests on is a fact about states, proved here for any number of parties. *)
(***************************************************************************)

(* No fair action of p has anything to do.                                 *)
Idle(p) ==
  /\ (\A q \in Up : main[q] = "select") => p \in finish
  /\ ~ Cancelled(p) =>
       /\ blocked[p] = "Finish" \/ finish \subseteq Fr[p]
       /\ blocked[p] = "Done" \/ leader[p] \/ Done \subseteq coins[p]
       /\ election[p] = "waiting" => ~ doneFlag[p]
  /\ main[p] = "select" => ~ leader[p]
  /\ halt /\ leader[p] => Cancelled(p)

(* The Done handler knows the leader from 2F+1 shares; MainProcess has it  *)
(* from the handler; only a cancelled election stops; only a party that is *)
(* up does anything.                                                       *)
PlaceInv ==
  \A p \in Party :
    /\ leader[p] <=> IsQuorum(coins[p])
    /\ main[p] = "leader" => leader[p]
    /\ election[p] = "stopped" => Cancelled(p)
    /\ leader[p] => p \in Up

(* Each action keeps the places of its party, and touches no other.        *)
LEMMA NextPlaceInv == TypeOK /\ PlaceInv /\ [Next]_vars => PlaceInv'
<1> SUFFICES ASSUME TypeOK, PlaceInv, Next, NEW q \in Party
             PROVE  /\ leader'[q] <=> IsQuorum(coins'[q])
                    /\ main'[q] = "leader" => leader'[q]
                    /\ election'[q] = "stopped" => Cancelled(q)'
                    /\ leader'[q] => q \in Up
  BY DEF vars, PlaceInv, Cancelled, IsQuorum
<1> USE DEF TypeOK, PlaceInv, Cancelled
<1>1. CASE UNCHANGED <<main, leader, election, coins>>
  BY <1>1
<1>2. ASSUME NEW p \in Up, NEW j \in Party, HandleDone(p, j)
      PROVE  /\ leader'[q] <=> IsQuorum(coins'[q])
             /\ leader[q] => leader'[q]
             /\ leader'[q] => q \in Up
             /\ UNCHANGED <<main, election>>
  BY <1>2, ElectionAssumption DEF HandleDone
<1>3. ASSUME NEW p \in Up, BroadcastDone(p) \/ ElectionStops(p)
      PROVE  /\ election'[q] = "stopped" => Cancelled(q)
             /\ UNCHANGED <<main, leader, coins>>
  BY <1>3, ElectionAssumption DEF BroadcastDone, ElectionStops
<1>4. ASSUME NEW p \in Up,
             TakeLeader(p) \/ Decide(p) \/ TakeHalt(p) \/ OtherRoundReturns(p)
      PROVE  /\ main'[q] = "leader" => leader[q]
             /\ Cancelled(q) => Cancelled(q)'
             /\ UNCHANGED <<election, leader, coins>>
  BY <1>4, ElectionAssumption
     DEF TakeLeader, Decide, TakeHalt, OtherRoundReturns, Halted
<1>5. PICK p \in Up :
        \/ BroadcastFinish(p)
        \/ \E j \in Party : HandleFinish(p, j) \/ HandleDone(p, j)
        \/ BroadcastDone(p) \/ ElectionStops(p)
        \/ TakeLeader(p) \/ Decide(p) \/ TakeHalt(p) \/ OtherRoundReturns(p)
  BY DEF Next, Handlers
<1>6. ASSUME \/ BroadcastFinish(p)
             \/ \E j \in Party : HandleFinish(p, j)
      PROVE  UNCHANGED <<main, leader, election, coins>>
  BY <1>6 DEF BroadcastFinish, HandleFinish
<1> QED
  BY <1>1, <1>2, <1>3, <1>4, <1>5, <1>6

(* PlaceInv holds of every behaviour.                                      *)
LEMMA PlaceInvAlways == Spec => []PlaceInv
<1>1. Init => PlaceInv
  BY FS_EmptySet, PartyAssumption DEF Init, PlaceInv, IsQuorum
<1>2. Spec => []TypeOK
  BY TypeCorrect
<1> QED
  BY <1>1, <1>2, NextPlaceInv, PTL DEF Spec

(* A Halt is broadcast by a party that has the leader.                     *)
HaltInv == halt => KnownSomewhere

(* A leader once known stays known, and only Decide broadcasts Halt.       *)
LEMMA NextHaltInv == TypeOK /\ PlaceInv /\ HaltInv /\ [Next]_vars => HaltInv'
<1> SUFFICES ASSUME TypeOK, PlaceInv, HaltInv, Next PROVE HaltInv'
  BY DEF vars, HaltInv, KnownSomewhere
<1>1. ASSUME NEW q \in Party, leader[q] PROVE leader'[q]
  BY <1>1, NextCases
     DEF TypeOK, BroadcastFinish, BroadcastDone, ElectionStops, HandleFinish,
         HandleDone, TakeLeader, Decide, TakeHalt, OtherRoundReturns
<1>2. KnownSomewhere => KnownSomewhere'
  BY <1>1 DEF KnownSomewhere
<1>3. ASSUME NEW p \in Party, Decide(p) PROVE KnownSomewhere
  BY <1>3 DEF Decide, PlaceInv, KnownSomewhere
<1>4. halt' = halt \/ \E p \in Party : Decide(p)
  BY NextCases
     DEF BroadcastFinish, BroadcastDone, ElectionStops, HandleFinish,
         HandleDone, TakeLeader, TakeHalt, OtherRoundReturns
<1> QED
  BY <1>2, <1>3, <1>4 DEF HaltInv

(* HaltInv holds of every behaviour.                                       *)
LEMMA HaltInvAlways == Spec => []HaltInv
<1>1. Init => HaltInv
  BY DEF Init, HaltInv
<1>2. Spec => [](TypeOK /\ PlaceInv)
  BY TypeCorrect, PlaceInvAlways, PTL
<1> QED
  BY <1>1, <1>2, NextHaltInv, PTL DEF Spec

(* An idle party that runs waits for nothing and has sent its share if its *)
(* handlers have a flag to raise.                                          *)
LEMMA IdleRunning ==
  ASSUME IInv, PlaceInv, NEW p \in Up, Idle(p), ~ Cancelled(p)
  PROVE  /\ finish \subseteq Fr[p]
         /\ leader[p] \/ Done \subseteq coins[p]
         /\ IsQuorum(Fr[p]) => p \in Done
<1>1. p \in Party
  BY ElectionAssumption
<1>2. election[p] \in {"waiting", "sent"}
  BY <1>1 DEF IInv, TypeOK, PlaceInv
<1>3. Raised(p) = Kept(p) /\ (blocked[p] # "none" => doneFlag[p])
  BY <1>1 DEF IInv, CountInv
<1>4. Raised(p) <= 2
  BY DEF Raised, One
<1>5. blocked[p] = "none"
  BY <1>2, <1>3, <1>4 DEF Idle, Kept, One
<1>6. IsQuorum(Fr[p]) => p \in Done
  <2> SUFFICES ASSUME IsQuorum(Fr[p]), election[p] = "waiting" PROVE FALSE
    BY <1>1, <1>2 DEF Done
  <2>1. Raised(p) >= 1
    BY DEF Raised, One, IsQuorum
  <2>2. ~ doneFlag[p]
    BY DEF Idle
  <2> QED
    BY <1>3, <1>5, <2>1, <2>2 DEF Kept, One
<1> QED
  BY <1>5, <1>6 DEF Idle

(* A party that has taken 2F+1 shares knows the leader.                    *)
LEMMA SharesElect ==
  ASSUME IInv, PlaceInv, NEW p \in Up, IsQuorum(Done), Done \subseteq coins[p]
  PROVE  leader[p]
<1>1. p \in Party /\ coins[p] \in SUBSET Party /\ Done \in SUBSET Party
  BY ElectionAssumption DEF IInv, TypeOK, Done
<1>2. IsQuorum(coins[p])
  BY <1>1, QuorumGrows
<1> QED
  BY <1>1, <1>2 DEF PlaceInv

(* Idle parties all know a leader that any of them knows.                  *)
LEMMA IdleKnown ==
  ASSUME IInv, PlaceInv, \A p \in Up : Idle(p), KnownSomewhere
  PROVE  KnownEverywhere
<1>1. PICK p \in Party : leader[p]
  BY DEF KnownSomewhere
<1>2. IsQuorum(coins[p]) /\ coins[p] \subseteq Done
  BY <1>1 DEF PlaceInv, IInv, HeldInv
<1>3. coins[p] \in SUBSET Party /\ Done \in SUBSET Party
  BY DEF IInv, TypeOK, Done
<1>4. IsQuorum(Done)
  BY <1>2, <1>3, QuorumGrows
<1> SUFFICES ASSUME NEW q \in Up, ~ Cancelled(q) PROVE leader[q]
  BY DEF KnownEverywhere
<1> QED
  BY <1>4, IdleRunning, SharesElect

(* With 2F+1 parties up, idle ones know the leader unless one was ended    *)
(* before.                                                                 *)
LEMMA IdleElected ==
  ASSUME IInv, PlaceInv, IsQuorum(Up), \A p \in Up : Idle(p), ~ EndedBefore
  PROVE  \A p \in Up : leader[p]
<1>1. CASE KnownSomewhere
  BY <1>1, IdleKnown DEF KnownEverywhere, EndedBefore
<1>2. CASE ~ KnownSomewhere
  <2>1. \A p \in Up : ~ leader[p] /\ ~ Cancelled(p) /\ main[p] = "select"
    BY <1>2, ElectionAssumption
       DEF KnownSomewhere, EndedBefore, PlaceInv, IInv, TypeOK, Cancelled
  <2>2. Up \subseteq finish
    BY <2>1 DEF Idle
  <2>3. Up \in SUBSET Party /\ finish \in SUBSET Party /\ Done \in SUBSET Party
        /\ \A p \in Up : p \in Party /\ Fr[p] \in SUBSET Party
    BY ElectionAssumption DEF IInv, TypeOK, Done
  <2>4. IsQuorum(finish)
    BY <2>2, <2>3, QuorumGrows
  <2>5. \A p \in Up : IsQuorum(Fr[p])
    BY <2>1, <2>3, <2>4, IdleRunning, QuorumGrows
  <2>6. Up \subseteq Done
    BY <2>1, <2>5, IdleRunning
  <2>7. IsQuorum(Done)
    BY <2>3, <2>6, QuorumGrows
  <2> QED
    BY <2>1, <2>7, IdleRunning, SharesElect
<1> QED
  BY <1>1, <1>2

(* Once a Halt has been broadcast, idle parties have all returned.         *)
LEMMA IdleHalted ==
  ASSUME IInv, PlaceInv, HaltInv, \A p \in Up : Idle(p), halt
  PROVE  \A p \in Up : Cancelled(p)
<1>1. KnownEverywhere
  BY IdleKnown DEF HaltInv
<1> QED
  BY <1>1 DEF KnownEverywhere, Idle

(***************************************************************************)
(* The election comes to rest only where its liveness properties say: a    *)
(* leader known to one party is known to all that run, a broadcast Halt    *)
(* has ended them all, and with 2F+1 parties up the leader is known unless *)
(* another round has ended a party.                                        *)
(***************************************************************************)
THEOREM RestsElected ==
  Spec =>
    []((\A p \in Up : Idle(p)) =>
         /\ KnownSomewhere => KnownEverywhere
         /\ halt => \A p \in Up : Cancelled(p)
         /\ IsQuorum(Up) => EndedBefore \/ \A p \in Up : leader[p])
<1>1. IInv /\ PlaceInv /\ HaltInv =>
        ((\A p \in Up : Idle(p)) =>
           /\ KnownSomewhere => KnownEverywhere
           /\ halt => \A p \in Up : Cancelled(p)
           /\ IsQuorum(Up) => EndedBefore \/ \A p \in Up : leader[p])
  BY IdleKnown, IdleHalted, IdleElected
<1> QED
  BY <1>1, Inductive, PlaceInvAlways, HaltInvAlways, PTL
=============================================================================
