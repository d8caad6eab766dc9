----------------------------- MODULE SPBProofs -----------------------------
(***************************************************************************)
(* The strong provable broadcast of a leader gives its round what module   *)
(* LeaderLock says, for any number of parties and whichever are up.        *)
(*                                                                         *)
(* The argument: an Echo of PB 2 is in some channel, or taken, exactly if  *)
(* its receiver is about to store the Lock or has stored it; the receiver  *)
(* has returned when the PreVote reads Lr, so the PreVote tells the Echo.  *)
(***************************************************************************)
EXTENDS SPB, QuorumLemmas

(* Lr against the Echoes of PB 2.                                          *)
LockedInv ==
  \A p \in Party :
    /\ p \in Locked <=> receiver[p] = "echoed" \/ p \in Lr
    /\ p \in Lr => receiver[p] = "returned"

(* A PreVote against Lr, which is final by then.                           *)
PreVoteInv ==
  \A p \in Party :
    /\ preVote[p] # "none" => main[p] = "preVoted" /\ receiver[p] = "returned"
    /\ preVote[p] = "yes" => p \in Lr
    /\ preVote[p] = "no" => p \notin Lr

(* The thresholds behind a Value of PB 2 and behind Finish.                *)
SigsInv ==
  /\ value[2] # {} => IsQuorum(sigs[1])
  /\ sender = "finish" => IsQuorum(sigs[2])

IInv == TypeOK /\ LockedInv /\ PreVoteInv /\ SigsInv /\ NoFatal

USE DEF Phase

(* The actions of Next, whichever party is up.                             *)
LEMMA NextCases ==
  Next => \/ SendValue1 \/ SenderCancelled
          \/ \E p \in Party :
               \/ CollectEcho1(p) \/ CollectEcho2(p)
               \/ ReceiveValue1(p) \/ CancelReceive1(p)
               \/ ReceiveValue2(p) \/ CancelReceive2(p) \/ StoreLock(p)
               \/ LeaderElected(p) \/ HaltedBeforeLeader(p)
               \/ ShortCut(p) \/ PreVote(p)
BY SPBAssumption DEF Next, SenderStep, ReceiverStep, MainStep

-----------------------------------------------------------------------------
(***************************************************************************)
(* Type correctness.                                                       *)
(***************************************************************************)
LEMMA InitTypeOK == Init => TypeOK
BY DEF Init, TypeOK

(* Every action keeps the variables in their types.                        *)
LEMMA NextTypeOK == TypeOK /\ Next => TypeOK'
<1> SUFFICES ASSUME TypeOK, Next PROVE TypeOK'
  OBVIOUS
<1>1. ASSUME SendValue1 \/ SenderCancelled PROVE TypeOK'
  BY <1>1 DEF TypeOK, SendValue1, SenderCancelled
<1>2. ASSUME NEW p \in Party, CollectEcho1(p) PROVE TypeOK'
  BY <1>2 DEF TypeOK, CollectEcho1
<1>3. ASSUME NEW p \in Party, CollectEcho2(p) PROVE TypeOK'
  BY <1>3 DEF TypeOK, CollectEcho2
<1>4. ASSUME NEW p \in Party, ReceiveValue1(p) PROVE TypeOK'
  BY <1>4 DEF TypeOK, ReceiveValue1
<1>5. ASSUME NEW p \in Party, ReceiveValue2(p) PROVE TypeOK'
  BY <1>5 DEF TypeOK, ReceiveValue2
<1>6. ASSUME NEW p \in Party,
             CancelReceive1(p) \/ CancelReceive2(p) \/ StoreLock(p)
      PROVE  TypeOK'
  BY <1>6 DEF TypeOK, CancelReceive1, CancelReceive2, StoreLock
<1>7. ASSUME NEW p \in Party,
             \/ LeaderElected(p) \/ HaltedBeforeLeader(p)
             \/ ShortCut(p) \/ PreVote(p)
      PROVE  TypeOK'
  BY <1>7 DEF TypeOK, LeaderElected, HaltedBeforeLeader, ShortCut, PreVote
<1> QED
  BY <1>1, <1>2, <1>3, <1>4, <1>5, <1>6, <1>7, NextCases

(***************************************************************************)
(* TypeOK holds of every behaviour.                                        *)
(***************************************************************************)
THEOREM TypeCorrect == Spec => []TypeOK
<1>1. TypeOK /\ UNCHANGED vars => TypeOK'
  BY DEF TypeOK, vars
<1> QED
  BY <1>1, InitTypeOK, NextTypeOK, PTL DEF Spec

-----------------------------------------------------------------------------
(***************************************************************************)
(* The parts of IInv, step by step.                                        *)
(***************************************************************************)
LEMMA NextLockedInv ==
  ASSUME IInv, TypeOK', Next
  PROVE  LockedInv'
<1> USE DEF IInv, LockedInv, Locked, TypeOK
<1>1. ASSUME NEW p \in Party, CollectEcho2(p) PROVE LockedInv'
  <2>1. Locked' = Locked
    BY <1>1 DEF CollectEcho2
  <2> QED
    BY <1>1, <2>1 DEF CollectEcho2
<1>2. ASSUME NEW p \in Party, CollectEcho1(p) PROVE LockedInv'
  BY <1>2 DEF CollectEcho1
<1>3. ASSUME NEW p \in Party, ReceiveValue1(p) PROVE LockedInv'
  BY <1>3 DEF ReceiveValue1
<1>4. ASSUME NEW p \in Party, ReceiveValue2(p) PROVE LockedInv'
  <2>1. echo'[2] = IF Validator THEN echo[2] \cup {p} ELSE echo[2]
    BY <1>4 DEF ReceiveValue2
  <2>2. Validator
    BY <1>4 DEF ReceiveValue2, SigsInv, Validator
  <2> QED
    BY <1>4, <2>1, <2>2 DEF ReceiveValue2
<1>5. ASSUME NEW p \in Party,
             CancelReceive1(p) \/ CancelReceive2(p) \/ StoreLock(p)
      PROVE  LockedInv'
  BY <1>5 DEF CancelReceive1, CancelReceive2, StoreLock
<1>6. ASSUME UNCHANGED <<receiver, echo, sigs, Lr>> PROVE LockedInv'
  BY <1>6
<1> QED
  BY <1>1, <1>2, <1>3, <1>4, <1>5, <1>6, NextCases
     DEF SendValue1, SenderCancelled, LeaderElected, HaltedBeforeLeader,
         ShortCut, PreVote

(* A PreVote agrees with the locks for ever after.                         *)
LEMMA NextPreVoteInv ==
  ASSUME IInv, TypeOK', Next
  PROVE  PreVoteInv'
<1> USE DEF IInv, PreVoteInv, TypeOK
<1>1. ASSUME NEW p \in Party, PreVote(p) PROVE PreVoteInv'
  BY <1>1 DEF PreVote, WaitOver
<1>2. ASSUME NEW p \in Party,
             LeaderElected(p) \/ HaltedBeforeLeader(p) \/ ShortCut(p)
      PROVE  PreVoteInv'
  BY <1>2 DEF LeaderElected, HaltedBeforeLeader, ShortCut
<1>3. ASSUME NEW p \in Party,
             \/ ReceiveValue1(p) \/ ReceiveValue2(p) \/ CancelReceive1(p)
             \/ CancelReceive2(p) \/ StoreLock(p)
      PROVE  PreVoteInv'
  <2>1. receiver[p] # "returned" /\ UNCHANGED <<main, preVote>>
    BY <1>3 DEF ReceiveValue1, ReceiveValue2, CancelReceive1, CancelReceive2,
                StoreLock
  <2>2. \A q \in Party : q # p => receiver'[q] = receiver[q]
                                  /\ (q \in Lr' <=> q \in Lr)
    BY <1>3 DEF ReceiveValue1, ReceiveValue2, CancelReceive1, CancelReceive2,
                StoreLock
  <2> QED
    BY <2>1, <2>2
<1>4. ASSUME UNCHANGED <<receiver, Lr, main, preVote>> PROVE PreVoteInv'
  BY <1>4
<1> QED
  BY <1>1, <1>2, <1>3, <1>4, NextCases
     DEF SendValue1, SenderCancelled, CollectEcho1, CollectEcho2

(* PB 2 begins and Finish is sent with 2F+1 shares only.                   *)
LEMMA NextSigsInv ==
  ASSUME IInv, TypeOK', Next
  PROVE  SigsInv'
<1> USE DEF IInv, SigsInv, TypeOK
<1>1. ASSUME NEW S \in SUBSET Party, NEW p \in Party, IsQuorum(S)
      PROVE  IsQuorum(S \cup {p})
  BY <1>1, QuorumGrows
<1>2. ASSUME NEW p \in Party, CollectEcho1(p) PROVE SigsInv'
  <2>1. /\ sigs'[1] = sigs[1] \cup {p}
        /\ sigs'[2] = sigs[2]
        /\ sender' # "finish"
    BY <1>2 DEF CollectEcho1
  <2>2. value'[2] # {} => value[2] # {} \/ IsQuorum(sigs'[1])
    BY <1>2 DEF CollectEcho1
  <2> QED
    BY <1>1, <2>1, <2>2 DEF IsQuorum
<1>3. ASSUME NEW p \in Party, CollectEcho2(p) PROVE SigsInv'
  <2>1. sigs'[1] = sigs[1] /\ value' = value
    BY <1>3 DEF CollectEcho2
  <2>2. sender' = "finish" => IsQuorum(sigs'[2])
    BY <1>3 DEF CollectEcho2
  <2> QED
    BY <2>1, <2>2 DEF IsQuorum
<1>4. ASSUME value'[2] \subseteq value[2], sigs' = sigs,
             sender' = "finish" => sender = "finish"
      PROVE  SigsInv'
  BY <1>4 DEF IsQuorum
<1> QED
  BY <1>2, <1>3, <1>4, NextCases
     DEF SendValue1, SenderCancelled, ReceiveValue1, CancelReceive1,
         ReceiveValue2, CancelReceive2, StoreLock, LeaderElected,
         HaltedBeforeLeader, ShortCut, PreVote

(* The Value of PB 2 never fails the validator.                            *)
LEMMA NextNoFatal ==
  ASSUME IInv, TypeOK', Next
  PROVE  NoFatal'
<1> USE DEF IInv, NoFatal, TypeOK
<1>1. ASSUME NEW p \in Party, ReceiveValue2(p) PROVE NoFatal'
  BY <1>1 DEF ReceiveValue2, Validator, SigsInv
<1>2. ASSUME NEW p \in Party,
             \/ ReceiveValue1(p) \/ CancelReceive1(p) \/ CancelReceive2(p)
             \/ StoreLock(p)
      PROVE  NoFatal'
  BY <1>2 DEF ReceiveValue1, CancelReceive1, CancelReceive2, StoreLock
<1>3. ASSUME UNCHANGED receiver PROVE NoFatal'
  BY <1>3
<1> QED
  BY <1>1, <1>2, <1>3, NextCases
     DEF SendValue1, SenderCancelled, CollectEcho1, CollectEcho2,
         LeaderElected, HaltedBeforeLeader, ShortCut, PreVote

(* The invariant holds before the first message.                           *)
LEMMA InitIInv == Init => IInv
BY InitTypeOK DEF Init, IInv, LockedInv, Locked, PreVoteInv, SigsInv, NoFatal

(* Every step keeps the invariant.                                         *)
LEMMA NextIInv == IInv /\ [Next]_vars => IInv'
<1>1. ASSUME IInv, Next PROVE IInv'
  <2>1. TypeOK'
    BY <1>1, NextTypeOK DEF IInv
  <2> QED
    BY <1>1, <2>1, NextLockedInv, NextPreVoteInv, NextSigsInv, NextNoFatal
       DEF IInv
<1>2. ASSUME IInv, UNCHANGED vars PROVE IInv'
  BY <1>2 DEF vars, IInv, TypeOK, LockedInv, Locked, PreVoteInv, SigsInv,
              NoFatal, IsQuorum
<1> QED
  BY <1>1, <1>2

(* The invariant holds of every behaviour.                                 *)
THEOREM Inductive == Spec => []IInv
BY InitIInv, NextIInv, PTL DEF Spec

-----------------------------------------------------------------------------
(* The invariant gives PreVoteMatchesEcho.                                 *)
LEMMA IInvPreVoteMatchesEcho == IInv => PreVoteMatchesEcho
BY DEF IInv, TypeOK, PreVoteMatchesEcho, LockedInv, PreVoteInv

(* 2F+1 echoes of PB 2 and 2F+1 no PreVotes would share a party.           *)
LEMMA IInvFinishExcludesNoQuorum == IInv => FinishExcludesNoQuorum
<1> SUFFICES ASSUME IInv, sender = "finish", IsQuorum(NoVotes) PROVE FALSE
  BY DEF FinishExcludesNoQuorum
<1>1. sigs[2] \cap NoVotes # {}
  BY QuorumsIntersect DEF IInv, SigsInv, TypeOK, NoVotes
<1>2. PICK p \in Party : p \in sigs[2] /\ preVote[p] = "no"
  BY <1>1 DEF NoVotes
<1> QED
  BY <1>2, IInvPreVoteMatchesEcho DEF PreVoteMatchesEcho, Locked

(***************************************************************************)
(* A PreVote says yes exactly if its party sent the Echo of PB 2.          *)
(***************************************************************************)
THEOREM PreVoteMatchesEchoAlways == Spec => []PreVoteMatchesEcho
BY Inductive, IInvPreVoteMatchesEcho, PTL

(***************************************************************************)
(* A Finish and 2F+1 no PreVotes never exist together.                     *)
(***************************************************************************)
THEOREM FinishExcludesNoQuorumAlways == Spec => []FinishExcludesNoQuorum
BY Inductive, IInvFinishExcludesNoQuorum, PTL

(***************************************************************************)
(* No receiver of an honest sender is killed by its validator.             *)
(***************************************************************************)
THEOREM NoFatalAlways == Spec => []NoFatal
<1>1. IInv => NoFatal
  BY DEF IInv
<1> QED
  BY <1>1, Inductive, PTL

-----------------------------------------------------------------------------
(***************************************************************************)
(* SPB implements LeaderLock.                                              *)
(***************************************************************************)
LEMMA InitLeaderLock == Init => LL!Init
BY DEF Init, LL!Init, Locked

(* Every step is a step of LeaderLock, or leaves its state alone.          *)
LEMMA NextLeaderLock == IInv /\ Next => [LL!Next]_LL!vars
<1> SUFFICES ASSUME IInv, Next PROVE LL!Next \/ UNCHANGED LL!vars
  OBVIOUS
<1> USE DEF IInv, TypeOK, LL!vars, LL!Next
<1>1. ASSUME NEW p \in Party, ReceiveValue2(p) PROVE LL!Next
  <2>1. Validator
    BY <1>1 DEF ReceiveValue2, SigsInv, Validator
  <2>2. Locked' = Locked \cup {p}
    BY <1>1, <2>1 DEF ReceiveValue2, Locked
  <2>3. preVote[p] = "none"
    BY <1>1 DEF ReceiveValue2, PreVoteInv
  <2> QED
    BY <1>1, <2>2, <2>3 DEF ReceiveValue2, LL!LockLeader
<1>2. ASSUME NEW p \in Party, CollectEcho2(p)
      PROVE  LL!Next \/ UNCHANGED LL!vars
  <2>1. Locked' = Locked /\ preVote' = preVote /\ sigs'[2] \subseteq Locked
    BY <1>2 DEF CollectEcho2, Locked
  <2>2. CASE IsQuorum(sigs'[2])
    <3>1. IsQuorum(Locked)
      <4>1. Locked \in SUBSET Party
        BY DEF Locked
      <4> QED
        BY <2>1, <2>2, <4>1, QuorumGrows
    <3>2. sender' = "finish"
      BY <1>2, <2>2 DEF CollectEcho2
    <3>3. (sender' = "finish") = TRUE
      BY <3>2
    <3>4. LL!IsQuorum(Locked)
      BY <3>1 DEF LL!IsQuorum, IsQuorum, LL!Cardinality, Cardinality
    <3>5. UNCHANGED <<Locked, preVote>>
      BY <2>1
    <3>6. LL!Finish
      BY <3>3, <3>4, <3>5 DEF LL!Finish
    <3> QED
      BY <3>6
  <2>3. CASE ~IsQuorum(sigs'[2])
    BY <1>2, <2>1, <2>3 DEF CollectEcho2
  <2> QED
    BY <2>2, <2>3
<1>3. ASSUME NEW p \in Party, PreVote(p) PROVE LL!Next
  <2>1. p \in Locked <=> p \in Lr
    BY <1>3 DEF PreVote, WaitOver, LockedInv
  <2>2. preVote[p] = "none"
    BY <1>3 DEF PreVote, PreVoteInv
  <2>3. Locked' = Locked
    BY <1>3 DEF PreVote, Locked
  <2> QED
    BY <1>3, <2>1, <2>2, <2>3 DEF PreVote, LL!PreVote
<1>4. ASSUME NEW p \in Party, CollectEcho1(p) \/ ReceiveValue1(p)
      PROVE  UNCHANGED LL!vars
  BY <1>4 DEF CollectEcho1, ReceiveValue1, Locked
<1>5. ASSUME UNCHANGED <<echo, sigs, preVote>>,
             sender' = "finish" <=> sender = "finish"
      PROVE  UNCHANGED LL!vars
  BY <1>5 DEF Locked
<1> QED
  BY <1>1, <1>2, <1>3, <1>4, <1>5, NextCases
     DEF SendValue1, SenderCancelled, CancelReceive1, CancelReceive2, StoreLock,
         LeaderElected, HaltedBeforeLeader, ShortCut

(***************************************************************************)
(* The round may rely on LeaderLock in the place of the broadcast.         *)
(***************************************************************************)
THEOREM Refinement == Spec => ImplementsLeaderLock
<1>1. UNCHANGED vars => UNCHANGED LL!vars
  BY DEF vars, LL!vars, Locked
<1> QED
  BY <1>1, InitLeaderLock, NextLeaderLock, Inductive, PTL
     DEF Spec, ImplementsLeaderLock, LL!Spec
-----------------------------------------------------------------------------
(***************************************************************************)
(* Where the broadcast can come to rest.  Liveness itself is TLC's; what   *)
(* it rests on is a fact about states, proved here for any number of       *)
(* parties.                                                                *)
(***************************************************************************)

(* SenderStep has nothing to do.                                           *)
SenderIdle ==
  /\ sender # "start"
  /\ sender = "pb1" => echo[1] = {}
  /\ sender = "pb2" => echo[2] = {}
  /\ sender \in {"pb1", "pb2"} => ~ Cancelled(Sender)

(* ReceiverStep and MainStep of p have nothing to do.                      *)
Idle(p) ==
  /\ receiver[p] = "pb1" => p \notin value[1]
  /\ receiver[p] = "pb2" => p \notin value[2]
  /\ receiver[p] \in {"pb1", "pb2"} => ~ Cancelled(p)
  /\ receiver[p] # "echoed"
  /\ Waiting(p) => ~ WaitOver(p)

AllIdle == (Sender \in Up => SenderIdle) /\ \A p \in Up : Idle(p)

(* What the sender has sent is in a channel or was answered, and it stops  *)
(* collecting with the share that makes a quorum.                          *)
SenderInv ==
  /\ sender = "start" => sigs[1] = {}
  /\ sender \in {"start", "pb1"} => sigs[2] = {}
  /\ sender = "pb1" => ~ IsQuorum(sigs[1])
  /\ sender = "pb2" => ~ IsQuorum(sigs[2])
  /\ sender = "failed" => Cancelled(Sender)
  /\ sender # "start" => Party \subseteq value[1] \cup echo[1] \cup sigs[1]
  /\ sender = "pb2" => Party \subseteq value[2] \cup Locked

(* A receiver that was not cancelled got where it is by answering.         *)
ReceiverInv ==
  \A p \in Party :
    /\ p \in echo[1] \cup sigs[1] => receiver[p] # "pb1"
    /\ receiver[p] # "pb1" => Cancelled(p) \/ p \in echo[1] \cup sigs[1]
    /\ receiver[p] = "returned" => Cancelled(p) \/ p \in Lr

(* The sender's own steps and the answers keep SenderInv.                  *)
LEMMA NextSenderInv ==
  ASSUME IInv, IInv', SenderInv, Next
  PROVE  SenderInv'
<1> USE DEF IInv, TypeOK, SenderInv, Locked
<1>0. \A q \in Party : Cancelled(q) => Cancelled(q)'
  BY NextCases
     DEF Cancelled, SendValue1, SenderCancelled, CollectEcho1, CollectEcho2,
         ReceiveValue1, CancelReceive1, ReceiveValue2, CancelReceive2,
         StoreLock, LeaderElected, HaltedBeforeLeader, ShortCut, PreVote
<1>1. ASSUME SendValue1 PROVE SenderInv'
  <2>1. ~ IsQuorum({})
    BY FS_EmptySet, PartyAssumption DEF IsQuorum
  <2> QED
    BY <1>1, <2>1 DEF SendValue1
<1>2. ASSUME SenderCancelled PROVE SenderInv'
  BY <1>2, <1>0, SPBAssumption DEF SenderCancelled
<1>3. ASSUME NEW p \in Party, CollectEcho1(p) PROVE SenderInv'
  <2>1. ~ IsQuorum({})
    BY FS_EmptySet, PartyAssumption DEF IsQuorum
  <2>2. /\ sender = "pb1" /\ p \in echo[1]
        /\ echo'[1] = echo[1] \ {p} /\ sigs'[1] = sigs[1] \cup {p}
        /\ echo'[2] = echo[2] /\ sigs'[2] = sigs[2]
        /\ value'[1] = value[1]
    BY <1>3 DEF CollectEcho1
  <2>3. \/ sender' = "pb1" /\ ~ IsQuorum(sigs'[1])
        \/ sender' = "pb2" /\ value'[2] = Party
    BY <1>3 DEF CollectEcho1
  <2>4. Party \subseteq value'[1] \cup echo'[1] \cup sigs'[1]
    BY <2>2
  <2>5. CASE sender' = "pb1" /\ ~ IsQuorum(sigs'[1])
    BY <2>2, <2>4, <2>5
  <2>6. CASE sender' = "pb2" /\ value'[2] = Party
    BY <2>1, <2>2, <2>4, <2>6
  <2> QED
    BY <2>3, <2>5, <2>6
<1>4. ASSUME NEW p \in Party, CollectEcho2(p) PROVE SenderInv'
  <2>1. /\ sender = "pb2" /\ p \in echo[2] /\ value' = value
        /\ echo'[2] = echo[2] \ {p} /\ sigs'[2] = sigs[2] \cup {p}
        /\ echo'[1] = echo[1] /\ sigs'[1] = sigs[1]
        /\ sender' = IF IsQuorum(sigs'[2]) THEN "finish" ELSE sender
    BY <1>4 DEF CollectEcho2
  <2> QED
    BY <2>1
<1>5. ASSUME NEW p \in Party, ReceiveValue1(p) PROVE SenderInv'
  <2>1. /\ p \in value[1] /\ value'[1] = value[1] \ {p}
        /\ echo'[1] = echo[1] \cup {p} /\ echo'[2] = echo[2]
        /\ value'[2] = value[2]
        /\ UNCHANGED <<sender, sigs, main>>
    BY <1>5 DEF ReceiveValue1
  <2> QED
    BY <2>1, <1>0, SPBAssumption
<1>6. ASSUME NEW p \in Party, ReceiveValue2(p) PROVE SenderInv'
  <2>1. Validator
    BY <1>6 DEF ReceiveValue2, SigsInv, Validator
  <2>2. /\ p \in value[2] /\ value'[2] = value[2] \ {p}
        /\ echo'[2] = echo[2] \cup {p} /\ echo'[1] = echo[1]
        /\ value'[1] = value[1]
        /\ UNCHANGED <<sender, sigs, main>>
    BY <1>6, <2>1 DEF ReceiveValue2
  <2> QED
    BY <2>2, <1>0, SPBAssumption
<1>7. ASSUME UNCHANGED <<sender, value, echo, sigs>> PROVE SenderInv'
  BY <1>0, <1>7, SPBAssumption
<1> QED
  BY <1>1, <1>2, <1>3, <1>4, <1>5, <1>6, <1>7, NextCases
     DEF CancelReceive1, CancelReceive2, StoreLock, LeaderElected,
         HaltedBeforeLeader, ShortCut, PreVote

(* The receivers' answers keep ReceiverInv.                                *)
LEMMA NextReceiverInv ==
  ASSUME IInv, IInv', ReceiverInv, Next
  PROVE  ReceiverInv'
<1> USE DEF IInv, TypeOK, ReceiverInv
<1>1. ASSUME NEW p \in Party, CollectEcho1(p) \/ CollectEcho2(p)
      PROVE  ReceiverInv'
  <2>1. echo'[1] \cup sigs'[1] = echo[1] \cup sigs[1]
    BY <1>1 DEF CollectEcho1, CollectEcho2
  <2>2. UNCHANGED <<receiver, main, Lr>>
    BY <1>1 DEF CollectEcho1, CollectEcho2
  <2> QED
    BY <2>1, <2>2 DEF Cancelled
<1>2. ASSUME NEW p \in Party, ReceiveValue1(p) PROVE ReceiverInv'
  BY <1>2 DEF ReceiveValue1, Cancelled
<1>3. ASSUME NEW p \in Party, ReceiveValue2(p) PROVE ReceiverInv'
  <2>1. /\ receiver[p] = "pb2" /\ echo'[1] = echo[1]
        /\ receiver' = [receiver EXCEPT ![p] = "echoed"]
           \/ receiver' = [receiver EXCEPT ![p] = "fatal"]
        /\ UNCHANGED <<sigs, main, Lr>>
    BY <1>3 DEF ReceiveValue2
  <2> QED
    BY <2>1 DEF Cancelled
<1>4. ASSUME NEW p \in Party, CancelReceive1(p) \/ CancelReceive2(p)
      PROVE  ReceiverInv'
  BY <1>4 DEF CancelReceive1, CancelReceive2, Cancelled
<1>5. ASSUME NEW p \in Party, StoreLock(p) PROVE ReceiverInv'
  BY <1>5 DEF StoreLock, Cancelled
<1>6. ASSUME NEW p \in Party,
             LeaderElected(p) \/ HaltedBeforeLeader(p) \/ ShortCut(p) \/ PreVote(p)
      PROVE  ReceiverInv'
  BY <1>6 DEF LeaderElected, HaltedBeforeLeader, ShortCut, PreVote, Cancelled
<1>7. ASSUME SendValue1 \/ SenderCancelled PROVE ReceiverInv'
  BY <1>7 DEF SendValue1, SenderCancelled, Cancelled
<1> QED
  BY <1>1, <1>2, <1>3, <1>4, <1>5, <1>6, <1>7, NextCases

(* Both hold of every behaviour.                                           *)
LEMMA RestInductive == Spec => [](SenderInv /\ ReceiverInv)
<1>1. Init => SenderInv /\ ReceiverInv
  BY DEF Init, SenderInv, ReceiverInv
<1>2. ASSUME IInv, IInv', SenderInv, ReceiverInv, [Next]_vars
      PROVE  SenderInv' /\ ReceiverInv'
  <2>1. CASE Next
    BY <1>2, <2>1, NextSenderInv, NextReceiverInv
  <2>2. CASE UNCHANGED vars
    BY <1>2, <2>2
       DEF vars, SenderInv, ReceiverInv, Locked, Cancelled, IsQuorum
  <2> QED
    BY <1>2, <2>1, <2>2
<1> QED
  BY <1>1, <1>2, Inductive, PTL DEF Spec

(* Idle goroutines keep no MainProcess in wg.Wait().                       *)
LEMMA IdleWaitsOver ==
  ASSUME IInv, AllIdle, NEW p \in Up
  PROVE  ~ Waiting(p)
<1> SUFFICES ASSUME Waiting(p) PROVE FALSE
  OBVIOUS
<1>1. p \in Party /\ Cancelled(p)
  BY SPBAssumption DEF Waiting, Cancelled
<1>2. receiver[p] = "returned"
  BY <1>1 DEF AllIdle, Idle, IInv, TypeOK, NoFatal
<1>3. p = Sender => sender \in {"finish", "failed"}
  BY <1>1 DEF AllIdle, SenderIdle, IInv, TypeOK
<1> QED
  BY <1>2, <1>3 DEF AllIdle, Idle, WaitOver

(* Without a cancellation the sender has all the Echoes it waits for.      *)
LEMMA IdleFinished ==
  ASSUME IInv, SenderInv, ReceiverInv, AllIdle,
         Sender \in Up, IsQuorum(Up), ~ SomeCancelled
  PROVE  sender = "finish"
<1>1. /\ Up \in SUBSET Party /\ sigs[1] \in SUBSET Party /\ sigs[2] \in SUBSET Party
      /\ sender \in {"start", "pb1", "pb2", "finish", "failed"}
  BY SPBAssumption DEF IInv, TypeOK
<1>2. sender # "start" /\ sender # "failed"
  BY SPBAssumption DEF AllIdle, SenderIdle, SenderInv, SomeCancelled
<1>3. Up \subseteq echo[1] \cup sigs[1]
  BY <1>1, <1>2 DEF AllIdle, Idle, SenderInv, ReceiverInv, SomeCancelled
<1>4. sender # "pb1"
  <2> SUFFICES ASSUME sender = "pb1" PROVE FALSE
    OBVIOUS
  <2>1. Up \subseteq sigs[1]
    BY <1>3 DEF AllIdle, SenderIdle
  <2> QED
    BY <1>1, <2>1, QuorumGrows DEF SenderInv
<1>5. sender # "pb2"
  <2> SUFFICES ASSUME sender = "pb2" PROVE FALSE
    OBVIOUS
  <2>1. ASSUME NEW p \in Up PROVE p \in Locked
    <3>1. p \in Party /\ receiver[p] \in {"pb2", "returned"}
      BY <1>1, <1>3
         DEF AllIdle, Idle, ReceiverInv, IInv, TypeOK, NoFatal
    <3>2. CASE receiver[p] = "pb2"
      BY <3>1, <3>2 DEF AllIdle, Idle, SenderInv
    <3>3. CASE receiver[p] = "returned"
      BY <3>1, <3>3 DEF ReceiverInv, SomeCancelled, IInv, LockedInv
    <3> QED
      BY <3>1, <3>2, <3>3
  <2>2. Up \subseteq sigs[2]
    BY <2>1 DEF Locked, AllIdle, SenderIdle
  <2> QED
    BY <1>1, <2>2, QuorumGrows DEF SenderInv
<1> QED
  BY <1>1, <1>2, <1>4, <1>5

(***************************************************************************)
(* The broadcast comes to rest only where WaitReturns and SenderFinishes   *)
(* say: nobody is left in wg.Wait(), and with 2F+1 parties up, the sender  *)
(* among them, Finish is broadcast unless some instance was cancelled.     *)
(***************************************************************************)
THEOREM RestsFinished ==
  Spec => [](AllIdle =>
               /\ \A p \in Up : ~ Waiting(p)
               /\ Sender \in Up /\ IsQuorum(Up) =>
                    sender = "finish" \/ SomeCancelled)
<1>1. IInv /\ SenderInv /\ ReceiverInv =>
        (AllIdle =>
           /\ \A p \in Up : ~ Waiting(p)
           /\ Sender \in Up /\ IsQuorum(Up) =>
                sender = "finish" \/ SomeCancelled)
  BY IdleWaitsOver, IdleFinished
<1> QED
  BY <1>1, Inductive, RestInductive, PTL
=============================================================================
