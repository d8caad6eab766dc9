---------------------------- MODULE SMVBAProofs ----------------------------
(***************************************************************************)
(* Agreement of SMVBA, for any number of parties, values and rounds.       *)
(*                                                                         *)
(* The argument: a committed round cannot have 2F+1 no Votes (quorums of   *)
(* locks, PreVotes and Votes intersect), so every value carried out of it  *)
(* is its leader's, and so is every value of the rounds after it; Halts    *)
(* and returns come from committed rounds only.                            *)
(***************************************************************************)
EXTENDS SMVBA, QuorumLemmas

NoQuorum(r) == IsQuorum(Voters(r, "no"))

(* A party has a value in exactly the rounds it has come to.               *)
InputInv ==
  \A r \in Rounds, p \in Party : input[r][p] # None <=> r <= round[p]

(* A party has not PreVoted in the round it is selecting in, or later.     *)
PreVoteInv ==
  \A r \in Rounds, p \in Party :
    preVote[r][p] # "none" =>
      r <= round[p] /\ (r = round[p] => main[p] # "select")

(* Locks are of the leader's value, and a PreVote tells the lock.          *)
LockInv ==
  \A r \in Rounds :
    /\ locked[r] # {} => leader[r] \in Entered(r)
    /\ \A p \in Party :
         /\ preVote[r][p] = "yes" => p \in locked[r]
         /\ preVote[r][p] = "no" => p \notin locked[r]

(* A Vote rests on the PreVotes that justify it.                           *)
VoteInv ==
  \A r \in Rounds, p \in Party :
    /\ vote[r][p] = "yes" => PreVoters(r, "yes") # {}
    /\ vote[r][p] = "no" => IsQuorum(PreVoters(r, "no"))

(* A value brought from round r is its leader's, unless r may be skipped.  *)
CarryInv ==
  \A r, s \in Rounds : r < s =>
    \A p \in Entered(s) : NoQuorum(r) \/ input[s][p] = LeaderValue(r)

(* Halts and returned values come from committed rounds.                   *)
HaltInv == \A r \in halt : Committed(r)

DecisionInv ==
  \A p \in Party :
    /\ decision[p] # None =>
         \E r \in Rounds : Committed(r) /\ decision[p] = LeaderValue(r)
    /\ main[p] # "returned" => decision[p] = None

(* Every value in use was proposed.                                        *)
ValidInv ==
  \A r \in Rounds : \A p \in Entered(r) :
    \E q \in Party : input[0][q] = input[r][p]

IInv ==
  /\ TypeOK
  /\ InputInv
  /\ PreVoteInv
  /\ LockInv
  /\ VoteInv
  /\ CarryInv
  /\ HaltInv
  /\ DecisionInv
  /\ ValidInv

-----------------------------------------------------------------------------
USE DEF Rounds, Ballot

(* The actions of Next, whichever party is up.                             *)
LEMMA NextCases ==
  Next => \E p \in Party :
            \/ ShortCut(p) \/ PreVote(p)
            \/ ResultYes(p) \/ ResultNo(p) \/ ResultOther(p)
            \/ \E r \in Rounds :
                 Lock(p, r) \/ Vote(p, r, "yes") \/ Vote(p, r, "no")
                   \/ TakeHalt(p, r)
BY SMVBAAssumption DEF Next, PartyStep

(***************************************************************************)
(* Type correctness.                                                       *)
(***************************************************************************)
LEMMA InitTypeOK == Init => TypeOK
BY SMVBAAssumption DEF Init, TypeOK

(* What the leader of a round entered it with is a value, or nothing.      *)
LEMMA LeaderValueType ==
  ASSUME TypeOK, NEW r \in Rounds
  PROVE  LeaderValue(r) \in Value \cup {None}
<1>1. input[r] \in [Party -> Value \cup {None}] /\ leader[r] \in Party
  BY DEF TypeOK
<1> QED
  BY <1>1 DEF LeaderValue

(* Entering the next round with a value keeps the variables in their types. *)
LEMMA NextRoundTypeOK ==
  ASSUME TypeOK, NEW p \in Party, NEW v \in Value \cup {None}, NextRound(p, v)
  PROVE  TypeOK'
<1>1. round[p] + 1 \in Rounds
  BY SMVBAAssumption DEF TypeOK, NextRound
<1>2. round' \in [Party -> Rounds]
  BY <1>1 DEF TypeOK, NextRound
<1>3. input' \in [Rounds -> [Party -> Value \cup {None}]]
  <2>1. input[round[p] + 1] \in [Party -> Value \cup {None}]
    BY <1>1 DEF TypeOK
  <2> QED
    BY <1>1, <2>1 DEF TypeOK, NextRound
<1> QED
  BY <1>2, <1>3 DEF TypeOK, NextRound

(* Every action keeps the variables in their types.                        *)
LEMMA NextTypeOK == TypeOK /\ Next => TypeOK'
<1> SUFFICES ASSUME TypeOK, Next PROVE TypeOK'
  OBVIOUS
<1>1. ASSUME NEW p \in Party, ShortCut(p) PROVE TypeOK'
  <2>1. round[p] \in Rounds /\ LeaderValue(round[p]) \in Value \cup {None}
    BY LeaderValueType DEF TypeOK
  <2> QED
    BY <1>1, <2>1 DEF TypeOK, ShortCut, Return
<1>2. ASSUME NEW p \in Party, PreVote(p) PROVE TypeOK'
  BY <1>2 DEF TypeOK, PreVote
<1>3. ASSUME NEW p \in Party, ResultYes(p) PROVE TypeOK'
  <2>1. round[p] \in Rounds /\ LeaderValue(round[p]) \in Value \cup {None}
    BY LeaderValueType DEF TypeOK
  <2> QED
    BY <1>3, <2>1 DEF TypeOK, ResultYes, Return
<1>4. ASSUME NEW p \in Party, ResultNo(p) PROVE TypeOK'
  <2>1. round[p] \in Rounds /\ input[round[p]][p] \in Value \cup {None}
    BY DEF TypeOK
  <2> QED
    BY <1>4, <2>1, NextRoundTypeOK DEF ResultNo
<1>5. ASSUME NEW p \in Party, ResultOther(p) PROVE TypeOK'
  <2>1. round[p] \in Rounds /\ LeaderValue(round[p]) \in Value \cup {None}
    BY LeaderValueType DEF TypeOK
  <2> QED
    BY <1>5, <2>1, NextRoundTypeOK DEF ResultOther
<1>6. ASSUME NEW p \in Party, NEW r \in Rounds, Lock(p, r) PROVE TypeOK'
  BY <1>6 DEF TypeOK, Lock
<1>7. ASSUME NEW p \in Party, NEW r \in Rounds, NEW v \in {"yes", "no"},
             Vote(p, r, v)
      PROVE  TypeOK'
  BY <1>7 DEF TypeOK, Vote
<1>8. ASSUME NEW p \in Party, NEW r \in Rounds, TakeHalt(p, r) PROVE TypeOK'
  BY <1>8, LeaderValueType DEF TypeOK, TakeHalt, Return
<1> QED
  BY <1>1, <1>2, <1>3, <1>4, <1>5, <1>6, <1>7, <1>8, NextCases

(***************************************************************************)
(* TypeOK holds of every behaviour.                                        *)
(***************************************************************************)
THEOREM TypeCorrect == Spec => []TypeOK
<1>1. TypeOK /\ UNCHANGED vars => TypeOK'
  BY DEF TypeOK, vars
<1> QED
  BY <1>1, InitTypeOK, NextTypeOK, PTL DEF Spec

-----------------------------------------------------------------------------
(***************************************************************************)
(* What a committed round rules out.                                       *)
(***************************************************************************)
LEMMA YesLeader ==
  ASSUME TypeOK, LockInv, VoteInv, NEW r \in Rounds, Voters(r, "yes") # {}
  PROVE  leader[r] \in Entered(r)
<1>1. PICK p \in Party : vote[r][p] = "yes"
  BY DEF Voters
<1>2. PICK q \in Party : preVote[r][q] = "yes"
  BY <1>1 DEF VoteInv, PreVoters
<1> QED
  BY <1>2 DEF LockInv

(* A round that can decide has a leader that entered it with a value.      *)
LEMMA CommittedLeader ==
  ASSUME TypeOK, LockInv, VoteInv, NEW r \in Rounds, Committed(r)
  PROVE  leader[r] \in Entered(r)
<1>1. CASE CanFinish(r)
  <2>1. locked[r] # {}
    BY <1>1, QuorumNonEmpty DEF CanFinish, TypeOK
  <2> QED
    BY <2>1 DEF LockInv
<1>2. CASE IsQuorum(Voters(r, "yes"))
  <2>1. Voters(r, "yes") # {}
    BY <1>2, QuorumNonEmpty DEF Voters
  <2> QED
    BY <2>1, YesLeader
<1> QED
  BY <1>1, <1>2 DEF Committed

(* In a round that can decide there are never 2F+1 no Votes.               *)
LEMMA CommittedNotSkipped ==
  ASSUME TypeOK, LockInv, VoteInv, NEW r \in Rounds, Committed(r)
  PROVE  ~NoQuorum(r)
<1> SUFFICES ASSUME NoQuorum(r) PROVE FALSE
  OBVIOUS
<1>1. CASE CanFinish(r)
  <2>1. PICK p \in Party : vote[r][p] = "no"
    <3>1. Voters(r, "no") # {}
      BY QuorumNonEmpty DEF NoQuorum, Voters
    <3> QED
      BY <3>1 DEF Voters
  <2>2. IsQuorum(PreVoters(r, "no"))
    BY <2>1 DEF VoteInv
  <2>3. PreVoters(r, "no") \cap locked[r] # {}
    BY <1>1, <2>2, QuorumsIntersect DEF CanFinish, PreVoters, TypeOK
  <2> QED
    BY <2>3 DEF LockInv, PreVoters
<1>2. CASE IsQuorum(Voters(r, "yes"))
  <2>1. Voters(r, "yes") \cap Voters(r, "no") # {}
    BY <1>2, QuorumsIntersect DEF NoQuorum, Voters
  <2> QED
    BY <2>1 DEF Voters
<1> QED
  BY <1>1, <1>2 DEF Committed

-----------------------------------------------------------------------------
(***************************************************************************)
(* Nothing a party has broadcast or entered is taken back, so what a round *)
(* has counted stays counted.                                              *)
(***************************************************************************)
Grows ==
  /\ leader' = leader
  /\ \A r \in Rounds : locked[r] \subseteq locked'[r]
  /\ \A r \in Rounds, p \in Party :
       /\ input[r][p] # None => input'[r][p] = input[r][p]
       /\ preVote[r][p] # "none" => preVote'[r][p] = preVote[r][p]
       /\ vote[r][p] # "none" => vote'[r][p] = vote[r][p]

(* Every step only adds inputs, locks, PreVotes and Votes.                 *)
LEMMA NextGrows ==
  ASSUME TypeOK, InputInv, PreVoteInv, Next
  PROVE  Grows
<1>1. ASSUME NEW p \in Party, ShortCut(p) \/ ResultYes(p) PROVE Grows
  BY <1>1 DEF ShortCut, ResultYes, Grows
<1>2. ASSUME NEW p \in Party, PreVote(p) PROVE Grows
  <2>1. preVote[round[p]][p] = "none"
    BY <1>2 DEF PreVote, PreVoteInv, TypeOK
  <2> QED
    BY <1>2, <2>1 DEF PreVote, Grows, TypeOK
<1>3. ASSUME NEW p \in Party, NEW x, NextRound(p, x) PROVE Grows
  <2>1. round[p] + 1 \in Rounds /\ input[round[p] + 1][p] = None
    BY <1>3, SMVBAAssumption DEF NextRound, InputInv, TypeOK
  <2> QED
    BY <1>3, <2>1 DEF NextRound, Grows, TypeOK
<1>4. ASSUME NEW p \in Party, NEW r \in Rounds, Lock(p, r) PROVE Grows
  BY <1>4 DEF Lock, Grows, TypeOK
<1>5. ASSUME NEW p \in Party, NEW r \in Rounds, NEW v, Vote(p, r, v)
      PROVE  Grows
  BY <1>5 DEF Vote, Grows, TypeOK
<1>6. ASSUME NEW p \in Party, NEW r \in Rounds, TakeHalt(p, r) PROVE Grows
  BY <1>6 DEF TakeHalt, Grows
<1> QED
  BY <1>1, <1>2, <1>3, <1>4, <1>5, <1>6, NextCases DEF ResultNo, ResultOther

(* What a round has committed to stays as it is.                           *)
LEMMA Kept ==
  ASSUME TypeOK, TypeOK', Grows, NEW r \in Rounds
  PROVE  /\ Entered(r) \subseteq Entered(r)'
         /\ \A v \in {"yes", "no"} : PreVoters(r, v) \subseteq PreVoters(r, v)'
         /\ \A v \in {"yes", "no"} : Voters(r, v) \subseteq Voters(r, v)'
         /\ NoQuorum(r) => NoQuorum(r)'
         /\ Committed(r) => Committed(r)'
         /\ leader[r] \in Entered(r) => LeaderValue(r)' = LeaderValue(r)
<1>1. Entered(r) \subseteq Entered(r)'
  BY DEF Grows, Entered
<1>2. \A v \in {"yes", "no"} : PreVoters(r, v) \subseteq PreVoters(r, v)'
  BY DEF Grows, PreVoters
<1>3. \A v \in {"yes", "no"} : Voters(r, v) \subseteq Voters(r, v)'
  BY DEF Grows, Voters
<1>4. NoQuorum(r) => NoQuorum(r)'
  BY <1>3, QuorumGrows DEF NoQuorum, IsQuorum, Voters
<1>5. Committed(r) => Committed(r)'
  BY <1>3, QuorumGrows DEF Committed, CanFinish, Voters, Grows, TypeOK
<1>6. leader[r] \in Entered(r) => LeaderValue(r)' = LeaderValue(r)
  BY DEF Grows, LeaderValue, Entered, TypeOK
<1> QED
  BY <1>1, <1>2, <1>3, <1>4, <1>5, <1>6

-----------------------------------------------------------------------------
(***************************************************************************)
(* How a value is carried: the party's own out of a round that 2F+1 voted  *)
(* no in, or the leader's.                                                 *)
(***************************************************************************)
Carries(p, x) ==
  LET r == round[p]
  IN  /\ x # None
      /\ \/ NoQuorum(r) /\ x = input[r][p]
         \/ leader[r] \in Entered(r) /\ x = LeaderValue(r)

(* A step gives at most one party a new input, with the evidence for it.   *)
LEMMA InputStep ==
  ASSUME IInv, Next
  PROVE  \/ UNCHANGED <<input, round>>
         \/ \E p \in Party : \E x : NextRound(p, x) /\ Carries(p, x)
<1> USE DEF IInv
<1>1. ASSUME NEW p \in Party, ResultNo(p)
      PROVE  \E x : NextRound(p, x) /\ Carries(p, x)
  <2>1. input[round[p]][p] # None
    BY DEF InputInv, TypeOK
  <2>2. Carries(p, input[round[p]][p])
    BY <1>1, <2>1 DEF ResultNo, Carries, NoQuorum
  <2> QED
    BY <1>1, <2>2 DEF ResultNo
<1>2. ASSUME NEW p \in Party, ResultOther(p)
      PROVE  \E x : NextRound(p, x) /\ Carries(p, x)
  <2>1. leader[round[p]] \in Entered(round[p])
    BY <1>2, YesLeader DEF ResultOther, TypeOK
  <2>2. Carries(p, LeaderValue(round[p]))
    BY <2>1 DEF Carries, Entered, LeaderValue
  <2> QED
    BY <1>2, <2>2 DEF ResultOther
<1>3. ASSUME NEW p \in Party,
             \/ ShortCut(p) \/ PreVote(p) \/ ResultYes(p)
             \/ \E r \in Rounds :
                  Lock(p, r) \/ Vote(p, r, "yes") \/ Vote(p, r, "no")
                    \/ TakeHalt(p, r)
      PROVE  UNCHANGED <<input, round>>
  BY <1>3 DEF ShortCut, PreVote, ResultYes, Lock, Vote, TakeHalt
<1> QED
  BY <1>1, <1>2, <1>3, NextCases

(* A party enters one round after the other.                               *)
LEMMA NextInputInv ==
  ASSUME IInv, Next
  PROVE  InputInv'
<1>1. CASE UNCHANGED <<input, round>>
  BY <1>1 DEF IInv, InputInv
<1>2. ASSUME NEW p \in Party, NEW x, NextRound(p, x), Carries(p, x)
      PROVE  InputInv'
  <2>1. round[p] + 1 \in Rounds /\ x # None
    BY <1>2, SMVBAAssumption DEF IInv, TypeOK, NextRound, Carries
  <2>2. SUFFICES ASSUME NEW r \in Rounds, NEW q \in Party
                 PROVE  input'[r][q] # None <=> r <= round'[q]
    BY DEF InputInv
  <2>3. input[r][q] # None <=> r <= round[q]
    BY DEF IInv, InputInv
  <2>4. CASE q # p
    BY <1>2, <2>1, <2>3, <2>4 DEF IInv, TypeOK, NextRound
  <2>5. CASE q = p
    <3>1. round'[p] = round[p] + 1 /\ input'[round[p] + 1][p] = x
      BY <1>2, <2>1 DEF IInv, TypeOK, NextRound
    <3>2. r # round[p] + 1 => input'[r][p] = input[r][p]
      BY <1>2, <2>1 DEF IInv, TypeOK, NextRound
    <3> QED
      BY <2>1, <2>3, <2>5, <3>1, <3>2 DEF IInv, TypeOK
  <2> QED
    BY <2>4, <2>5
<1> QED
  BY <1>1, <1>2, InputStep

(* What is carried past a committed round stays the value of its leader.   *)
LEMMA NextCarryInv ==
  ASSUME IInv, TypeOK', Grows, Next
  PROVE  CarryInv'
<1> SUFFICES ASSUME NEW r \in Rounds, NEW s \in Rounds, r < s,
                    NEW q \in Party, q \in Entered(s)'
             PROVE  NoQuorum(r)' \/ input'[s][q] = LeaderValue(r)'
  BY DEF CarryInv, Entered
<1> USE SMVBAAssumption DEF IInv
<1>1. ASSUME NEW t \in Rounds, r < t, NEW z \in Entered(t),
             input'[s][q] = input[t][z]
      PROVE  NoQuorum(r)' \/ input'[s][q] = LeaderValue(r)'
  <2>1. NoQuorum(r) \/ input[t][z] = LeaderValue(r)
    BY <1>1 DEF CarryInv
  <2>2. input[t][z] = LeaderValue(r) => leader[r] \in Entered(r)
    BY DEF Entered, LeaderValue, TypeOK
  <2> QED
    BY <1>1, <2>1, <2>2, Kept
<1>2. CASE q \in Entered(s)
  <2>1. input'[s][q] = input[s][q]
    BY <1>2 DEF Entered, Grows
  <2> QED
    BY <1>1, <1>2, <2>1
<1>3. CASE q \notin Entered(s)
  <2>1. ~UNCHANGED <<input, round>>
    BY <1>3 DEF Entered
  <2>2. PICK p \in Party : \E x : NextRound(p, x) /\ Carries(p, x)
    BY <2>1, InputStep
  <2>3. PICK x : NextRound(p, x) /\ Carries(p, x)
    BY <2>2
  <2>4. q = p /\ s = round[p] + 1 /\ input'[s][q] = x
    BY <1>3, <2>3 DEF Entered, NextRound, TypeOK
  <2>5. round[p] \in Rounds /\ p \in Entered(round[p])
    BY DEF InputInv, Entered, TypeOK
  <2>6. CASE r < round[p]
    <3>1. PICK z \in Entered(round[p]) : x = input[round[p]][z]
      BY <2>3, <2>5 DEF Carries, LeaderValue
    <3> QED
      BY <1>1, <2>4, <2>5, <2>6, <3>1
  <2>7. CASE r = round[p]
    BY <2>3, <2>4, <2>7, Kept DEF Carries
  <2> QED
    BY <2>4, <2>5, <2>6, <2>7
<1> QED
  BY <1>2, <1>3

(* Every value in any round goes back to a proposal.                       *)
LEMMA NextValidInv ==
  ASSUME IInv, Grows, Next
  PROVE  ValidInv'
<1> SUFFICES ASSUME NEW r \in Rounds, NEW p \in Party, p \in Entered(r)'
             PROVE  \E q \in Party : input'[0][q] = input'[r][p]
  BY DEF ValidInv, Entered
<1> USE SMVBAAssumption DEF IInv
<1>1. ASSUME NEW t \in Rounds, NEW z \in Entered(t), input'[r][p] = input[t][z]
      PROVE  \E q \in Party : input'[0][q] = input'[r][p]
  <2>1. PICK q \in Party : input[0][q] = input[t][z]
    BY DEF ValidInv
  <2>2. input'[0][q] = input[0][q]
    BY <2>1 DEF Grows, Entered
  <2> QED
    BY <1>1, <2>1, <2>2
<1>2. CASE p \in Entered(r)
  BY <1>1, <1>2 DEF Entered, Grows
<1>3. CASE p \notin Entered(r)
  <2>1. ~UNCHANGED <<input, round>>
    BY <1>3 DEF Entered
  <2>2. PICK o \in Party : \E x : NextRound(o, x) /\ Carries(o, x)
    BY <2>1, InputStep
  <2>3. PICK x : NextRound(o, x) /\ Carries(o, x)
    BY <2>2
  <2>4. p = o /\ input'[r][p] = x
    BY <1>3, <2>3 DEF Entered, NextRound, TypeOK
  <2>5. round[o] \in Rounds /\ o \in Entered(round[o])
    BY DEF InputInv, Entered, TypeOK
  <2>6. PICK z \in Entered(round[o]) : x = input[round[o]][z]
    BY <2>3, <2>5 DEF Carries, LeaderValue
  <2> QED
    BY <1>1, <2>4, <2>5, <2>6
<1> QED
  BY <1>2, <1>3

-----------------------------------------------------------------------------
(***************************************************************************)
(* The rounds' own broadcasts.                                             *)
(***************************************************************************)
LEMMA NextPreVoteInv ==
  ASSUME IInv, TypeOK', Next
  PROVE  PreVoteInv'
<1> SUFFICES ASSUME NEW r \in Rounds, NEW q \in Party, preVote'[r][q] # "none"
             PROVE  r <= round'[q] /\ (r = round'[q] => main'[q] # "select")
  BY DEF PreVoteInv
<1> USE SMVBAAssumption DEF IInv, TypeOK
<1>1. preVote[r][q] # "none" =>
        r <= round[q] /\ (r = round[q] => main[q] # "select")
  BY DEF PreVoteInv
<1>2. ASSUME NEW p \in Party, PreVote(p)
      PROVE  r <= round'[q] /\ (r = round'[q] => main'[q] # "select")
  BY <1>1, <1>2 DEF PreVote
<1>3. ASSUME NEW p \in Party, NEW x, NextRound(p, x)
      PROVE  r <= round'[q] /\ (r = round'[q] => main'[q] # "select")
  BY <1>1, <1>3 DEF NextRound
<1>4. ASSUME NEW p \in Party, NEW x, Return(p, x), UNCHANGED <<round, preVote>>
      PROVE  r <= round'[q] /\ (r = round'[q] => main'[q] # "select")
  BY <1>1, <1>4 DEF Return
<1>5. ASSUME UNCHANGED <<round, main, preVote>>
      PROVE  r <= round'[q] /\ (r = round'[q] => main'[q] # "select")
  BY <1>1, <1>5
<1> QED
  BY <1>2, <1>3, <1>4, <1>5, NextCases
     DEF ShortCut, ResultYes, ResultNo, ResultOther, Lock, Vote, TakeHalt

(* Locks are made in entered rounds, of values of entered leaders.         *)
LEMMA NextLockInv ==
  ASSUME IInv, TypeOK', Grows, Next
  PROVE  LockInv'
<1> SUFFICES ASSUME NEW r \in Rounds
             PROVE  /\ locked'[r] # {} => leader[r] \in Entered(r)'
                    /\ \A q \in Party :
                         /\ preVote'[r][q] = "yes" => q \in locked'[r]
                         /\ preVote'[r][q] = "no" => q \notin locked'[r]
  BY DEF LockInv, Grows
<1> USE DEF IInv, TypeOK
<1>1. /\ locked[r] # {} => leader[r] \in Entered(r)'
      /\ leader[r] \in Entered(r) => leader[r] \in Entered(r)'
      /\ \A q \in Party : /\ preVote[r][q] = "yes" => q \in locked[r]
                          /\ preVote[r][q] = "no" => q \notin locked[r]
  BY Kept DEF LockInv
<1>2. ASSUME NEW p \in Party, NEW s \in Rounds, Lock(p, s)
      PROVE  /\ locked'[r] # {} => leader[r] \in Entered(r)'
             /\ \A q \in Party : /\ preVote'[r][q] = "yes" => q \in locked'[r]
                                 /\ preVote'[r][q] = "no" => q \notin locked'[r]
  BY <1>1, <1>2 DEF Lock
<1>3. ASSUME NEW p \in Party, PreVote(p)
      PROVE  \A q \in Party : /\ preVote'[r][q] = "yes" => q \in locked'[r]
                              /\ preVote'[r][q] = "no" => q \notin locked'[r]
  BY <1>1, <1>3 DEF PreVote
<1>4. ASSUME NEW p \in Party, PreVote(p)
      PROVE  locked'[r] # {} => leader[r] \in Entered(r)'
  BY <1>1, <1>4 DEF PreVote
<1>5. ASSUME UNCHANGED <<locked, preVote>>
      PROVE  /\ locked'[r] # {} => leader[r] \in Entered(r)'
             /\ \A q \in Party : /\ preVote'[r][q] = "yes" => q \in locked'[r]
                                 /\ preVote'[r][q] = "no" => q \notin locked'[r]
  BY <1>1, <1>5
<1> QED
  BY <1>2, <1>3, <1>4, <1>5, NextCases
     DEF ShortCut, ResultYes, ResultNo, ResultOther, NextRound, Vote, TakeHalt

(* A Vote keeps the evidence its caster voted on.                          *)
LEMMA NextVoteInv ==
  ASSUME IInv, TypeOK', Grows, Next
  PROVE  VoteInv'
<1> SUFFICES ASSUME NEW r \in Rounds, NEW q \in Party
             PROVE  /\ vote'[r][q] = "yes" => PreVoters(r, "yes")' # {}
                    /\ vote'[r][q] = "no" => IsQuorum(PreVoters(r, "no")')
  BY DEF VoteInv, IsQuorum
<1> USE DEF IInv
<1>1. /\ PreVoters(r, "yes") # {} => PreVoters(r, "yes")' # {}
      /\ IsQuorum(PreVoters(r, "no")) => IsQuorum(PreVoters(r, "no")')
  <2>1. PreVoters(r, "yes") \subseteq PreVoters(r, "yes")'
    BY Kept
  <2>2. PreVoters(r, "no") \subseteq PreVoters(r, "no")'
    BY Kept
  <2>3. PreVoters(r, "no") \in SUBSET Party /\ PreVoters(r, "no")' \in SUBSET Party
    BY DEF PreVoters
  <2> QED
    BY <2>1, <2>2, <2>3, QuorumGrows
<1>2. ASSUME NEW p \in Party, NEW s \in Rounds, NEW v \in {"yes", "no"},
             Vote(p, s, v), vote'[r][q] # vote[r][q]
      PROVE  /\ vote'[r][q] = "yes" => PreVoters(r, "yes") # {}
             /\ vote'[r][q] = "no" => IsQuorum(PreVoters(r, "no"))
  BY <1>2 DEF Vote, TypeOK
<1>3. CASE vote'[r][q] = vote[r][q]
  BY <1>1, <1>3 DEF VoteInv
<1>4. ASSUME vote'[r][q] # vote[r][q]
      PROVE  \E p \in Party, s \in Rounds, v \in {"yes", "no"} : Vote(p, s, v)
  BY <1>4, NextCases
     DEF ShortCut, PreVote, ResultYes, ResultNo, ResultOther, NextRound, Lock,
         TakeHalt
<1> QED
  BY <1>1, <1>2, <1>3, <1>4

-----------------------------------------------------------------------------
(***************************************************************************)
(* Returns and Halts.                                                      *)
(***************************************************************************)
LEMMA ReturnStep ==
  ASSUME IInv, Next
  PROVE  \/ /\ UNCHANGED <<halt, decision>>
            /\ \A p \in Party : main[p] = "returned" => main'[p] = "returned"
         \/ \E p \in Party, r \in Rounds :
              /\ main[p] # "returned"
              /\ Committed(r)
              /\ halt' \in {halt, halt \cup {r}}
              /\ Return(p, LeaderValue(r))
<1> USE DEF IInv, TypeOK
<1>1. ASSUME NEW p \in Party, ShortCut(p) \/ ResultYes(p)
      PROVE  \E r \in Rounds :
               /\ main[p] # "returned"
               /\ Committed(r)
               /\ halt' \in {halt, halt \cup {r}}
               /\ Return(p, LeaderValue(r))
  <2>1. round[p] \in Rounds
    OBVIOUS
  <2> QED
    BY <1>1, <2>1 DEF ShortCut, ResultYes, Committed
<1>2. ASSUME NEW p \in Party, NEW r \in Rounds, TakeHalt(p, r)
      PROVE  /\ main[p] # "returned"
             /\ Committed(r)
             /\ halt' \in {halt, halt \cup {r}}
             /\ Return(p, LeaderValue(r))
  BY <1>2 DEF TakeHalt, HaltInv
<1>3. ASSUME NEW p \in Party,
             \/ PreVote(p) \/ ResultNo(p) \/ ResultOther(p)
             \/ \E r \in Rounds : Lock(p, r) \/ Vote(p, r, "yes") \/ Vote(p, r, "no")
      PROVE  /\ UNCHANGED <<halt, decision>>
             /\ \A q \in Party : main[q] = "returned" => main'[q] = "returned"
  BY <1>3 DEF PreVote, ResultNo, ResultOther, NextRound, Lock, Vote
<1> QED
  BY <1>1, <1>2, <1>3, NextCases

(* A Halt is broadcast in a committed round only.                          *)
LEMMA NextHaltInv ==
  ASSUME IInv, TypeOK', Grows, Next
  PROVE  HaltInv'
<1> SUFFICES ASSUME NEW r \in halt' PROVE Committed(r)'
  BY DEF HaltInv
<1> USE DEF IInv
<1>1. r \in Rounds
  BY DEF TypeOK
<1>2. Committed(r)
  BY ReturnStep DEF HaltInv
<1> QED
  BY <1>1, <1>2, Kept

(* A returned value is the leader value of a committed round.              *)
LEMMA NextDecisionInv ==
  ASSUME IInv, TypeOK', Grows, Next
  PROVE  DecisionInv'
<1> SUFFICES ASSUME NEW q \in Party
             PROVE  /\ decision'[q] # None =>
                         \E r \in Rounds :
                           Committed(r)' /\ decision'[q] = LeaderValue(r)'
                    /\ main'[q] # "returned" => decision'[q] = None
  BY DEF DecisionInv
<1> USE DEF IInv
<1>1. ASSUME NEW r \in Rounds, Committed(r), decision'[q] = LeaderValue(r)
      PROVE  Committed(r)' /\ decision'[q] = LeaderValue(r)'
  BY <1>1, Kept, CommittedLeader
<1>2. CASE /\ UNCHANGED <<halt, decision>>
           /\ \A p \in Party : main[p] = "returned" => main'[p] = "returned"
  BY <1>1, <1>2 DEF DecisionInv
<1>3. ASSUME NEW p \in Party, NEW r \in Rounds, Committed(r),
             Return(p, LeaderValue(r))
      PROVE  /\ decision'[q] # None =>
                  \E s \in Rounds :
                    Committed(s)' /\ decision'[q] = LeaderValue(s)'
             /\ main'[q] # "returned" => decision'[q] = None
  <2>1. CASE q = p
    <3>1. decision'[q] = LeaderValue(r) /\ main'[q] = "returned"
      BY <1>3, <2>1 DEF Return, TypeOK
    <3> QED
      BY <1>1, <1>3, <3>1
  <2>2. CASE q # p
    <3>1. decision'[q] = decision[q] /\ main'[q] = main[q]
      BY <1>3, <2>2 DEF Return, TypeOK
    <3> QED
      BY <1>1, <3>1 DEF DecisionInv
  <2> QED
    BY <2>1, <2>2
<1> QED
  BY <1>2, <1>3, ReturnStep

-----------------------------------------------------------------------------
(***************************************************************************)
(* IInv is inductive, and gives Agreement and CommitCarries.               *)
(***************************************************************************)
LEMMA InitIInv == Init => IInv
<1> SUFFICES ASSUME Init PROVE IInv
  OBVIOUS
<1> USE SMVBAAssumption
<1>1. PICK proposal \in [Party -> Value] :
        input = [r \in Rounds |->
                   IF r = 0 THEN proposal ELSE [p \in Party |-> None]]
  BY DEF Init
<1>2. /\ 0 \in Rounds
      /\ \A p \in Party : input[0][p] # None
      /\ \A r \in Rounds, p \in Party : r # 0 => input[r][p] = None
  BY <1>1
<1>3. InputInv
  BY <1>2 DEF Init, InputInv
<1>4. PreVoteInv /\ LockInv /\ VoteInv /\ HaltInv /\ DecisionInv
  BY DEF Init, PreVoteInv, LockInv, VoteInv, HaltInv, DecisionInv
<1>5. CarryInv
  BY <1>2 DEF CarryInv, Entered
<1>6. ValidInv
  BY <1>2 DEF ValidInv, Entered
<1> QED
  BY <1>3, <1>4, <1>5, <1>6, InitTypeOK DEF IInv

(* Every action keeps the invariant.                                       *)
LEMMA NextIInv == IInv /\ Next => IInv'
<1> SUFFICES ASSUME IInv, Next PROVE IInv'
  OBVIOUS
<1>1. TypeOK'
  BY NextTypeOK DEF IInv
<1>2. Grows
  BY NextGrows DEF IInv
<1> QED
  BY <1>1, <1>2, NextInputInv, NextPreVoteInv, NextLockInv, NextVoteInv,
     NextCarryInv, NextHaltInv, NextDecisionInv, NextValidInv DEF IInv

(* A step that changes nothing keeps the invariant.                        *)
LEMMA StutterIInv == IInv /\ UNCHANGED vars => IInv'
<1> SUFFICES ASSUME IInv, UNCHANGED vars PROVE IInv'
  OBVIOUS
<1> USE DEF vars, IInv, Entered, PreVoters, Voters, LeaderValue
<1>1. TypeOK' /\ InputInv' /\ PreVoteInv'
  BY DEF TypeOK, InputInv, PreVoteInv
<1>2. LockInv' /\ VoteInv'
  BY DEF LockInv, VoteInv, IsQuorum
<1>3. CarryInv'
  BY DEF CarryInv, NoQuorum, IsQuorum
<1>4. \A r : Committed(r)' = Committed(r) /\ LeaderValue(r)' = LeaderValue(r)
  BY DEF Committed, CanFinish, IsQuorum
<1>5. HaltInv' /\ DecisionInv'
  <2> HIDE DEF LeaderValue
  <2> QED
    BY <1>4 DEF HaltInv, DecisionInv
<1>6. ValidInv'
  BY DEF ValidInv
<1> QED
  BY <1>1, <1>2, <1>3, <1>5, <1>6

(* The invariant holds of every behaviour.                                 *)
THEOREM Inductive == Spec => []IInv
BY InitIInv, NextIInv, StutterIInv, PTL DEF Spec

(* No later value differs from that of a round that can decide.            *)
LEMMA IInvCommitCarries == IInv => CommitCarries
BY CommittedNotSkipped DEF IInv, CommitCarries, CarryInv

(* Two rounds that can decide decide the same value.                       *)
LEMMA CommittedAgree ==
  ASSUME IInv, NEW r \in Rounds, NEW s \in Rounds, Committed(r), Committed(s)
  PROVE  LeaderValue(r) = LeaderValue(s)
<1>1. leader[r] \in Entered(r) /\ leader[s] \in Entered(s)
  BY CommittedLeader DEF IInv
<1>2. r < s \/ s < r \/ r = s
  BY SMVBAAssumption
<1> QED
  BY <1>1, <1>2, IInvCommitCarries DEF CommitCarries, LeaderValue

(* The invariant leaves the returned values no choice.                     *)
LEMMA IInvAgreement == IInv => Agreement
BY CommittedAgree DEF IInv, Agreement, DecisionInv

(***************************************************************************)
(* Every value a party carries past a round that can decide is the value   *)
(* that round decides.                                                     *)
(***************************************************************************)
THEOREM CommitCarriesAlways == Spec => []CommitCarries
BY Inductive, IInvCommitCarries, PTL

(***************************************************************************)
(* MainProcess never returns two values.                                   *)
(***************************************************************************)
THEOREM AgreementAlways == Spec => []Agreement
BY Inductive, IInvAgreement, PTL

-----------------------------------------------------------------------------
(***************************************************************************)
(* SMVBA implements Consensus.                                             *)
(***************************************************************************)
LEMMA InitConsensus == Init => C!Init
BY SMVBAAssumption DEF Init, C!Init

(* What MainProcess was called with never changes.                         *)
LEMMA ProposalsStay ==
  ASSUME IInv, TypeOK', Grows
  PROVE  input[0]' = input[0]
<1>1. 0 \in Rounds /\ \A p \in Party : 0 <= round[p]
  BY SMVBAAssumption DEF IInv, TypeOK
<1>2. \A p \in Party : input'[0][p] = input[0][p]
  BY <1>1 DEF IInv, InputInv, Grows
<1>3. input[0] \in [Party -> Value \cup {None}]
      /\ input'[0] \in [Party -> Value \cup {None}]
  BY <1>1 DEF IInv, TypeOK
<1> QED
  BY <1>2, <1>3

(* Every step decides for one party as Consensus allows, or for none.      *)
LEMMA NextConsensus == IInv /\ Next => [C!Next]_C!vars
<1> SUFFICES ASSUME IInv, Next PROVE C!Next \/ UNCHANGED C!vars
  OBVIOUS
<1>1. input[0]' = input[0]
  BY ProposalsStay, NextTypeOK, NextGrows DEF IInv
<1>2. CASE UNCHANGED <<halt, decision>>
  BY <1>1, <1>2 DEF C!vars
<1>3. ASSUME NEW p \in Party, NEW r \in Rounds, main[p] # "returned",
             Committed(r), Return(p, LeaderValue(r))
      PROVE  C!Next
  <2>1. leader[r] \in Entered(r) /\ leader[r] \in Party
    BY <1>3, CommittedLeader DEF IInv, TypeOK
  <2>2. LeaderValue(r) \in Value
    <3>1. input[r] \in [Party -> Value \cup {None}]
      BY DEF IInv, TypeOK
    <3>2. input[r][leader[r]] \in Value \cup {None}
      BY <2>1, <3>1
    <3> QED
      BY <2>1, <3>2 DEF LeaderValue, Entered
  <2>3. \E q \in Party : input[0][q] = LeaderValue(r)
    BY <2>1 DEF IInv, ValidInv, LeaderValue
  <2>4. decision[p] = None
    BY <1>3 DEF IInv, DecisionInv
  <2>5. \A q \in Party : decision[q] \in {None, LeaderValue(r)}
    BY <1>3, CommittedAgree DEF IInv, DecisionInv
  <2> QED
    BY <1>1, <1>3, <2>2, <2>3, <2>4, <2>5 DEF C!Next, C!Decide, Return
<1> QED
  BY <1>2, <1>3, ReturnStep

(***************************************************************************)
(* Seen from outside, MainProcess is Consensus: one proposed value, taken  *)
(* once by each party, whatever the rounds and messages.                   *)
(***************************************************************************)
THEOREM Refinement == Spec => ImplementsConsensus
<1>1. UNCHANGED vars => UNCHANGED C!vars
  BY DEF vars, C!vars
<1> QED
  BY <1>1, InitConsensus, NextConsensus, Inductive, PTL
     DEF Spec, ImplementsConsensus, C!Spec
=============================================================================
