---------------------------- MODULE RoundProofs ----------------------------
(***************************************************************************)
(* No party leaves a round with No if the round is decided anywhere, for   *)
(* any number of parties.                                                  *)
(*                                                                         *)
(* The argument: a No goes back to 2F+1 no Votes, each of them to 2F+1 no  *)
(* PreVotes of parties without the lock.  A decision goes back to a Finish,*)
(* which 2F+1 locks made, or to 2F+1 yes Votes.  Quorums intersect.        *)
(***************************************************************************)
EXTENDS Round, QuorumLemmas

(* A Finish has its locks, and a PreVote tells its party's lock.           *)
LeaderInv ==
  /\ finished => IsQuorum(locked)
  /\ \A p \in Party : /\ preVote[p] = "yes" => p \in locked
                      /\ preVote[p] = "no" => p \notin locked

(* A Vote has its PreVotes; the handler's slices hold Votes that were sent.*)
VoteInv ==
  /\ Voters("no") # {} => IsQuorum(PreVoters("no"))
  /\ \A p \in Party : VYr[p] \subseteq Voters("yes")
                      /\ VNr[p] \subseteq Voters("no")

(* A flag, and how a party left, have their Votes.                         *)
FlagInv ==
  \A p \in Party :
    /\ voteFlag[p] = "yes" => IsQuorum(VYr[p])
    /\ voteFlag[p] = "no" => IsQuorum(VNr[p])
    /\ outcome[p] = "no" => IsQuorum(Voters("no"))

(* What a decision goes back to.                                           *)
Decidable == finished \/ IsQuorum(Voters("yes"))

DecisionInv ==
  /\ halt # {} => Decidable
  /\ \A p \in Party : Decided(p) => Decidable

IInv == TypeOK /\ LeaderInv /\ VoteInv /\ FlagInv /\ DecisionInv

(* The actions of Next, whichever party is up.                             *)
LEMMA NextCases ==
  Next =>
    \/ Finish
    \/ \E p \in Party :
         \/ Lock(p) \/ ShortCut(p) \/ PreVote(p) \/ ResultYes(p)
         \/ ResultNext(p) \/ TakeHalt(p) \/ OtherRoundReturns(p)
         \/ \E j \in Party : HandleYes(p, j) \/ HandleNo(p, j)
         \/ \E v \in {"yes", "no"} : Vote(p, v)
BY RoundAssumption DEF Next, RoundStep, Step, MainStep, HandleVote, CastVote

(* The Vote handler of q is as before, or q's MainProcess has ended it.    *)
KeptOrEnded(q) ==
  \/ VYr'[q] = VYr[q] /\ VNr'[q] = VNr[q] /\ voteFlag'[q] = voteFlag[q]
  \/ VYr'[q] = {} /\ VNr'[q] = {} /\ voteFlag'[q] = "none"

(* Only a Vote gives a handler anything.                                   *)
LEMMA HandlersKept ==
  ASSUME TypeOK, Next, NEW q \in Party,
         \A p, j \in Party : ~ HandleYes(p, j) /\ ~ HandleNo(p, j)
  PROVE  KeptOrEnded(q)
<1>1. ASSUME NEW p \in Party, EndHandler(p) PROVE KeptOrEnded(q)
  BY <1>1 DEF TypeOK, EndHandler, KeptOrEnded
<1>2. CASE UNCHANGED <<VYr, VNr, voteFlag>>
  BY <1>2 DEF KeptOrEnded
<1>3. UNCHANGED <<VYr, VNr, voteFlag>> \/ \E p \in Party : EndHandler(p)
  BY NextCases
     DEF Finish, Lock, PreVote, ShortCut, ResultYes, ResultNext, TakeHalt,
         OtherRoundReturns, Vote
<1> QED
  BY <1>1, <1>2, <1>3

-----------------------------------------------------------------------------
(* The invariant holds before the round begins.                            *)
LEMMA InitIInv == Init => IInv
<1> SUFFICES ASSUME Init PROVE IInv
  OBVIOUS
<1> USE DEF Init, LL!Init
<1>1. TypeOK
  BY DEF TypeOK, Flags
<1>2. LeaderInv
  BY DEF LeaderInv
<1>3. VoteInv
  BY DEF VoteInv, Voters
<1>4. FlagInv
  BY DEF FlagInv
<1>5. DecisionInv
  BY DEF DecisionInv, Decided
<1> QED
  BY <1>1, <1>2, <1>3, <1>4, <1>5 DEF IInv

(* Every action keeps the variables in their types.                        *)
LEMMA NextTypeOK == IInv /\ Next => TypeOK'
<1> SUFFICES ASSUME TypeOK, VoteInv, Next PROVE TypeOK'
  BY DEF IInv
<1> USE DEF TypeOK, Flags
<1>1. CASE Finish
  BY <1>1 DEF Finish, LL!Finish
<1>2. ASSUME NEW p \in Party, Lock(p) PROVE TypeOK'
  BY <1>2 DEF Lock, LL!LockLeader
<1>3. ASSUME NEW p \in Party, ShortCut(p) PROVE TypeOK'
  BY <1>3 DEF ShortCut, Leave
<1>4. ASSUME NEW p \in Party, PreVote(p) PROVE TypeOK'
  BY <1>4 DEF PreVote, LL!PreVote
<1>5. ASSUME NEW p \in Party, ResultYes(p) PROVE TypeOK'
  BY <1>5 DEF ResultYes, Leave, EndHandler
<1>6. ASSUME NEW p \in Party, ResultNext(p) PROVE TypeOK'
  BY <1>6 DEF ResultNext, Leave
<1>7. ASSUME NEW p \in Party, TakeHalt(p) PROVE TypeOK'
  BY <1>7 DEF TakeHalt, EndHandler
<1>8. ASSUME NEW p \in Party, OtherRoundReturns(p) PROVE TypeOK'
  BY <1>8 DEF OtherRoundReturns, EndHandler
<1>9. ASSUME NEW p \in Party, NEW j \in Party, HandleYes(p, j) PROVE TypeOK'
  BY <1>9 DEF HandleYes, Voters, VoteInv
<1>10. ASSUME NEW p \in Party, NEW j \in Party, HandleNo(p, j) PROVE TypeOK'
  BY <1>10 DEF HandleNo, Voters, VoteInv
<1>11. ASSUME NEW p \in Party, NEW v \in {"yes", "no"}, Vote(p, v)
       PROVE  TypeOK'
  BY <1>11 DEF Vote
<1> QED
  BY <1>1, <1>2, <1>3, <1>4, <1>5, <1>6, <1>7, <1>8, <1>9, <1>10, <1>11,
     NextCases

-----------------------------------------------------------------------------
(***************************************************************************)
(* Votes and PreVotes are never withdrawn and locks never dropped.         *)
(***************************************************************************)
LEMMA Monotone ==
  ASSUME TypeOK, Next
  PROVE  /\ locked \subseteq locked'
         /\ finished => finished'
         /\ \A v \in {"yes", "no"} : /\ PreVoters(v) \subseteq PreVoters(v)'
                                     /\ Voters(v) \subseteq Voters(v)'
<1> USE DEF TypeOK, PreVoters, Voters
<1>1. CASE UNCHANGED <<locked, finished, preVote, vote>>
  BY <1>1
<1>2. CASE Finish
  BY <1>2 DEF Finish, LL!Finish
<1>3. ASSUME NEW p \in Party, Lock(p) \/ PreVote(p)
      PROVE  /\ locked \subseteq locked'
             /\ finished => finished'
             /\ \A v \in {"yes", "no"} :
                  PreVoters(v) \subseteq PreVoters(v)'
                  /\ Voters(v) \subseteq Voters(v)'
  BY <1>3 DEF Lock, LL!LockLeader, PreVote, LL!PreVote
<1>4. ASSUME NEW p \in Party, NEW w \in {"yes", "no"}, Vote(p, w)
      PROVE  /\ locked \subseteq locked'
             /\ finished => finished'
             /\ \A v \in {"yes", "no"} :
                  PreVoters(v) \subseteq PreVoters(v)'
                  /\ Voters(v) \subseteq Voters(v)'
  BY <1>4 DEF Vote
<1>5. ASSUME ~ Finish, \A p \in Party : ~ Lock(p) /\ ~ PreVote(p),
             \A p \in Party, v \in {"yes", "no"} : ~ Vote(p, v)
      PROVE  UNCHANGED <<locked, finished, preVote, vote>>
  BY <1>5, NextCases
     DEF ShortCut, ResultYes, ResultNext, TakeHalt, OtherRoundReturns,
         HandleYes, HandleNo
<1> QED
  BY <1>1, <1>2, <1>3, <1>4, <1>5

(* A quorum of Votes or PreVotes stays one.                                *)
LEMMA QuorumsStay ==
  ASSUME TypeOK, Next, NEW v \in {"yes", "no"}
  PROVE  /\ IsQuorum(PreVoters(v)) => IsQuorum(PreVoters(v)')
         /\ IsQuorum(Voters(v)) => IsQuorum(Voters(v)')
<1>1. /\ PreVoters(v) \in SUBSET Party /\ PreVoters(v)' \in SUBSET Party
      /\ Voters(v) \in SUBSET Party /\ Voters(v)' \in SUBSET Party
  BY DEF PreVoters, Voters
<1> QED
  BY <1>1, Monotone, QuorumGrows

(* The leader's lock: as in LeaderLock.                                    *)
LEMMA NextLeaderInv == IInv /\ Next => LeaderInv'
<1> SUFFICES ASSUME IInv, Next PROVE LeaderInv'
  OBVIOUS
<1> USE DEF IInv, TypeOK, LeaderInv
<1>1. CASE UNCHANGED <<locked, finished, preVote>>
  BY <1>1
<1>2. CASE Finish
  BY <1>2 DEF Finish, LL!Finish, LL!IsQuorum, IsQuorum,
              LL!Cardinality, Cardinality
<1>3. ASSUME NEW p \in Party, Lock(p) PROVE LeaderInv'
  <2>1. /\ preVote[p] = "none" /\ preVote' = preVote
        /\ finished' = finished /\ locked' = locked \cup {p}
    BY <1>3 DEF Lock, LL!LockLeader
  <2>2. finished' => IsQuorum(locked')
    BY <2>1, QuorumGrows
  <2> QED
    BY <2>1, <2>2
<1>4. ASSUME NEW p \in Party, PreVote(p) PROVE LeaderInv'
  BY <1>4 DEF PreVote, LL!PreVote
<1>5. ASSUME ~ Finish, \A p \in Party : ~ Lock(p) /\ ~ PreVote(p)
      PROVE  UNCHANGED <<locked, finished, preVote>>
  BY <1>5, NextCases
     DEF ShortCut, ResultYes, ResultNext, TakeHalt, OtherRoundReturns,
         HandleYes, HandleNo, Vote
<1> QED
  BY <1>1, <1>2, <1>3, <1>4, <1>5

(* Votes: a no Vote is cast on 2F+1 no PreVotes.                           *)
LEMMA NextVoteInv == IInv /\ Next => VoteInv'
<1> SUFFICES ASSUME IInv, Next PROVE VoteInv'
  OBVIOUS
<1> USE DEF IInv, TypeOK, VoteInv
<1>1. IsQuorum(PreVoters("no")) => IsQuorum(PreVoters("no")')
  BY QuorumsStay
<1>2. /\ Voters("yes") \subseteq Voters("yes")'
      /\ Voters("no") \subseteq Voters("no")'
  BY Monotone
<1>3. ASSUME vote' # vote
      PROVE  Voters("no")' # {} => IsQuorum(PreVoters("no"))
  <2>1. PICK p \in Party, v \in {"yes", "no"} : Vote(p, v)
    BY <1>3, NextCases
       DEF Finish, Lock, PreVote, ShortCut, ResultYes, ResultNext, TakeHalt,
           OtherRoundReturns, HandleYes, HandleNo
  <2>2. CASE v = "no"
    BY <2>1, <2>2 DEF Vote, CanVote
  <2>3. CASE v = "yes"
    BY <2>1, <2>3 DEF Vote, Voters
  <2> QED
    BY <2>1, <2>2, <2>3
<1>4. Voters("no")' # {} => IsQuorum(PreVoters("no"))
  BY <1>3 DEF Voters
<1>5. \A q \in Party : /\ VYr'[q] \subseteq Voters("yes")
                       /\ VNr'[q] \subseteq Voters("no")
  <2>2. ASSUME NEW p \in Party, NEW j \in Party,
               HandleYes(p, j) \/ HandleNo(p, j)
        PROVE  \A q \in Party : /\ VYr'[q] \subseteq Voters("yes")
                                /\ VNr'[q] \subseteq Voters("no")
    BY <2>2 DEF HandleYes, HandleNo
  <2>3. ASSUME \A p, j \in Party : ~ HandleYes(p, j) /\ ~ HandleNo(p, j),
               NEW q \in Party
        PROVE  /\ VYr'[q] \subseteq Voters("yes")
               /\ VNr'[q] \subseteq Voters("no")
    BY <2>3, HandlersKept DEF KeptOrEnded
  <2> QED
    BY <2>2, <2>3
<1> QED
  BY <1>1, <1>2, <1>4, <1>5

(* Only a party's own MainProcess changes how it left.                     *)
LEMMA OutcomeChange ==
  ASSUME TypeOK, Next, NEW q \in Party, outcome'[q] # outcome[q]
  PROVE  ShortCut(q) \/ ResultYes(q) \/ ResultNext(q) \/ TakeHalt(q)
<1>1. PICK p \in Party :
        ShortCut(p) \/ ResultYes(p) \/ ResultNext(p) \/ TakeHalt(p)
  BY NextCases
     DEF Finish, Lock, PreVote, OtherRoundReturns, HandleYes, HandleNo, Vote
<1>2. \E how : outcome' = [outcome EXCEPT ![p] = how]
  BY <1>1 DEF ShortCut, ResultYes, ResultNext, TakeHalt, Leave
<1>3. p = q
  BY <1>2 DEF TypeOK
<1> QED
  BY <1>1, <1>3

(* Flags and the way a party leaves.                                       *)
LEMMA NextFlagInv == IInv /\ Next => FlagInv'
<1> SUFFICES ASSUME IInv, Next PROVE FlagInv'
  OBVIOUS
<1> USE DEF IInv, TypeOK, FlagInv
<1>1. IsQuorum(Voters("no")) => IsQuorum(Voters("no")')
  BY QuorumsStay
<1>2. \A q \in Party : /\ voteFlag'[q] = "yes" => IsQuorum(VYr'[q])
                       /\ voteFlag'[q] = "no" => IsQuorum(VNr'[q])
  <2>2. ASSUME NEW p \in Party, NEW j \in Party, HandleYes(p, j)
        PROVE  \A q \in Party : /\ voteFlag'[q] = "yes" => IsQuorum(VYr'[q])
                                /\ voteFlag'[q] = "no" => IsQuorum(VNr'[q])
    BY <2>2 DEF HandleYes
  <2>3. ASSUME NEW p \in Party, NEW j \in Party, HandleNo(p, j)
        PROVE  \A q \in Party : /\ voteFlag'[q] = "yes" => IsQuorum(VYr'[q])
                                /\ voteFlag'[q] = "no" => IsQuorum(VNr'[q])
    BY <2>3 DEF HandleNo
  <2>4. ASSUME \A p, j \in Party : ~ HandleYes(p, j) /\ ~ HandleNo(p, j),
               NEW q \in Party
        PROVE  /\ voteFlag'[q] = "yes" => IsQuorum(VYr'[q])
               /\ voteFlag'[q] = "no" => IsQuorum(VNr'[q])
    BY <2>4, HandlersKept DEF KeptOrEnded
  <2> QED
    BY <2>2, <2>3, <2>4
<1>3. ASSUME NEW q \in Party, outcome'[q] = "no", outcome[q] # "no"
      PROVE  IsQuorum(Voters("no"))
  <2>1. ResultNext(q) /\ voteFlag[q] = "no"
    BY <1>3, OutcomeChange
       DEF ShortCut, ResultYes, ResultNext, TakeHalt, Leave
  <2>2. IsQuorum(VNr[q]) /\ VNr[q] \subseteq Voters("no")
    BY <2>1 DEF VoteInv
  <2> QED
    BY <2>2, QuorumGrows DEF Voters
<1>4. \A q \in Party : outcome'[q] = "no" => IsQuorum(Voters("no")')
  BY <1>1, <1>3
<1> QED
  BY <1>2, <1>4

(* Decisions go back to a Finish or to 2F+1 yes Votes.                     *)
LEMMA NextDecisionInv == IInv /\ Next => DecisionInv'
<1> SUFFICES ASSUME IInv, Next PROVE DecisionInv'
  OBVIOUS
<1> USE DEF IInv, TypeOK, DecisionInv
<1>1. Decidable => Decidable'
  BY Monotone, QuorumsStay DEF Decidable
<1>2. ASSUME NEW p \in Party, ResultYes(p) PROVE Decidable
  <2>1. IsQuorum(VYr[p]) /\ VYr[p] \subseteq Voters("yes")
    BY <1>2 DEF ResultYes, FlagInv, VoteInv
  <2> QED
    BY <2>1, QuorumGrows DEF Decidable, Voters
<1>3. ASSUME halt' # halt PROVE Decidable
  BY <1>2, <1>3, NextCases
     DEF Finish, Lock, PreVote, ShortCut, ResultNext, TakeHalt,
         OtherRoundReturns, HandleYes, HandleNo, Vote, Decidable
<1>4. ASSUME NEW q \in Party, Decided(q)', ~ Decided(q) PROVE Decidable
  <2>1. outcome'[q] # outcome[q]
    BY <1>4 DEF Decided
  <2>2. ShortCut(q) \/ ResultYes(q) \/ ResultNext(q) \/ TakeHalt(q)
    BY <2>1, OutcomeChange
  <2>3. CASE ShortCut(q)
    BY <2>3 DEF ShortCut, Decidable
  <2>4. CASE ResultNext(q)
    BY <1>4, <2>4 DEF ResultNext, Leave, Decided
  <2>5. CASE TakeHalt(q)
    BY <2>5 DEF TakeHalt
  <2> QED
    BY <1>2, <2>2, <2>3, <2>4, <2>5
<1>5. halt' # {} => Decidable
  BY <1>3
<1>6. \A q \in Party : Decided(q)' => Decidable
  BY <1>4
<1> QED
  BY <1>1, <1>5, <1>6

(* A step that changes nothing.                                            *)
LEMMA Stutter == IInv /\ UNCHANGED vars => IInv'
BY DEF vars, IInv, TypeOK, LeaderInv, VoteInv, FlagInv, DecisionInv,
       Decidable, Decided, PreVoters, Voters

(* The invariant holds of every behaviour.                                 *)
THEOREM Inductive == Spec => []IInv
<1>1. IInv /\ [Next]_vars => IInv'
  BY NextTypeOK, NextLeaderInv, NextVoteInv, NextFlagInv, NextDecisionInv,
     Stutter DEF IInv
<1> QED
  BY InitIInv, <1>1, PTL DEF Spec

-----------------------------------------------------------------------------
(***************************************************************************)
(* A round that 2F+1 no Votes were cast in cannot be decided.              *)
(***************************************************************************)
LEMMA NoVotesExcludeDecision ==
  ASSUME IInv, IsQuorum(Voters("no"))
  PROVE  ~ IsQuorum(locked) /\ ~ Decidable
<1> USE DEF IInv
<1>1. /\ Voters("no") \in SUBSET Party /\ Voters("yes") \in SUBSET Party
      /\ PreVoters("no") \in SUBSET Party /\ locked \in SUBSET Party
  BY DEF Voters, PreVoters, TypeOK
<1>2. IsQuorum(PreVoters("no"))
  BY <1>1, QuorumNonEmpty DEF VoteInv
<1>3. PreVoters("no") \cap locked = {}
  BY DEF PreVoters, LeaderInv
<1>4. Voters("no") \cap Voters("yes") = {}
  BY DEF Voters
<1>5. ~ IsQuorum(locked)
  BY <1>1, <1>2, <1>3, QuorumsIntersect
<1>6. ~ IsQuorum(Voters("yes"))
  BY <1>1, <1>4, QuorumsIntersect
<1> QED
  BY <1>5, <1>6 DEF Decidable, LeaderInv

(* The invariant gives DecideExcludesNo.                                   *)
LEMMA IInvDecideExcludesNo == IInv => DecideExcludesNo
<1> SUFFICES ASSUME IInv, NEW p \in Party, Decided(p),
                    NEW q \in Party, outcome[q] = "no"
             PROVE  FALSE
  BY DEF DecideExcludesNo
<1>1. IsQuorum(Voters("no")) /\ Decidable
  BY DEF IInv, FlagInv, DecisionInv
<1> QED
  BY <1>1, NoVotesExcludeDecision

(***************************************************************************)
(* TypeOK holds of every behaviour.                                        *)
(***************************************************************************)
THEOREM TypeCorrect == Spec => []TypeOK
BY Inductive, PTL DEF IInv

(***************************************************************************)
(* A round that some party decides in is left with No by none: whoever     *)
(* goes on takes the leader's value along.                                 *)
(***************************************************************************)
THEOREM DecideExcludesNoAlways == Spec => []DecideExcludesNo
BY Inductive, IInvDecideExcludesNo, PTL

(***************************************************************************)
(* Once some party has left with No, neither a Finish nor a Halt nor a     *)
(* quorum of yes Votes can come.                                           *)
(***************************************************************************)
THEOREM NoIsFinalAlways == Spec => NoIsFinal
<1> DEFINE Final == (\E p \in Party : outcome[p] = "no") =>
                      /\ UNCHANGED <<finished, halt>>
                      /\ \A p \in Party : voteFlag'[p] # "yes"
<1>1. IInv /\ IInv' /\ [Next]_vars => [Final]_vars
  <2> SUFFICES ASSUME IInv, IInv', Next, NEW p \in Party, outcome[p] = "no"
               PROVE  /\ UNCHANGED <<finished, halt>>
                      /\ \A q \in Party : voteFlag'[q] # "yes"
    OBVIOUS
  <2>1. IsQuorum(Voters("no"))
    BY DEF IInv, FlagInv
  <2>2. ~ IsQuorum(locked) /\ ~ Decidable
    BY <2>1, NoVotesExcludeDecision
  <2>3. IsQuorum(Voters("no")')
    BY <2>1, QuorumsStay DEF IInv
  <2>4. ~ IsQuorum(Voters("yes")')
    <3>1. Voters("no")' \in SUBSET Party /\ Voters("yes")' \in SUBSET Party
      BY DEF Voters
    <3>2. Voters("no")' \cap Voters("yes")' = {}
      BY DEF Voters
    <3> QED
      BY <2>3, <3>1, <3>2, QuorumsIntersect
  <2>5. \A q \in Party : voteFlag'[q] # "yes"
    <3> SUFFICES ASSUME NEW q \in Party, voteFlag'[q] = "yes" PROVE FALSE
      OBVIOUS
    <3>1. IsQuorum(VYr'[q]) /\ VYr'[q] \subseteq Voters("yes")'
      BY DEF IInv, FlagInv, VoteInv
    <3>2. VYr'[q] \in SUBSET Party /\ Voters("yes")' \in SUBSET Party
      BY DEF IInv, TypeOK, Voters
    <3> QED
      BY <2>4, <3>1, <3>2, QuorumGrows
  <2>6. ~ Finish
    BY <2>2 DEF Finish, LL!Finish, LL!IsQuorum, IsQuorum,
                LL!Cardinality, Cardinality
  <2>7. \A q \in Party : ~ ShortCut(q) /\ ~ ResultYes(q)
    <3>1. \A q \in Party : voteFlag[q] # "yes"
      <4> SUFFICES ASSUME NEW q \in Party, voteFlag[q] = "yes" PROVE FALSE
        OBVIOUS
      <4>1. IsQuorum(VYr[q]) /\ VYr[q] \subseteq Voters("yes")
        BY DEF IInv, FlagInv, VoteInv
      <4>2. VYr[q] \in SUBSET Party /\ Voters("yes") \in SUBSET Party
        BY DEF IInv, TypeOK, Voters
      <4> QED
        BY <2>2, <4>1, <4>2, QuorumGrows DEF Decidable
    <3> QED
      BY <2>2, <3>1 DEF ShortCut, ResultYes, Decidable
  <2>8. UNCHANGED <<finished, halt>>
    BY <2>6, <2>7, NextCases
       DEF Lock, LL!LockLeader, PreVote, LL!PreVote, ResultNext, TakeHalt,
           OtherRoundReturns, HandleYes, HandleNo, Vote
  <2> QED
    BY <2>5, <2>8
<1> QED
  BY Inductive, <1>1, PTL DEF Spec, NoIsFinal

-----------------------------------------------------------------------------
(***************************************************************************)
(* A round by itself, followed message by message, implements the first    *)
(* round of module SMVBA, which counts broadcasts.                         *)
(***************************************************************************)
CONSTANTS
  Value, None,  \* as in module SMVBA
  Own,          \* Own[p]: the value p enters the round with
  Elected       \* the leader

Entry ==
  /\ None \notin Value
  /\ Own \in [Party -> Value]
  /\ Elected \in Party

(* A party that has gone on is at the beginning of round 1, with this.     *)
GoneOn == {p \in Party : outcome[p] \in {"no", "other"}}

Carried(p) ==
  IF outcome[p] = "no" THEN Own[p]
  ELSE IF outcome[p] = "other" THEN Own[Elected] ELSE None

(* The variables of SMVBA; what the round does is its round 0.             *)
RoundOf == [p \in Party |-> IF p \in GoneOn THEN 1 ELSE 0]
MainOf == [p \in Party |-> IF main[p] = "next" THEN "select" ELSE main[p]]
LeaderOf == [r \in 0 .. 1 |-> Elected]
InputOf ==
  [r \in 0 .. 1 |-> IF r = 0 THEN Own ELSE [p \in Party |-> Carried(p)]]
LockedOf == [r \in 0 .. 1 |-> IF r = 0 THEN locked ELSE {}]
InRound(ballots) ==
  [r \in 0 .. 1 |-> IF r = 0 THEN ballots ELSE [p \in Party |-> "none"]]
PreVoteOf == InRound(preVote)
VoteOf == InRound(vote)
HaltOf == IF halt = {} THEN {} ELSE {0}
DecisionOf ==
  [p \in Party |-> IF main[p] = "returned" THEN Own[Elected] ELSE None]

S == INSTANCE SMVBA WITH
       Proposals <- {Own}, Leaders <- {LeaderOf}, MaxRound <- 1,
       round <- RoundOf, main <- MainOf, leader <- LeaderOf,
       input <- InputOf, locked <- LockedOf, preVote <- PreVoteOf,
       vote <- VoteOf, halt <- HaltOf, decision <- DecisionOf

ImplementsSMVBA == S!Spec

(***************************************************************************)
(* What it needs beyond IInv: a flag "other" has Votes of both kinds, and  *)
(* a party that is in the round has not left it.                           *)
(***************************************************************************)
OtherInv ==
  \A p \in Party : voteFlag[p] = "other" =>
    /\ VYr[p] # {} /\ VNr[p] # {}
    /\ IsQuorum(VYr[p] \cup VNr[p])

InsideInv ==
  \A p \in Party : main[p] \in {"select", "result"} => outcome[p] = "none"

AloneInv == IInv /\ OtherInv /\ InsideInv

LEMMA NextOtherInv == IInv /\ OtherInv /\ Next => OtherInv'
<1> SUFFICES ASSUME IInv, OtherInv, Next PROVE OtherInv'
  OBVIOUS
<1> USE DEF IInv, TypeOK, OtherInv
<1>2. ASSUME NEW p \in Party, NEW j \in Party, HandleYes(p, j)
      PROVE  OtherInv'
  <2> DEFINE yes == VYr[p] \cup {j}
  <2>1. /\ VYr' = [VYr EXCEPT ![p] = yes] /\ UNCHANGED VNr
        /\ voteFlag' = [voteFlag EXCEPT ![p] =
             IF IsQuorum(yes) THEN "yes"
             ELSE IF IsQuorum(yes \cup VNr[p]) THEN "other" ELSE "none"]
    BY <1>2 DEF HandleYes
  <2>2. voteFlag'[p] = "other" => VNr[p] # {} /\ IsQuorum(yes \cup VNr[p])
    <3>1. VNr[p] = {} => yes \cup VNr[p] = yes
      OBVIOUS
    <3> QED
      BY <2>1, <3>1
  <2> QED
    BY <2>1, <2>2
<1>3. ASSUME NEW p \in Party, NEW j \in Party, HandleNo(p, j)
      PROVE  OtherInv'
  BY <1>3 DEF HandleNo
<1>4. ASSUME \A p, j \in Party : ~ HandleYes(p, j) /\ ~ HandleNo(p, j)
      PROVE  OtherInv'
  BY <1>4, HandlersKept DEF KeptOrEnded
<1> QED
  BY <1>2, <1>3, <1>4

LEMMA NextInsideInv == IInv /\ InsideInv /\ Next => InsideInv'
<1> SUFFICES ASSUME IInv, InsideInv, Next PROVE InsideInv'
  OBVIOUS
<1> USE DEF IInv, TypeOK, InsideInv
<1>1. CASE UNCHANGED <<main, outcome>>
  BY <1>1
<1>2. ASSUME NEW p \in Party, PreVote(p) PROVE InsideInv'
  BY <1>2 DEF PreVote
<1>3. ASSUME NEW p \in Party,
             \/ ShortCut(p) \/ ResultYes(p) \/ ResultNext(p)
             \/ TakeHalt(p) \/ OtherRoundReturns(p)
      PROVE  InsideInv'
  <2>1. \A q \in Party \ {p} : main'[q] = main[q] /\ outcome'[q] = outcome[q]
    BY <1>3 DEF ShortCut, ResultYes, ResultNext, TakeHalt,
                OtherRoundReturns, Leave
  <2>2. main'[p] \in {"next", "returned"}
    BY <1>3 DEF ShortCut, ResultYes, ResultNext, TakeHalt,
                OtherRoundReturns, Leave
  <2> QED
    BY <2>1, <2>2
<1>4. ASSUME \A p \in Party :
               /\ ~ PreVote(p) /\ ~ ShortCut(p) /\ ~ ResultYes(p)
               /\ ~ ResultNext(p) /\ ~ TakeHalt(p) /\ ~ OtherRoundReturns(p)
      PROVE  UNCHANGED <<main, outcome>>
  BY <1>4, NextCases DEF Finish, Lock, HandleYes, HandleNo, Vote
<1> QED
  BY <1>1, <1>2, <1>3, <1>4

LEMMA AloneInductive == AloneSpec => []AloneInv
<1>1. Init => AloneInv
  BY InitIInv DEF Init, AloneInv, OtherInv, InsideInv
<1>2. AloneInv /\ [RoundStep]_vars => AloneInv'
  <2>1. CASE UNCHANGED vars
    BY <2>1, Stutter DEF AloneInv, vars, OtherInv, InsideInv
  <2>2. AloneInv /\ Next => AloneInv'
    BY NextTypeOK, NextLeaderInv, NextVoteInv, NextFlagInv, NextDecisionInv,
       NextOtherInv, NextInsideInv DEF AloneInv, IInv
  <2> QED
    BY <2>1, <2>2 DEF Next
<1> QED
  BY <1>1, <1>2, PTL DEF AloneSpec

-----------------------------------------------------------------------------
(* The two modules mean the same by a quorum.                              *)
LEMMA SameQuorum == \A Q : S!IsQuorum(Q) <=> IsQuorum(Q)
BY DEF S!IsQuorum, IsQuorum, S!Cardinality, Cardinality

(* What the operators of SMVBA say of round 0.                             *)
LEMMA RoundZero ==
  ASSUME Entry
  PROVE  /\ 0 \in S!Rounds
         /\ S!Entered(0) = Party
         /\ S!LeaderValue(0) = Own[Elected]
         /\ S!CanFinish(0) <=> IsQuorum(locked)
         /\ \A v : S!PreVoters(0, v) = PreVoters(v)
         /\ \A v : S!Voters(0, v) = Voters(v)
<1>1. 0 \in 0 .. 1 /\ 0 \in S!Rounds
  BY DEF S!Rounds
<1>2. /\ InputOf[0] = Own /\ LeaderOf[0] = Elected /\ LockedOf[0] = locked
      /\ PreVoteOf[0] = preVote /\ VoteOf[0] = vote
  BY <1>1 DEF InputOf, LeaderOf, LockedOf, PreVoteOf, VoteOf, InRound
<1>3. S!Entered(0) = Party
  BY <1>2 DEF S!Entered, Entry
<1> QED
  BY <1>1, <1>2, <1>3, SameQuorum
     DEF S!LeaderValue, S!CanFinish, S!PreVoters, S!Voters, PreVoters, Voters

(* The initial states of the round are initial states of SMVBA.            *)
LEMMA InitSMVBA == Entry /\ Init => S!Init
<1> SUFFICES ASSUME Entry, Init PROVE S!Init
  OBVIOUS
<1> USE DEF Init, LL!Init
<1>1. \A p \in Party : p \notin GoneOn /\ Carried(p) = None
  BY DEF GoneOn, Carried
<1>2. /\ RoundOf = [p \in Party |-> 0]
      /\ MainOf = [p \in Party |-> "select"]
      /\ DecisionOf = [p \in Party |-> None]
      /\ HaltOf = {}
  BY <1>1 DEF RoundOf, MainOf, DecisionOf, HaltOf
<1>3. InputOf = [r \in S!Rounds |->
                   IF r = 0 THEN Own ELSE [p \in Party |-> None]]
  BY <1>1 DEF InputOf, S!Rounds
<1>4. /\ LockedOf = [r \in S!Rounds |-> {}]
      /\ PreVoteOf = [r \in S!Rounds |-> [p \in Party |-> "none"]]
      /\ VoteOf = [r \in S!Rounds |-> [p \in Party |-> "none"]]
  BY DEF LockedOf, PreVoteOf, VoteOf, InRound, S!Rounds
<1> QED
  BY <1>2, <1>3, <1>4 DEF S!Init

(* Which variables of the round the variables of SMVBA depend on.          *)
LEMMA Same ==
  /\ UNCHANGED outcome => UNCHANGED <<RoundOf, InputOf>>
  /\ UNCHANGED main => UNCHANGED <<MainOf, DecisionOf>>
  /\ UNCHANGED locked => UNCHANGED LockedOf
  /\ UNCHANGED preVote => UNCHANGED PreVoteOf
  /\ UNCHANGED vote => UNCHANGED VoteOf
  /\ UNCHANGED halt => UNCHANGED HaltOf
  /\ UNCHANGED LeaderOf
BY DEF RoundOf, InputOf, GoneOn, Carried, MainOf, DecisionOf, LockedOf,
       PreVoteOf, VoteOf, InRound, HaltOf, LeaderOf

(* A party that is in the round is so in SMVBA.                            *)
LEMMA Inside ==
  ASSUME AloneInv, NEW p \in Party, main[p] \in {"select", "result"}
  PROVE  RoundOf[p] = 0 /\ MainOf[p] = main[p] /\ p \notin GoneOn
BY DEF AloneInv, InsideInv, RoundOf, GoneOn, MainOf

(* A decision and a Halt: p returns the leader's value from round 0.       *)
LEMMA Returns ==
  ASSUME TypeOK, NEW p \in Party,
         main' = [main EXCEPT ![p] = "returned"],
         \A q \in Party : /\ outcome'[q] \in {"no", "other"} <=>
                             outcome[q] \in {"no", "other"}
                          /\ outcome[q] \in {"no", "other"} =>
                             outcome'[q] = outcome[q]
  PROVE  /\ MainOf' = [MainOf EXCEPT ![p] = "returned"]
         /\ DecisionOf' = [DecisionOf EXCEPT ![p] = Own[Elected]]
         /\ UNCHANGED <<RoundOf, InputOf>>
<1>1. MainOf' = [MainOf EXCEPT ![p] = "returned"]
  BY DEF TypeOK, MainOf
<1>2. DecisionOf' = [DecisionOf EXCEPT ![p] = Own[Elected]]
  BY DEF TypeOK, DecisionOf
<1>3. \A q \in Party : /\ q \in GoneOn' <=> q \in GoneOn
                       /\ Carried(q)' = Carried(q)
  BY DEF GoneOn, Carried
<1>4. UNCHANGED <<RoundOf, InputOf>>
  BY <1>3 DEF RoundOf, InputOf
<1> QED
  BY <1>1, <1>2, <1>4

(* One step, action by action.                                             *)
LEMMA LockStep ==
  ASSUME Entry, AloneInv, NEW p \in Party, Lock(p)
  PROVE  S!Lock(p, 0)
<1>1. /\ preVote[p] = "none" /\ locked' = locked \cup {p}
      /\ UNCHANGED <<finished, preVote, vote, halt, main, outcome>>
  BY DEF Lock, LL!LockLeader
<1>2. LockedOf' = [LockedOf EXCEPT ![0] = LockedOf[0] \cup {p}]
  BY <1>1 DEF LockedOf
<1>3. PreVoteOf[0][p] = "none" /\ LeaderOf[0] \in Party
  BY <1>1 DEF PreVoteOf, InRound, LeaderOf, Entry
<1> QED
  BY <1>1, <1>2, <1>3, RoundZero, Same DEF S!Lock

LEMMA ShortCutStep ==
  ASSUME Entry, AloneInv, NEW p \in Party, ShortCut(p)
  PROVE  S!ShortCut(p)
<1> USE DEF AloneInv, IInv
<1>1. /\ main[p] = "select" /\ finished /\ halt' = halt \cup {p}
      /\ main' = [main EXCEPT ![p] = "returned"]
      /\ outcome' = [outcome EXCEPT ![p] = "shortCut"]
      /\ UNCHANGED <<locked, preVote, vote>>
  BY DEF ShortCut, Leave
<1>2. RoundOf[p] = 0 /\ MainOf[p] = "select" /\ outcome[p] = "none"
  BY <1>1, Inside DEF InsideInv
<1>3. /\ MainOf' = [MainOf EXCEPT ![p] = "returned"]
      /\ DecisionOf' = [DecisionOf EXCEPT ![p] = Own[Elected]]
      /\ UNCHANGED <<RoundOf, InputOf>>
  BY <1>1, <1>2, Returns DEF TypeOK
<1>4. HaltOf' = HaltOf \cup {0}
  BY <1>1 DEF HaltOf
<1>5. S!CanFinish(0)
  BY <1>1, RoundZero DEF LeaderInv
<1> QED
  BY <1>1, <1>2, <1>3, <1>4, <1>5, RoundZero, Same DEF S!ShortCut, S!Return

LEMMA PreVoteStep ==
  ASSUME Entry, AloneInv, NEW p \in Party, PreVote(p)
  PROVE  S!PreVote(p)
<1> USE DEF AloneInv, IInv
<1>1. /\ main[p] = "select" /\ preVote[p] = "none"
      /\ preVote' = [preVote EXCEPT ![p] = IF p \in locked THEN "yes" ELSE "no"]
      /\ main' = [main EXCEPT ![p] = "result"]
      /\ UNCHANGED <<locked, vote, halt, outcome>>
  BY DEF PreVote, LL!PreVote
<1>2. RoundOf[p] = 0 /\ MainOf[p] = "select"
  BY <1>1, Inside
<1>3. /\ MainOf' = [MainOf EXCEPT ![p] = "result"]
      /\ UNCHANGED DecisionOf
  BY <1>1 DEF TypeOK, MainOf, DecisionOf
<1>4. PreVoteOf' = [PreVoteOf EXCEPT ![0][p] =
                      IF p \in LockedOf[0] THEN "yes" ELSE "no"]
  BY <1>1 DEF TypeOK, PreVoteOf, InRound, LockedOf
<1>5. S!IsQuorum(S!Entered(0))
  <2>1. IsQuorum(Party)
    BY PartyAssumption DEF IsQuorum, N
  <2> QED
    BY <2>1, RoundZero, SameQuorum
<1> QED
  BY <1>1, <1>2, <1>3, <1>4, <1>5, Same DEF S!PreVote

LEMMA VoteStep ==
  ASSUME Entry, AloneInv, NEW p \in Party, NEW v \in {"yes", "no"}, Vote(p, v)
  PROVE  S!Vote(p, 0, v)
<1> USE DEF AloneInv, IInv
<1>1. /\ preVote[p] # "none" /\ vote[p] = "none" /\ CanVote(v)
      /\ vote' = [vote EXCEPT ![p] = v]
      /\ UNCHANGED <<locked, preVote, halt, main, outcome>>
  BY DEF Vote
<1>2. PreVoteOf[0][p] # "none" /\ VoteOf[0][p] = "none"
  BY <1>1 DEF VoteOf, PreVoteOf, InRound
<1>4. VoteOf' = [VoteOf EXCEPT ![0][p] = v]
  BY <1>1 DEF TypeOK, VoteOf, InRound
<1>3. \/ v = "yes" /\ S!PreVoters(0, "yes") # {}
      \/ v = "no" /\ S!IsQuorum(S!PreVoters(0, "no"))
  BY <1>1, RoundZero, SameQuorum DEF CanVote
<1> QED
  BY <1>1, <1>2, <1>3, <1>4, Same DEF S!Vote

LEMMA ResultYesStep ==
  ASSUME Entry, AloneInv, NEW p \in Party, ResultYes(p)
  PROVE  S!ResultYes(p)
<1> USE DEF AloneInv, IInv
<1>1. /\ main[p] = "result" /\ voteFlag[p] = "yes" /\ halt' = halt \cup {p}
      /\ main' = [main EXCEPT ![p] = "returned"]
      /\ outcome' = [outcome EXCEPT ![p] = "yes"]
      /\ UNCHANGED <<locked, preVote, vote>>
  BY DEF ResultYes, Leave
<1>2. RoundOf[p] = 0 /\ MainOf[p] = "result" /\ outcome[p] = "none"
  BY <1>1, Inside DEF InsideInv
<1>3. /\ MainOf' = [MainOf EXCEPT ![p] = "returned"]
      /\ DecisionOf' = [DecisionOf EXCEPT ![p] = Own[Elected]]
      /\ UNCHANGED <<RoundOf, InputOf>>
  BY <1>1, <1>2, Returns DEF TypeOK
<1>4. HaltOf' = HaltOf \cup {0}
  BY <1>1 DEF HaltOf
<1>5. S!IsQuorum(S!Voters(0, "yes"))
  <2>1. IsQuorum(VYr[p]) /\ VYr[p] \subseteq Voters("yes")
    BY <1>1 DEF FlagInv, VoteInv
  <2>2. IsQuorum(Voters("yes"))
    BY <2>1, QuorumGrows DEF Voters
  <2> QED
    BY <2>2, RoundZero, SameQuorum
<1> QED
  BY <1>1, <1>2, <1>3, <1>4, <1>5, RoundZero, Same DEF S!ResultYes, S!Return

LEMMA ResultNextStep ==
  ASSUME Entry, AloneInv, NEW p \in Party, ResultNext(p)
  PROVE  S!ResultNo(p) \/ S!ResultOther(p)
<1> USE DEF AloneInv, IInv
<1> DEFINE value == IF voteFlag[p] = "no" THEN Own[p] ELSE Own[Elected]
<1>1. /\ main[p] = "result" /\ voteFlag[p] \in {"no", "other"}
      /\ main' = [main EXCEPT ![p] = "next"]
      /\ outcome' = [outcome EXCEPT ![p] = voteFlag[p]]
      /\ UNCHANGED <<locked, preVote, vote, halt>>
  BY DEF ResultNext, Leave
<1>2. RoundOf[p] = 0 /\ MainOf[p] = "result" /\ InputOf[0][p] = Own[p]
  BY <1>1, Inside DEF InputOf
<1>3. /\ MainOf' = [MainOf EXCEPT ![p] = "select"]
      /\ UNCHANGED DecisionOf
  BY <1>1 DEF TypeOK, MainOf, DecisionOf
<1>4. RoundOf' = [RoundOf EXCEPT ![p] = 1]
  BY <1>1 DEF TypeOK, RoundOf, GoneOn
<1>5. InputOf' = [InputOf EXCEPT ![1][p] = value]
  <2>1. Carried(p)' = value
    BY <1>1 DEF TypeOK, Carried
  <2>2. \A q \in Party \ {p} : Carried(q)' = Carried(q)
    BY <1>1 DEF TypeOK, Carried
  <2>3. [q \in Party |-> Carried(q)'] =
          [[q \in Party |-> Carried(q)] EXCEPT ![p] = value]
    BY <2>1, <2>2
  <2> DEFINE now == [q \in Party |-> Carried(q)]
             then == [q \in Party |-> Carried(q)']
  <2>4. /\ InputOf = [r \in 0 .. 1 |-> IF r = 0 THEN Own ELSE now]
        /\ InputOf' = [r \in 0 .. 1 |-> IF r = 0 THEN Own ELSE then]
    BY DEF InputOf
  <2>5. then = [now EXCEPT ![p] = value]
    BY <2>3
  <2> HIDE DEF now, then, value
  <2> QED
    BY <2>4, <2>5
<1>6. S!NextRound(p, value)
  BY <1>1, <1>2, <1>3, <1>4, <1>5, Same DEF S!NextRound
<1>7. /\ VYr[p] \subseteq Voters("yes") /\ VNr[p] \subseteq Voters("no")
      /\ Voters("yes") \subseteq Party /\ Voters("no") \subseteq Party
  BY DEF VoteInv, Voters
<1>8. CASE voteFlag[p] = "no"
  <2>1. IsQuorum(Voters("no"))
    BY <1>7, <1>8, QuorumGrows DEF FlagInv
  <2> QED
    BY <1>2, <1>6, <1>8, <2>1, RoundZero, SameQuorum DEF S!ResultNo
<1>9. CASE voteFlag[p] = "other"
  <2>1. /\ VYr[p] # {} /\ VNr[p] # {} /\ IsQuorum(VYr[p] \cup VNr[p])
    BY <1>9 DEF OtherInv
  <2>2. IsQuorum(Voters("yes") \cup Voters("no"))
    BY <1>7, <2>1, QuorumGrows
  <2>3. Voters("yes") # {} /\ Voters("no") # {}
    BY <1>7, <2>1
  <2> QED
    BY <1>2, <1>6, <1>9, <2>2, <2>3, RoundZero, SameQuorum DEF S!ResultOther
<1> QED
  BY <1>1, <1>8, <1>9

LEMMA TakeHaltStep ==
  ASSUME Entry, AloneInv, NEW p \in Party, TakeHalt(p)
  PROVE  S!TakeHalt(p, 0)
<1> USE DEF AloneInv, IInv
<1>1. /\ main[p] # "returned" /\ halt # {}
      /\ main' = [main EXCEPT ![p] = "returned"]
      /\ outcome' = [outcome EXCEPT ![p] =
           IF outcome[p] = "none" THEN "halt" ELSE outcome[p]]
      /\ UNCHANGED <<locked, preVote, vote, halt>>
  BY DEF TakeHalt
<1>2. /\ MainOf' = [MainOf EXCEPT ![p] = "returned"]
      /\ DecisionOf' = [DecisionOf EXCEPT ![p] = Own[Elected]]
      /\ UNCHANGED <<RoundOf, InputOf>>
  BY <1>1, Returns DEF TypeOK
<1>3. MainOf[p] # "returned" /\ 0 \in HaltOf /\ 0 <= RoundOf[p]
  BY <1>1 DEF MainOf, HaltOf, RoundOf
<1> QED
  BY <1>1, <1>2, <1>3, RoundZero, Same DEF S!TakeHalt, S!Return

(* Every step of the round is a step of SMVBA, or none of its business:    *)
(* Finish and the Vote handlers do not show there.                         *)
LEMMA NextSMVBA ==
  ASSUME Entry, AloneInv, RoundStep
  PROVE  [S!Next]_S!vars
<1>1. ASSUME UNCHANGED <<locked, preVote, vote, halt, main, outcome>>
      PROVE  UNCHANGED S!vars
  BY <1>1, Same DEF S!vars
<1>2. CASE Finish
  BY <1>1, <1>2 DEF Finish, LL!Finish
<1>3. ASSUME NEW p \in Party, NEW j \in Party,
             HandleYes(p, j) \/ HandleNo(p, j)
      PROVE  UNCHANGED S!vars
  BY <1>1, <1>3 DEF HandleYes, HandleNo
<1>4. ASSUME NEW p \in Party, S!PartyStep(p) PROVE S!Next
  BY <1>4 DEF S!Next
<1>5. 0 \in S!Rounds
  BY RoundZero
<1>6. ASSUME NEW p \in Party,
             \/ Lock(p) \/ ShortCut(p) \/ PreVote(p) \/ ResultYes(p)
             \/ ResultNext(p) \/ TakeHalt(p)
             \/ \E v \in {"yes", "no"} : Vote(p, v)
      PROVE  S!PartyStep(p)
  BY <1>5, <1>6, LockStep, ShortCutStep, PreVoteStep, ResultYesStep,
     ResultNextStep, TakeHaltStep, VoteStep DEF S!PartyStep
<1>7. \/ Finish
      \/ \E p \in Party :
           \/ Lock(p) \/ ShortCut(p) \/ PreVote(p) \/ ResultYes(p)
           \/ ResultNext(p) \/ TakeHalt(p)
           \/ \E v \in {"yes", "no"} : Vote(p, v)
           \/ \E j \in Party : HandleYes(p, j) \/ HandleNo(p, j)
  BY RoundAssumption DEF RoundStep, Step, MainStep, HandleVote, CastVote
<1> QED
  BY <1>2, <1>3, <1>4, <1>6, <1>7

(***************************************************************************)
(* With messages counted one by one, in any order and each party at its    *)
(* own pace, a round does nothing that SMVBA's round does not, whatever    *)
(* values the parties enter it with and whoever leads it.                  *)
(***************************************************************************)
THEOREM RoundImplementsSMVBA == Entry /\ AloneSpec => ImplementsSMVBA
<1>1. Entry /\ [RoundStep]_vars => Entry'
  OBVIOUS
<1>2. Entry /\ AloneInv /\ [RoundStep]_vars => [S!Next]_S!vars
  <2>1. CASE UNCHANGED vars
    BY <2>1, Same DEF vars, S!vars
  <2> QED
    BY <2>1, NextSMVBA
<1> QED
  BY InitSMVBA, AloneInductive, <1>1, <1>2, PTL
     DEF AloneSpec, ImplementsSMVBA, S!Spec
-----------------------------------------------------------------------------
(***************************************************************************)
(* Where the round can come to rest.  Liveness itself is TLC's; what it    *)
(* rests on is a fact about states, proved here for any number of parties. *)
(***************************************************************************)

(* No fair action of p has anything to do.                                 *)
Idle(p) ==
  /\ main[p] # "select"
  /\ main[p] # "returned" =>
       /\ halt = {}
       /\ preVote[p] # "none" /\ vote[p] = "none" =>
            \A v \in {"yes", "no"} : ~ CanVote(v)
  /\ main[p] = "result" =>
       /\ voteFlag[p] = "none"
       /\ Voters("yes") \subseteq VYr[p] /\ Voters("no") \subseteq VNr[p]

(* A party past the first select has its PreVote out, and a handler that   *)
(* has raised no flag has no quorum of either kind.                        *)
PlaceInv ==
  \A p \in Party :
    /\ main[p] \in {"result", "next"} => preVote[p] # "none"
    /\ voteFlag[p] = "none" => ~ IsQuorum(VYr[p]) /\ ~ IsQuorum(VNr[p])

(* PreVotes stay; flags come with the quorums that raise them.             *)
LEMMA NextPlaceInv == TypeOK /\ PlaceInv /\ [Next]_vars => PlaceInv'
<1> SUFFICES ASSUME TypeOK, PlaceInv, Next, NEW q \in Party
             PROVE  /\ main'[q] \in {"result", "next"} => preVote'[q] # "none"
                    /\ voteFlag'[q] = "none" =>
                         ~ IsQuorum(VYr'[q]) /\ ~ IsQuorum(VNr'[q])
  BY DEF vars, PlaceInv, IsQuorum
<1> USE DEF TypeOK, PlaceInv
<1>1. CASE UNCHANGED <<main, preVote, voteFlag, VYr, VNr>>
  BY <1>1
<1>2. CASE Finish
  BY <1>2, <1>1 DEF Finish, LL!Finish
<1>3. ASSUME NEW p \in Party, Lock(p) \/ \E v \in {"yes", "no"} : Vote(p, v)
      PROVE  UNCHANGED <<main, preVote, voteFlag, VYr, VNr>>
  BY <1>3 DEF Lock, LL!LockLeader, Vote
<1>4. ASSUME NEW p \in Party, PreVote(p)
      PROVE  /\ main'[q] \in {"result", "next"} => preVote'[q] # "none"
             /\ UNCHANGED <<voteFlag, VYr, VNr>>
  BY <1>4 DEF PreVote, LL!PreVote
<1>5. ASSUME NEW p \in Party,
             \/ ShortCut(p) \/ ResultYes(p) \/ ResultNext(p)
             \/ TakeHalt(p) \/ OtherRoundReturns(p)
      PROVE  /\ main'[q] \in {"result", "next"} => preVote'[q] # "none"
             /\ voteFlag'[q] = "none" =>
                  ~ IsQuorum(VYr'[q]) /\ ~ IsQuorum(VNr'[q])
  <2>1. main'[q] \in {"result", "next"} => preVote'[q] # "none"
    BY <1>5 DEF ShortCut, ResultYes, ResultNext, TakeHalt, OtherRoundReturns,
                Leave
  <2>2. ~ IsQuorum({})
    BY QuorumNonEmpty
  <2>3. CASE UNCHANGED <<VYr, VNr, voteFlag>>
    BY <2>1, <2>3
  <2>4. CASE EndHandler(p)
    BY <2>1, <2>2, <2>4 DEF EndHandler
  <2> QED
    BY <1>5, <2>3, <2>4
       DEF ShortCut, ResultYes, ResultNext, TakeHalt, OtherRoundReturns
<1>6. ASSUME NEW p \in Party, NEW j \in Party, HandleYes(p, j)
      PROVE  /\ UNCHANGED <<main, preVote>>
             /\ voteFlag'[q] = "none" =>
                  ~ IsQuorum(VYr'[q]) /\ ~ IsQuorum(VNr'[q])
  BY <1>6 DEF HandleYes
<1>7. ASSUME NEW p \in Party, NEW j \in Party, HandleNo(p, j)
      PROVE  /\ UNCHANGED <<main, preVote>>
             /\ voteFlag'[q] = "none" =>
                  ~ IsQuorum(VYr'[q]) /\ ~ IsQuorum(VNr'[q])
  BY <1>7 DEF HandleNo
<1> QED
  BY <1>1, <1>2, <1>3, <1>4, <1>5, <1>6, <1>7, NextCases

(* PlaceInv holds of every behaviour.                                      *)
LEMMA PlaceInvAlways == Spec => []PlaceInv
<1>1. Init => PlaceInv
  BY FS_EmptySet, PartyAssumption DEF Init, LL!Init, PlaceInv, IsQuorum
<1>2. Spec => []TypeOK
  BY TypeCorrect
<1> QED
  BY <1>1, <1>2, NextPlaceInv, PTL DEF Spec

(* Votes of one kind only, all of them taken, raise a flag.                *)
LEMMA UniformVotesRaise ==
  ASSUME IInv, PlaceInv, IsQuorum(Up), ~ Mixed,
         NEW p \in Party, Up \subseteq VYr[p] \cup VNr[p]
  PROVE  voteFlag[p] # "none"
<1>1. VYr[p] \subseteq Voters("yes") /\ VNr[p] \subseteq Voters("no")
  BY DEF IInv, VoteInv
<1>2. Up \subseteq VYr[p] \/ Up \subseteq VNr[p]
  BY <1>1 DEF Mixed
<1>3. VYr[p] \in SUBSET Party /\ VNr[p] \in SUBSET Party /\ Up \in SUBSET Party
  BY RoundAssumption DEF IInv, TypeOK
<1>4. IsQuorum(VYr[p]) \/ IsQuorum(VNr[p])
  BY <1>2, <1>3, QuorumGrows
<1> QED
  BY <1>4 DEF PlaceInv

(* Idle parties that no other round has ended have voted.                  *)
LEMMA IdleAllVoted ==
  ASSUME IInv, PlaceInv, IsQuorum(Up), \A p \in Up : Idle(p)
  PROVE  AllVoted
<1> SUFFICES ASSUME ~ EndedElsewhere, NEW p \in Up,
                    vote[p] = "none", main[p] # "returned"
             PROVE  FALSE
  BY DEF AllVoted
<1>1. halt = {}
  BY DEF Idle
<1>2. \A q \in Up : preVote[q] \in {"yes", "no"}
  BY <1>1, RoundAssumption
     DEF EndedElsewhere, Idle, IInv, TypeOK, PlaceInv
<1>3. PreVoters("yes") = {} /\ ~ IsQuorum(PreVoters("no"))
  BY <1>2 DEF Idle, CanVote
<1>4. Up \subseteq PreVoters("no")
  BY <1>2, <1>3, RoundAssumption DEF PreVoters
<1>5. Up \in SUBSET Party /\ PreVoters("no") \in SUBSET Party
  BY RoundAssumption DEF PreVoters
<1> QED
  BY <1>3, <1>4, <1>5, QuorumGrows

(***************************************************************************)
(* With 2F+1 parties up, the round comes to rest only where VotesCast and  *)
(* UniformVotesEnd say: every party has voted or returned, and one stays   *)
(* behind only if both a yes and a no Vote were cast (or another round has *)
(* ended a party).                                                         *)
(***************************************************************************)
THEOREM RestsDecided ==
  Spec =>
    [](IsQuorum(Up) /\ (\A p \in Up : Idle(p)) =>
         /\ AllVoted
         /\ EndedElsewhere \/ Mixed \/ \A p \in Up : Left(p))
<1>1. ASSUME IInv, PlaceInv, IsQuorum(Up), \A p \in Up : Idle(p)
      PROVE  EndedElsewhere \/ Mixed \/ \A p \in Up : Left(p)
  <2> SUFFICES ASSUME ~ EndedElsewhere, ~ Mixed, NEW p \in Up, ~ Left(p)
               PROVE  FALSE
    OBVIOUS
  <2>1. p \in Party /\ main[p] = "result" /\ halt = {}
    BY <1>1, RoundAssumption DEF Idle, Left, IInv, TypeOK
  <2>2. \A q \in Up : vote[q] # "none"
    BY <1>1, <2>1, IdleAllVoted DEF AllVoted, EndedElsewhere
  <2>3. Up \subseteq Voters("yes") \cup Voters("no")
    BY <1>1, <2>2, RoundAssumption DEF Voters, IInv, TypeOK
  <2>4. voteFlag[p] = "none" /\ Up \subseteq VYr[p] \cup VNr[p]
    BY <1>1, <2>1, <2>3 DEF Idle
  <2> QED
    BY <1>1, <2>1, <2>4, UniformVotesRaise
<1>2. IInv /\ PlaceInv =>
        (IsQuorum(Up) /\ (\A p \in Up : Idle(p)) =>
           /\ AllVoted
           /\ EndedElsewhere \/ Mixed \/ \A p \in Up : Left(p))
  BY <1>1, IdleAllVoted
<1> QED
  BY <1>2, Inductive, PlaceInvAlways, PTL

(***************************************************************************)
(* The round can only die as in run round_stall: RoundAlive holds as long  *)
(* as not both a yes and a no Vote have been cast.                         *)
(***************************************************************************)
THEOREM RoundAliveUniform ==
  Spec => [](IsQuorum(Up) /\ ~ Mixed => RoundAlive)
<1>1. ASSUME IInv, PlaceInv, IsQuorum(Up), ~ Mixed PROVE RoundAlive
  <2> SUFFICES ASSUME \A p \in Up : Waiting(p) PROVE FALSE
    BY DEF RoundAlive
  <2>1. PICK p \in Up : TRUE
    BY <1>1, QuorumNonEmpty, RoundAssumption
  <2>2. p \in Party /\ voteFlag[p] = "none" /\ Up \subseteq VYr[p] \cup VNr[p]
    BY RoundAssumption DEF Waiting
  <2> QED
    BY <1>1, <2>2, UniformVotesRaise
<1>2. IInv /\ PlaceInv => (IsQuorum(Up) /\ ~ Mixed => RoundAlive)
  BY <1>1
<1> QED
  BY <1>2, Inductive, PlaceInvAlways, PTL
=============================================================================
