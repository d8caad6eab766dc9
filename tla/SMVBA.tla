------------------------------- MODULE SMVBA -------------------------------
(***************************************************************************)
(* smvba.MainProcess over its rounds (internal/smvba/main_process.go): the *)
(* value a party carries from a round to the next, and the Halts, which    *)
(* share one channel over all rounds.  A round is taken at the grain of    *)
(* its broadcasts: what a handler counts is the set of those made so far.  *)
(* Module Round follows one round message by message, module LeaderLock    *)
(* stands for the leader's strong provable broadcast.                      *)
(***************************************************************************)
EXTENDS Quorums

CONSTANTS
  Value,     \* the values
  Proposals, \* what MainProcess of each party may be called with
  None,      \* no value
  Leaders,   \* what the coins of the rounds may elect
  MaxRound   \* the last round the model follows; the code has no bound

ASSUME SMVBAAssumption ==
  /\ None \notin Value
  /\ Proposals \subseteq [Party -> Value]
  /\ MaxRound \in Nat
  /\ Leaders \subseteq [0 .. MaxRound -> Party]

Rounds == 0 .. MaxRound

VARIABLES
  round,     \* the round of each party's MainProcess
  main,      \* where in that round it is
  leader,    \* leader[r]: what the coin of round r will elect
  input,     \* input[r][p]: the value p entered round r with
  locked,    \* locked[r]: parties holding the Lock of the leader of r
  preVote,   \* preVote[r][p]: the PreVote p broadcast in round r
  vote,      \* vote[r][p]: the Vote p broadcast in round r
  halt,      \* the rounds some party broadcast a Halt in
  decision   \* what MainProcess of each party returned

vars == <<round, main, leader, input, locked, preVote, vote, halt, decision>>

Ballot == {"none", "yes", "no"}

TypeOK ==
  /\ round \in [Party -> Rounds]
  /\ main \in [Party -> {"select", "result", "returned"}]
  /\ leader \in [Rounds -> Party]
  /\ input \in [Rounds -> [Party -> Value \cup {None}]]
  /\ locked \in [Rounds -> SUBSET Party]
  /\ preVote \in [Rounds -> [Party -> Ballot]]
  /\ vote \in [Rounds -> [Party -> Ballot]]
  /\ halt \in SUBSET Rounds
  /\ decision \in [Party -> Value \cup {None}]

Init ==
  /\ round = [p \in Party |-> 0]
  /\ main = [p \in Party |-> "select"]
  /\ leader \in Leaders
  /\ \E proposal \in Proposals :
       input = [r \in Rounds |->
                  IF r = 0 THEN proposal ELSE [p \in Party |-> None]]
  /\ locked = [r \in Rounds |-> {}]
  /\ preVote = [r \in Rounds |-> [p \in Party |-> "none"]]
  /\ vote = [r \in Rounds |-> [p \in Party |-> "none"]]
  /\ halt = {}
  /\ decision = [p \in Party |-> None]

Entered(r) == {p \in Party : input[r][p] # None}
PreVoters(r, v) == {p \in Party : preVote[r][p] = v}
Voters(r, v) == {p \in Party : vote[r][p] = v}

(* The value that Finish, PreVote, Vote and Halt of round r carry.         *)
LeaderValue(r) == input[r][leader[r]]

-----------------------------------------------------------------------------
(* The leader's strong provable broadcast, as in LeaderLock.               *)

(* Mutant: no wg.Wait() before the PreVote reads Lr.                       *)
LockLate(p, r) ==
  /\ p \in Entered(r)
  /\ leader[r] \in Entered(r)
  /\ locked' = [locked EXCEPT ![r] = @ \cup {p}]
  /\ UNCHANGED <<round, main, leader, input, preVote, vote, halt, decision>>

Lock(p, r) ==
  /\ p \in Entered(r)
  /\ leader[r] \in Entered(r)
  /\ preVote[r][p] = "none"
  /\ locked' = [locked EXCEPT ![r] = @ \cup {p}]
  /\ UNCHANGED <<round, main, leader, input, preVote, vote, halt, decision>>

(* The leader has the locks it needs to broadcast Finish.                  *)
CanFinish(r) == IsQuorum(locked[r])

-----------------------------------------------------------------------------
(* MainProcess returns v.                                                  *)
Return(p, v) ==
  /\ main' = [main EXCEPT ![p] = "returned"]
  /\ decision' = [decision EXCEPT ![p] = v]

(* Mutant: Lr.Load in the place of Fr.Load.                                *)
ShortCutOnLock(p) ==
  /\ main[p] = "select"
  /\ p \in locked[round[p]]
  /\ halt' = halt \cup {round[p]}
  /\ Return(p, LeaderValue(round[p]))
  /\ UNCHANGED <<round, leader, input, locked, preVote, vote>>

(* Fr holds the leader's Finish.                                           *)
ShortCut(p) ==
  /\ main[p] = "select"
  /\ CanFinish(round[p])
  /\ halt' = halt \cup {round[p]}
  /\ Return(p, LeaderValue(round[p]))
  /\ UNCHANGED <<round, leader, input, locked, preVote, vote>>

(***************************************************************************)
(* A round elects its leader only after 2F+1 parties broadcast Finish in   *)
(* it (module Election), so 2F+1 have entered it.                          *)
(***************************************************************************)
PreVote(p) ==
  LET r == round[p]
  IN  /\ main[p] = "select"
      /\ IsQuorum(Entered(r))
      /\ main' = [main EXCEPT ![p] = "result"]
      /\ preVote' = [preVote EXCEPT ![r][p] =
                       IF p \in locked[r] THEN "yes" ELSE "no"]
      /\ UNCHANGED <<round, leader, input, locked, vote, halt, decision>>

Vote(p, r, v) ==
  /\ preVote[r][p] # "none"
  /\ vote[r][p] = "none"
  /\ \/ v = "yes" /\ PreVoters(r, "yes") # {}
     \/ v = "no" /\ IsQuorum(PreVoters(r, "no"))
  /\ vote' = [vote EXCEPT ![r][p] = v]
  /\ UNCHANGED <<round, main, leader, input, locked, preVote, halt, decision>>

ResultYes(p) ==
  /\ main[p] = "result"
  /\ IsQuorum(Voters(round[p], "yes"))
  /\ halt' = halt \cup {round[p]}
  /\ Return(p, LeaderValue(round[p]))
  /\ UNCHANGED <<round, leader, input, locked, preVote, vote>>

(* p goes on to the next round with v.                                     *)
NextRound(p, v) ==
  /\ round[p] < MaxRound
  /\ round' = [round EXCEPT ![p] = @ + 1]
  /\ main' = [main EXCEPT ![p] = "select"]
  /\ input' = [input EXCEPT ![round[p] + 1][p] = v]
  /\ UNCHANGED <<leader, locked, preVote, vote, halt, decision>>

(* No: the value stays.                                                    *)
ResultNo(p) ==
  /\ main[p] = "result"
  /\ IsQuorum(Voters(round[p], "no"))
  /\ NextRound(p, input[round[p]][p])

(* Mutant: value and validation read from voteOtherChannel the other way.  *)
ResultOtherSwapped(p) ==
  LET r == round[p]
  IN  /\ main[p] = "result"
      /\ Voters(r, "yes") # {} /\ Voters(r, "no") # {}
      /\ IsQuorum(Voters(r, "yes") \cup Voters(r, "no"))
      /\ NextRound(p, Voters(r, "yes"))

(* Mutant: the overwriting of value forgotten.                             *)
ResultOtherKeeps(p) ==
  LET r == round[p]
  IN  /\ main[p] = "result"
      /\ Voters(r, "yes") # {} /\ Voters(r, "no") # {}
      /\ IsQuorum(Voters(r, "yes") \cup Voters(r, "no"))
      /\ NextRound(p, input[r][p])

(***************************************************************************)
(* Neither has 2F+1 in a quorum of Votes with a yes among them: the value  *)
(* of the yes Votes overwrites p's own.                                    *)
(***************************************************************************)
ResultOther(p) ==
  LET r == round[p]
  IN  /\ main[p] = "result"
      /\ Voters(r, "yes") # {} /\ Voters(r, "no") # {}
      /\ IsQuorum(Voters(r, "yes") \cup Voters(r, "no"))
      /\ NextRound(p, LeaderValue(r))

(* haltChannel holds a Halt of any round p has a handler for.              *)
TakeHalt(p, r) ==
  /\ main[p] # "returned"
  /\ r \in halt
  /\ r <= round[p]
  /\ Return(p, LeaderValue(r))
  /\ UNCHANGED <<round, leader, input, locked, preVote, vote, halt>>

-----------------------------------------------------------------------------
PartyStep(p) ==
  \/ ShortCut(p)
  \/ PreVote(p)
  \/ ResultYes(p)
  \/ ResultNo(p)
  \/ ResultOther(p)
  \/ \E r \in Rounds :
       \/ Lock(p, r)
       \/ \E v \in {"yes", "no"} : Vote(p, r, v)
       \/ TakeHalt(p, r)

Next == \E p \in Party : PartyStep(p)

Spec == Init /\ [][Next]_vars

-----------------------------------------------------------------------------
(***************************************************************************)
(* MainProcess returns one value everywhere (smvba_test.go:72 compares the *)
(* results), whatever the rounds, ways and order the parties return in.    *)
(***************************************************************************)
Agreement ==
  \A p, q \in Party :
    decision[p] # None /\ decision[q] # None => decision[p] = decision[q]

(***************************************************************************)
(* Once a round can decide, its leader finishing or 2F+1 parties voting    *)
(* yes, every value a party carries into a later round is its leader's.    *)
(***************************************************************************)
Committed(r) == CanFinish(r) \/ IsQuorum(Voters(r, "yes"))

CommitCarries ==
  \A r, s \in Rounds : r < s /\ Committed(r) =>
    \A p \in Entered(s) : input[s][p] = LeaderValue(r)

(***************************************************************************)
(* All rounds and messages hidden, MainProcess solves consensus: decisions *)
(* agree, are proposals, and are never taken back.                         *)
(***************************************************************************)
C == INSTANCE Consensus WITH proposal <- input[0]

ImplementsConsensus == C!Spec
=============================================================================
