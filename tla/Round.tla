------------------------------- MODULE Round -------------------------------
(***************************************************************************)
(* One round of smvba.MainProcess from the leader on: the short-cut, the   *)
(* PreVote and Vote exchanges, Halt, and how each party leaves the round   *)
(* (internal/smvba/main_process.go, message_handler.go).                   *)
(*                                                                         *)
(* Module LeaderLock stands for the leader's strong provable broadcast,    *)
(* which module SPB implements; the leader's value is the one value that   *)
(* Finish, PreVote and Vote of the round can carry, so it is left out.     *)
(***************************************************************************)
EXTENDS Quorums

CONSTANTS
  Up,      \* the parties that are up; the others never take a step
  Lockers  \* the parties the leader's Value of PB 2 can reach in time

ASSUME RoundAssumption ==
  /\ Up \in SUBSET Party
  /\ Lockers \in SUBSET Up

VARIABLES
  locked,    \* parties whose Lr holds the leader's Lock
  finished,  \* the leader has broadcast Finish
  preVote,   \* the PreVote each party broadcast
  vote,      \* the Vote each party broadcast
  VYr,       \* VYr[p]: senders of the yes shares in VYr
  VNr,       \* VNr[p]: senders of the no shares in VNr
  voteFlag,  \* what voteFlagChannel of p holds
  halt,      \* the parties that broadcast Halt
  main,      \* where each party's MainProcess is in this round
  outcome    \* how p left the round

vars == <<locked, finished, preVote, vote, VYr, VNr, voteFlag, halt, main,
          outcome>>

Flags == {"yes", "no", "other"}

(* Nobody is counted twice in len(VYr) + len(VNr) of the Vote handler.     *)
TypeOK ==
  /\ locked \in SUBSET Party
  /\ finished \in BOOLEAN
  /\ preVote \in [Party -> {"none", "yes", "no"}]
  /\ vote \in [Party -> {"none", "yes", "no"}]
  /\ VYr \in [Party -> SUBSET Party]
  /\ VNr \in [Party -> SUBSET Party]
  /\ \A p \in Party : VYr[p] \cap VNr[p] = {}
  /\ voteFlag \in [Party -> Flags \cup {"none"}]
  /\ halt \in SUBSET Party
  /\ main \in [Party -> {"select", "result", "next", "returned"}]
  /\ outcome \in [Party -> Flags \cup {"none", "shortCut", "halt"}]

LL == INSTANCE LeaderLock

Init ==
  /\ LL!Init
  /\ vote = [p \in Party |-> "none"]
  /\ VYr = [p \in Party |-> {}]
  /\ VNr = [p \in Party |-> {}]
  /\ voteFlag = [p \in Party |-> "none"]
  /\ halt = {}
  /\ main = [p \in Party |-> "select"]
  /\ outcome = [p \in Party |-> "none"]

PreVoters(v) == {p \in Party : preVote[p] = v}
Voters(v) == {p \in Party : vote[p] = v}

(* MainProcess of p returns: cancel() ends p's Vote handler.               *)
EndHandler(p) ==
  /\ VYr' = [VYr EXCEPT ![p] = {}]
  /\ VNr' = [VNr EXCEPT ![p] = {}]
  /\ voteFlag' = [voteFlag EXCEPT ![p] = "none"]

Leave(p, to, how) ==
  /\ main' = [main EXCEPT ![p] = to]
  /\ outcome' = [outcome EXCEPT ![p] = how]

-----------------------------------------------------------------------------
(* The leader's strong provable broadcast.                                 *)

Lock(p) ==
  /\ p \in Lockers
  /\ LL!LockLeader(p)
  /\ UNCHANGED <<vote, VYr, VNr, voteFlag, halt, main, outcome>>

Finish ==
  /\ LL!Finish
  /\ UNCHANGED <<vote, VYr, VNr, voteFlag, halt, main, outcome>>

-----------------------------------------------------------------------------
(* MainProcess of p has the leader and its locks are final.                *)

(* Fr holds the leader's Finish: broadcast it as Halt and return.          *)
ShortCut(p) ==
  /\ main[p] = "select"
  /\ finished
  /\ halt' = halt \cup {p}
  /\ Leave(p, "returned", "shortCut")
  /\ UNCHANGED <<locked, finished, preVote, vote, VYr, VNr, voteFlag>>

PreVote(p) ==
  /\ main[p] = "select"
  /\ LL!PreVote(p)
  /\ main' = [main EXCEPT ![p] = "result"]
  /\ UNCHANGED <<vote, VYr, VNr, voteFlag, halt, outcome>>

(* Mutant: 2F+1 yes PreVotes are waited for.                               *)
CanVoteByQuorum(v) == IsQuorum(PreVoters(v))

(***************************************************************************)
(* Goroutine vote of p takes the first flag of p's PreVote handler, raised *)
(* by a yes PreVote or by the (2F+1)st no PreVote, whichever the handler   *)
(* came to first.  It outlives the round; once p has returned, ctx may     *)
(* still lose the select to the flag.                                      *)
(***************************************************************************)
CanVote(v) ==
  \/ v = "yes" /\ PreVoters("yes") # {}
  \/ v = "no" /\ IsQuorum(PreVoters("no"))

(* Mutant: a Vote for every flag of the PreVote handler.                   *)
VoteAgain(p, v) ==
  /\ preVote[p] # "none"
  /\ CanVote(v)
  /\ vote' = [vote EXCEPT ![p] = v]
  /\ UNCHANGED <<locked, finished, preVote, VYr, VNr, voteFlag, halt, main,
                 outcome>>

Vote(p, v) ==
  /\ preVote[p] # "none"
  /\ vote[p] = "none"
  /\ CanVote(v)
  /\ vote' = [vote EXCEPT ![p] = v]
  /\ UNCHANGED <<locked, finished, preVote, VYr, VNr, voteFlag, halt, main,
                 outcome>>

(***************************************************************************)
(* The Vote handler of p takes j's Vote.  MainProcess reads one flag, so   *)
(* the handler is followed up to its first.                                *)
(***************************************************************************)
HandleYes(p, j) ==
  /\ main[p] = "result" /\ voteFlag[p] = "none"
  /\ j \in Voters("yes") \ VYr[p]
  /\ VYr' = [VYr EXCEPT ![p] = @ \cup {j}]
  /\ voteFlag' = [voteFlag EXCEPT ![p] =
       IF IsQuorum(VYr'[p]) THEN "yes"
       ELSE IF IsQuorum(VYr'[p] \cup VNr[p]) THEN "other" ELSE "none"]
  /\ UNCHANGED <<locked, finished, preVote, vote, VNr, halt, main, outcome>>

(* Mutants: a mixed quorum counts as No; all no Votes are waited for.      *)
HandleNoMixed(p, j) ==
  /\ main[p] = "result" /\ voteFlag[p] = "none"
  /\ j \in Voters("no") \ VNr[p]
  /\ VNr' = [VNr EXCEPT ![p] = @ \cup {j}]
  /\ voteFlag' = [voteFlag EXCEPT ![p] =
       IF IsQuorum(VYr[p] \cup VNr'[p]) THEN "no" ELSE "none"]
  /\ UNCHANGED <<locked, finished, preVote, vote, VYr, halt, main, outcome>>

HandleNoLate(p, j) ==
  /\ main[p] = "result" /\ voteFlag[p] = "none"
  /\ j \in Voters("no") \ VNr[p]
  /\ VNr' = [VNr EXCEPT ![p] = @ \cup {j}]
  /\ voteFlag' = [voteFlag EXCEPT ![p] =
       IF Cardinality(VNr'[p]) > 2 * F + 1 THEN "no" ELSE "none"]
  /\ UNCHANGED <<locked, finished, preVote, vote, VYr, halt, main, outcome>>

HandleNo(p, j) ==
  /\ main[p] = "result" /\ voteFlag[p] = "none"
  /\ j \in Voters("no") \ VNr[p]
  /\ VNr' = [VNr EXCEPT ![p] = @ \cup {j}]
  /\ voteFlag' = [voteFlag EXCEPT ![p] =
       IF IsQuorum(VNr'[p]) THEN "no" ELSE "none"]
  /\ UNCHANGED <<locked, finished, preVote, vote, VYr, halt, main, outcome>>

-----------------------------------------------------------------------------
(* The select on haltChannel and voteFlagChannel.                          *)

(* Yes: the 2F+1 shares recover to a Finish signature; Halt and return.    *)
ResultYes(p) ==
  /\ main[p] = "result" /\ voteFlag[p] = "yes"
  /\ halt' = halt \cup {p}
  /\ Leave(p, "returned", "yes")
  /\ EndHandler(p)
  /\ UNCHANGED <<locked, finished, preVote, vote>>

(* No, or the leader's value taken over: p goes on to the next round.      *)
ResultNext(p) ==
  /\ main[p] = "result" /\ voteFlag[p] \in {"no", "other"}
  /\ Leave(p, "next", voteFlag[p])
  /\ UNCHANGED <<locked, finished, preVote, vote, VYr, VNr, voteFlag, halt>>

(***************************************************************************)
(* haltChannel delivers a Halt of this round.  All rounds share it, so it  *)
(* also ends a party that has gone on.                                     *)
(***************************************************************************)
TakeHalt(p) ==
  /\ main[p] # "returned"
  /\ halt # {}
  /\ main' = [main EXCEPT ![p] = "returned"]
  /\ outcome' = [outcome EXCEPT ![p] = IF @ = "none" THEN "halt" ELSE @]
  /\ EndHandler(p)
  /\ UNCHANGED <<locked, finished, preVote, vote, halt>>

(* MainProcess of p returns in another round, or with a Halt of one at     *)
(* either select of this round.                                            *)
OtherRoundReturns(p) ==
  /\ main[p] # "returned"
  /\ main' = [main EXCEPT ![p] = "returned"]
  /\ EndHandler(p)
  /\ UNCHANGED <<locked, finished, preVote, vote, halt, outcome>>

-----------------------------------------------------------------------------
MainStep(p) ==
  \/ ShortCut(p)
  \/ PreVote(p)
  \/ ResultYes(p)
  \/ ResultNext(p)
  \/ TakeHalt(p)

HandleVote(p) == \E j \in Party : HandleYes(p, j) \/ HandleNo(p, j)

CastVote(p) == \E v \in {"yes", "no"} : Vote(p, v)

Step(p) == MainStep(p) \/ HandleVote(p) \/ CastVote(p)

RoundStep == Finish \/ \E p \in Up : Lock(p) \/ Step(p)

Next == RoundStep \/ \E p \in Up : OtherRoundReturns(p)

Spec == Init /\ [][Next]_vars

(* The round by itself: no other round ends a party.                       *)
AloneSpec == Init /\ [][RoundStep]_vars

(***************************************************************************)
(* Goroutines of a party that is up run while MainProcess has not          *)
(* returned.  Every party gets the leader (module Election), so MainStep   *)
(* cannot stay at the first select.                                        *)
(***************************************************************************)
Fairness ==
  \A p \in Up :
    /\ WF_vars(MainStep(p))
    /\ WF_vars(HandleVote(p))
    /\ WF_vars(main[p] # "returned" /\ CastVote(p))

FairSpec == Spec /\ Fairness

-----------------------------------------------------------------------------
(***************************************************************************)
(* No party skips a round that another one decides in: once the short-cut, *)
(* 2F+1 yes Votes or a Halt has given the leader's value to some party, no *)
(* party leaves with No, so whoever goes on takes that value along.        *)
(***************************************************************************)
Decided(p) == outcome[p] \in {"shortCut", "yes", "halt"}

DecideExcludesNo ==
  (\E p \in Party : Decided(p)) => \A q \in Party : outcome[q] # "no"

(***************************************************************************)
(* A Finish or a yes quorum may also come after a party has gone on: what  *)
(* it left with was never "no" if either can still happen.                 *)
(***************************************************************************)
NoIsFinal ==
  [][(\E p \in Party : outcome[p] = "no") =>
       /\ UNCHANGED <<finished, halt>>
       /\ \A p \in Party : voteFlag'[p] # "yes"]_vars

(* Some MainProcess was ended by a decision of another round.              *)
EndedElsewhere == halt = {} /\ \E p \in Up : main[p] = "returned"

(***************************************************************************)
(* PreVotes never leave the round hanging: with 2F+1 parties up each of    *)
(* them votes or returns, whichever PreVotes the locks made.               *)
(***************************************************************************)
AllVoted ==
  EndedElsewhere \/ \A p \in Up : vote[p] # "none" \/ main[p] = "returned"

VotesCast == <>AllVoted

(***************************************************************************)
(* Votes that agree end the round: with 2F+1 parties up, a party can only  *)
(* stay in it for ever if both a yes and a no Vote were cast.              *)
(***************************************************************************)
Left(p) == main[p] \in {"next", "returned"}

Mixed == Voters("yes") # {} /\ Voters("no") # {}

UniformVotesEnd == <>(EndedElsewhere \/ Mixed \/ \A p \in Up : Left(p))

(***************************************************************************)
(* The round never dies: parties that all wait for a result have some Vote *)
(* or flag or Halt left to take.  smvba_test.go:69 waits for MainProcess   *)
(* to return at all N parties.  The code does not ensure it: a no Vote     *)
(* that completes a mixed quorum raises no flag.                           *)
(***************************************************************************)
Waiting(p) ==
  /\ main[p] = "result"
  /\ voteFlag[p] = "none"
  /\ \A j \in Up : j \in VYr[p] \cup VNr[p]

RoundAlive == ~(halt = {} /\ \A p \in Up : Waiting(p))
=============================================================================
