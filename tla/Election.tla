------------------------------ MODULE Election ------------------------------
(***************************************************************************)
(* How the parties of one SMVBA round reach its leader: the Finish and     *)
(* Done goroutines of smvba.messageHandler, the goroutine election, and    *)
(* doneFlagChannel (capacity 1, two writers, one read) between them.       *)
(*                                                                         *)
(* The coin is what 2F+1 shares of Sign("Done"||ID||r) recover to: one     *)
(* value per round, so here only whether a party knows it.  A broadcast    *)
(* that any party has made is taken by each handler when it gets to it.    *)
(***************************************************************************)
EXTENDS Quorums

CONSTANT Up   \* the parties that are up; the others never take a step

ASSUME ElectionAssumption ==
  /\ Up \in SUBSET Party
  /\ F > 0

VARIABLES
  finish,    \* parties that broadcast Finish (their SPB instance ended well)
  Fr,        \* Fr[p]: senders whose Finish p's handler stored
  doneFlag,  \* doneFlag[p]: doneFlagChannel holds a flag
  blocked,   \* blocked[p]: the handler waiting to write doneFlagChannel
  election,  \* where p's goroutine election is
  coins,     \* coins[p]: senders whose Done share p's handler appended
  leader,    \* leader[p]: p's Done handler put the leader in its channels
  halt,      \* some party has broadcast a Halt of this round
  main       \* where p's MainProcess is: "halted" has returned at the first
             \* select of the round, "returned" after it

vars == <<finish, Fr, doneFlag, blocked, election, coins, leader, halt, main>>

(* That tbls.Recover gets the 2F+1 shares it needs is part of the type: the *)
(* handler drops its error.                                                *)
TypeOK ==
  /\ finish \in SUBSET Party
  /\ Fr \in [Party -> SUBSET Party]
  /\ doneFlag \in [Party -> BOOLEAN]
  /\ blocked \in [Party -> {"none", "Finish", "Done"}]
  /\ election \in [Party -> {"waiting", "sent", "stopped"}]
  /\ coins \in [Party -> SUBSET Party]
  /\ leader \in [Party -> BOOLEAN]
  /\ \A p \in Party : leader[p] => IsQuorum(coins[p])
  /\ halt \in BOOLEAN
  /\ main \in [Party -> {"select", "leader", "halted", "returned"}]

Init ==
  /\ finish = {}
  /\ Fr = [p \in Party |-> {}]
  /\ doneFlag = [p \in Party |-> FALSE]
  /\ blocked = [p \in Party |-> "none"]
  /\ election = [p \in Party |-> "waiting"]
  /\ coins = [p \in Party |-> {}]
  /\ leader = [p \in Party |-> FALSE]
  /\ halt = FALSE
  /\ main = [p \in Party |-> "select"]

(* The parties that broadcast Done.                                        *)
Done == {p \in Party : election[p] = "sent"}

(* ctx is done at p: MainProcess has returned.                             *)
Cancelled(p) == main[p] \in {"halted", "returned"}

(* Mutant: doneFlagChannel made without its buffer.                        *)
WriteDoneFlagUnbuffered(p, h) ==
  IF doneFlag[p] \/ election[p] # "waiting"
    THEN blocked' = [blocked EXCEPT ![p] = h] /\ UNCHANGED doneFlag
    ELSE doneFlag' = [doneFlag EXCEPT ![p] = TRUE] /\ UNCHANGED blocked

(***************************************************************************)
(* Handler h of p writes doneFlagChannel, or waits if the channel is full. *)
(***************************************************************************)
WriteDoneFlag(p, h) ==
  IF doneFlag[p]
    THEN blocked' = [blocked EXCEPT ![p] = h] /\ UNCHANGED doneFlag
    ELSE doneFlag' = [doneFlag EXCEPT ![p] = TRUE] /\ UNCHANGED blocked

-----------------------------------------------------------------------------
(***************************************************************************)
(* spbSender of p returned a signature: p broadcasts Finish.  It may do so *)
(* until wg.Wait() is over, for which the first select does not wait when  *)
(* it takes a Halt.                                                        *)
(***************************************************************************)
BroadcastFinish(p) ==
  /\ p \notin finish
  /\ main[p] \in {"select", "halted"}
  /\ finish' = finish \cup {p}
  /\ UNCHANGED <<Fr, doneFlag, blocked, election, coins, leader, halt, main>>

(* Mutants: F+1 Finish raise the flag; all N are waited for.               *)
HandleFinishEarly(p, j) ==
  /\ blocked[p] # "Finish"
  /\ j \in finish \ Fr[p]
  /\ Fr' = [Fr EXCEPT ![p] = @ \cup {j}]
  /\ IF Cardinality(Fr'[p]) = F + 1
       THEN WriteDoneFlag(p, "Finish")
       ELSE UNCHANGED <<doneFlag, blocked>>
  /\ UNCHANGED <<finish, election, coins, leader, halt, main>>

HandleFinishAll(p, j) ==
  /\ blocked[p] # "Finish"
  /\ j \in finish \ Fr[p]
  /\ Fr' = [Fr EXCEPT ![p] = @ \cup {j}]
  /\ IF Cardinality(Fr'[p]) = N
       THEN WriteDoneFlag(p, "Finish")
       ELSE UNCHANGED <<doneFlag, blocked>>
  /\ UNCHANGED <<finish, election, coins, leader, halt, main>>

(* The Finish handler of p takes j's message; the (2F+1)st raises the flag. *)
HandleFinish(p, j) ==
  /\ blocked[p] # "Finish"
  /\ j \in finish \ Fr[p]
  /\ Fr' = [Fr EXCEPT ![p] = @ \cup {j}]
  /\ IF Cardinality(Fr'[p]) = 2 * F + 1
       THEN WriteDoneFlag(p, "Finish")
       ELSE UNCHANGED <<doneFlag, blocked>>
  /\ UNCHANGED <<finish, election, coins, leader, halt, main>>

(* Mutant: every share from the (F+1)st on raises a flag.                  *)
HandleDoneRepeats(p, j) ==
  /\ blocked[p] # "Done"
  /\ ~leader[p]
  /\ j \in Done \ coins[p]
  /\ coins' = [coins EXCEPT ![p] = @ \cup {j}]
  /\ IF Cardinality(coins'[p]) >= F + 1
       THEN WriteDoneFlag(p, "Done")
       ELSE UNCHANGED <<doneFlag, blocked>>
  /\ leader' = [leader EXCEPT ![p] = IsQuorum(coins'[p])]
  /\ UNCHANGED <<finish, Fr, election, halt, main>>

(* Mutant: the coin is recovered from as many shares as raise the flag.    *)
HandleDoneRecoversEarly(p, j) ==
  /\ blocked[p] # "Done"
  /\ ~leader[p]
  /\ j \in Done \ coins[p]
  /\ coins' = [coins EXCEPT ![p] = @ \cup {j}]
  /\ IF Cardinality(coins'[p]) = F + 1
       THEN WriteDoneFlag(p, "Done")
       ELSE UNCHANGED <<doneFlag, blocked>>
  /\ leader' = [leader EXCEPT ![p] = Cardinality(coins'[p]) > F]
  /\ UNCHANGED <<finish, Fr, election, halt, main>>

(***************************************************************************)
(* The Done handler of p takes j's share.  The (F+1)st raises the flag,    *)
(* the (2F+1)st recovers the coin, and the handler returns.                *)
(***************************************************************************)
HandleDone(p, j) ==
  /\ blocked[p] # "Done"
  /\ ~leader[p]
  /\ j \in Done \ coins[p]
  /\ coins' = [coins EXCEPT ![p] = @ \cup {j}]
  /\ IF Cardinality(coins'[p]) = F + 1
       THEN WriteDoneFlag(p, "Done")
       ELSE UNCHANGED <<doneFlag, blocked>>
  /\ leader' = [leader EXCEPT ![p] = IsQuorum(coins'[p])]
  /\ UNCHANGED <<finish, Fr, election, halt, main>>

(* election of p reads the flag and broadcasts its coin share; a handler   *)
(* that waited for room in the channel goes on.                            *)
BroadcastDone(p) ==
  /\ election[p] = "waiting"
  /\ doneFlag[p]
  /\ election' = [election EXCEPT ![p] = "sent"]
  /\ doneFlag' = [doneFlag EXCEPT ![p] = blocked[p] # "none"]
  /\ blocked' = [blocked EXCEPT ![p] = "none"]
  /\ UNCHANGED <<finish, Fr, coins, leader, halt, main>>

ElectionStops(p) ==
  /\ election[p] = "waiting"
  /\ Cancelled(p)
  /\ election' = [election EXCEPT ![p] = "stopped"]
  /\ UNCHANGED <<finish, Fr, doneFlag, blocked, coins, leader, halt, main>>

-----------------------------------------------------------------------------
(* MainProcess of p takes the leader and goes on to the votes.             *)
TakeLeader(p) ==
  /\ main[p] = "select"
  /\ leader[p]
  /\ main' = [main EXCEPT ![p] = "leader"]
  /\ UNCHANGED <<finish, Fr, doneFlag, blocked, election, coins, leader, halt>>

(* MainProcess of p broadcasts Halt, after the short-cut or 2F+1 yes Votes, *)
(* cancels ctx and returns.                                                *)
Decide(p) ==
  /\ main[p] = "leader"
  /\ halt' = TRUE
  /\ main' = [main EXCEPT ![p] = "returned"]
  /\ UNCHANGED <<finish, Fr, doneFlag, blocked, election, coins, leader>>

Halted(p) ==
  main' = [main EXCEPT ![p] = IF @ = "select" THEN "halted" ELSE "returned"]

(***************************************************************************)
(* MainProcess of p takes a Halt of this round, at any select from here on.*)
(* The Halt handler starts when thisRoundLeader is read.                   *)
(***************************************************************************)
TakeHalt(p) ==
  /\ halt
  /\ leader[p]
  /\ ~ Cancelled(p)
  /\ Halted(p)
  /\ UNCHANGED <<finish, Fr, doneFlag, blocked, election, coins, leader, halt>>

(* MainProcess of p returns what another round has decided.                *)
OtherRoundReturns(p) ==
  /\ ~ Cancelled(p)
  /\ Halted(p)
  /\ UNCHANGED <<finish, Fr, doneFlag, blocked, election, coins, leader, halt>>

Handlers(p) ==
  \/ \E j \in Party : HandleFinish(p, j) \/ HandleDone(p, j)
  \/ BroadcastDone(p)

Next ==
  \E p \in Up :
    \/ BroadcastFinish(p)
    \/ Handlers(p)
    \/ ElectionStops(p)
    \/ TakeLeader(p)
    \/ Decide(p)
    \/ TakeHalt(p)
    \/ OtherRoundReturns(p)

Spec == Init /\ [][Next]_vars

(***************************************************************************)
(* Every goroutine of a party that is up runs until ctx is cancelled, and  *)
(* module SPB shows that its SPB instance ends if no party cancels its own *)
(* part in it.  A party reads haltChannel at its next select.              *)
(***************************************************************************)
Fairness ==
  \A p \in Up :
    /\ WF_vars((\A q \in Up : main[q] = "select") /\ BroadcastFinish(p))
    /\ WF_vars(~Cancelled(p) /\ \E j \in Party : HandleFinish(p, j))
    /\ WF_vars(~Cancelled(p) /\ \E j \in Party : HandleDone(p, j))
    /\ WF_vars(~Cancelled(p) /\ BroadcastDone(p))
    /\ WF_vars(TakeLeader(p))
    /\ WF_vars(TakeHalt(p))

FairSpec == Spec /\ Fairness

-----------------------------------------------------------------------------
(***************************************************************************)
(* The coin stays secret until the short-cut is possible: no share of it   *)
(* is broadcast before 2F+1 parties have broadcast Finish.  The F+1 rule   *)
(* of the Done handler spreads a flag that a quorum of Finish raised; it   *)
(* never raises one by itself.                                             *)
(***************************************************************************)
CoinAfterFinishQuorum == Done # {} => IsQuorum(finish)

(***************************************************************************)
(* At most one handler ever waits for doneFlagChannel, and never once its  *)
(* party has broadcast Done: the channel of capacity one is enough.        *)
(***************************************************************************)
FlagChannelSuffices ==
  \A p \in Party : election[p] = "sent" => blocked[p] = "none"

(***************************************************************************)
(* A leader known anywhere becomes known to every party that is up, though *)
(* parties that have it may return and stop their election goroutine.      *)
(***************************************************************************)
KnownSomewhere == \E p \in Party : leader[p]

KnownEverywhere == \A p \in Up : leader[p] \/ Cancelled(p)

LeaderSpreads == KnownSomewhere ~> KnownEverywhere

(***************************************************************************)
(* A decision of this round ends MainProcess of every party that is up:    *)
(* those without the leader still get it, though whoever decided has       *)
(* stopped its handlers and its election goroutine, so that their Halt     *)
(* handlers start and find the one Halt there may be.                      *)
(***************************************************************************)
HaltSpreads == halt ~> \A p \in Up : Cancelled(p)

(***************************************************************************)
(* With 2F+1 parties up, every one of them learns the leader, unless the   *)
(* result of an earlier round ends one of them first.                      *)
(***************************************************************************)
EndedBefore == \E p \in Up : Cancelled(p) /\ ~leader[p]

LeaderElected == <>(EndedBefore \/ \A p \in Up : leader[p])
=============================================================================
