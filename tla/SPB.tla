-------------------------------- MODULE SPB --------------------------------
(***************************************************************************)
(* Strong provable broadcast: the instance of one sender in one round of   *)
(* smvba.MainProcess (internal/smvba/spb.go over internal/pb/pb.go), with  *)
(* the goroutines of main_process.go that run it and the part of the main  *)
(* process that ends it.                                                   *)
(*                                                                         *)
(* A Value or Echo channel is a set of the messages not yet taken from it: *)
(* the sender puts one Value per destination, a receiver at most one Echo. *)
(* The value itself is left out (an honest sender broadcasts one), and a   *)
(* recovered signature is the set of parties whose shares it is made of.   *)
(*                                                                         *)
(* Taking leader and halt from their channels is the environment's choice  *)
(* (LeaderElected, HaltedBeforeLeader); module Election models the first.  *)
(***************************************************************************)
EXTENDS Quorums

CONSTANTS
  Sender,   \* the party whose instance this is
  Up        \* the parties that are up; the others never take a step

ASSUME SPBAssumption ==
  /\ Sender \in Party
  /\ Up \in SUBSET Party

VARIABLES
  sender,    \* where spbSender is
  receiver,  \* where each party's spbReceiver goroutine is
  value,     \* value[k]: parties whose "Value" channel of PB k is not empty
  echo,      \* echo[k]: Echo messages of PB k waiting for the sender
  sigs,      \* sigs[k]: the sigs slice of pb.Sender in PB k
  Lr,        \* the parties that stored the sender's Lock in their Lr
  main,      \* where each party's MainProcess is in this round
  preVote    \* what each party's preVote read from its Lr

vars == <<sender, receiver, value, echo, sigs, Lr, main, preVote>>

Phase == {1, 2}

TypeOK ==
  /\ sender \in {"start", "pb1", "pb2", "finish", "failed"}
  /\ receiver \in [Party -> {"pb1", "pb2", "echoed", "returned", "fatal"}]
  /\ value \in [Phase -> SUBSET Party]
  /\ echo \in [Phase -> SUBSET Party]
  /\ sigs \in [Phase -> SUBSET Party]
  /\ Lr \in SUBSET Party
  /\ main \in [Party -> {"select", "waiting", "preVoted", "returned"}]
  /\ preVote \in [Party -> {"none", "yes", "no"}]

Init ==
  /\ sender = "start"
  /\ receiver = [p \in Party |-> "pb1"]
  /\ value = [k \in Phase |-> {}]
  /\ echo = [k \in Phase |-> {}]
  /\ sigs = [k \in Phase |-> {}]
  /\ Lr = {}
  /\ main = [p \in Party |-> "select"]
  /\ preVote = [p \in Party |-> "none"]

(***************************************************************************)
(* spbCtx of p is done.                                                    *)
(***************************************************************************)
Cancelled(p) == main[p] # "select"

-----------------------------------------------------------------------------
(* The sender: spbSender and the two calls of pb.Sender it makes.          *)

SendValue1 ==
  /\ sender = "start"
  /\ sender' = "pb1"
  /\ value' = [value EXCEPT ![1] = Party]
  /\ UNCHANGED <<receiver, echo, sigs, Lr, main, preVote>>

(* Mutant: 2F Echoes end PB 1.                                             *)
CollectEcho1Early(p) ==
  /\ sender = "pb1"
  /\ p \in echo[1]
  /\ echo' = [echo EXCEPT ![1] = @ \ {p}]
  /\ sigs' = [sigs EXCEPT ![1] = @ \cup {p}]
  /\ IF Cardinality(sigs'[1]) >= 2 * F
       THEN /\ sender' = "pb2"
            /\ value' = [value EXCEPT ![2] = Party]
       ELSE UNCHANGED <<sender, value>>
  /\ UNCHANGED <<receiver, Lr, main, preVote>>

(***************************************************************************)
(* One Echo taken in PB 1.  The share that makes 2F+1 ends PB 1, and PB 2  *)
(* broadcasts its Value with the signature at once.                        *)
(***************************************************************************)
CollectEcho1(p) ==
  /\ sender = "pb1"
  /\ p \in echo[1]
  /\ echo' = [echo EXCEPT ![1] = @ \ {p}]
  /\ sigs' = [sigs EXCEPT ![1] = @ \cup {p}]
  /\ IF IsQuorum(sigs'[1])
       THEN /\ sender' = "pb2"
            /\ value' = [value EXCEPT ![2] = Party]
       ELSE UNCHANGED <<sender, value>>
  /\ UNCHANGED <<receiver, Lr, main, preVote>>

(* Mutants: 2F Echoes end PB 2; one Echo too many is waited for.           *)
CollectEcho2Early(p) ==
  /\ sender = "pb2"
  /\ p \in echo[2]
  /\ echo' = [echo EXCEPT ![2] = @ \ {p}]
  /\ sigs' = [sigs EXCEPT ![2] = @ \cup {p}]
  /\ sender' = IF Cardinality(sigs'[2]) >= 2 * F THEN "finish" ELSE sender
  /\ UNCHANGED <<receiver, value, Lr, main, preVote>>

CollectEcho2Late(p) ==
  /\ sender = "pb2"
  /\ p \in echo[2]
  /\ echo' = [echo EXCEPT ![2] = @ \ {p}]
  /\ sigs' = [sigs EXCEPT ![2] = @ \cup {p}]
  /\ sender' = IF Cardinality(sigs'[2]) > 2 * F + 1 THEN "finish" ELSE sender
  /\ UNCHANGED <<receiver, value, Lr, main, preVote>>

(***************************************************************************)
(* One Echo taken in PB 2.  With 2F+1 the goroutine broadcasts Finish and  *)
(* calls wg.Done: sender = "finish".                                       *)
(***************************************************************************)
CollectEcho2(p) ==
  /\ sender = "pb2"
  /\ p \in echo[2]
  /\ echo' = [echo EXCEPT ![2] = @ \ {p}]
  /\ sigs' = [sigs EXCEPT ![2] = @ \cup {p}]
  /\ sender' = IF IsQuorum(sigs'[2]) THEN "finish" ELSE sender
  /\ UNCHANGED <<receiver, value, Lr, main, preVote>>

SenderCancelled ==
  /\ sender \in {"pb1", "pb2"}
  /\ Cancelled(Sender)
  /\ sender' = "failed"
  /\ UNCHANGED <<receiver, value, echo, sigs, Lr, main, preVote>>

-----------------------------------------------------------------------------
(* The receiver: spbReceiver and the two calls of pb.Receiver it makes.  A *)
(* select whose two cases are ready takes either.                          *)

ReceiveValue1(p) ==
  /\ receiver[p] = "pb1"
  /\ p \in value[1]
  /\ value' = [value EXCEPT ![1] = @ \ {p}]
  /\ echo' = [echo EXCEPT ![1] = @ \cup {p}]
  /\ receiver' = [receiver EXCEPT ![p] = "pb2"]
  /\ UNCHANGED <<sender, sigs, Lr, main, preVote>>

(***************************************************************************)
(* spbReceiver drops what the first pb.Receiver returns: cancelled there,  *)
(* it goes on to wait for the Value of PB 2.                               *)
(***************************************************************************)
CancelReceive1(p) ==
  /\ receiver[p] = "pb1"
  /\ Cancelled(p)
  /\ receiver' = [receiver EXCEPT ![p] = "pb2"]
  /\ UNCHANGED <<sender, value, echo, sigs, Lr, main, preVote>>

(***************************************************************************)
(* validator checks the signature the Value of PB 2 carries; log.Fatalln   *)
(* ends the process of a receiver that finds it wrong.                     *)
(***************************************************************************)
Validator == IsQuorum(sigs[1])

ReceiveValue2(p) ==
  /\ receiver[p] = "pb2"
  /\ p \in value[2]
  /\ value' = [value EXCEPT ![2] = @ \ {p}]
  /\ IF Validator
       THEN /\ echo' = [echo EXCEPT ![2] = @ \cup {p}]
            /\ receiver' = [receiver EXCEPT ![p] = "echoed"]
       ELSE /\ receiver' = [receiver EXCEPT ![p] = "fatal"]
            /\ UNCHANGED echo
  /\ UNCHANGED <<sender, sigs, Lr, main, preVote>>

(* Mutant: no wg.Done() for a receiver that is cancelled.                  *)
CancelReceive2NotDone(p) ==
  /\ receiver[p] = "pb2"
  /\ Cancelled(p)
  /\ receiver' = [receiver EXCEPT ![p] = "cancelled"]
  /\ UNCHANGED <<sender, value, echo, sigs, Lr, main, preVote>>

CancelReceive2(p) ==
  /\ receiver[p] = "pb2"
  /\ Cancelled(p)
  /\ receiver' = [receiver EXCEPT ![p] = "returned"]
  /\ UNCHANGED <<sender, value, echo, sigs, Lr, main, preVote>>

(* Mutant: a Lock is not stored once spbCtx is done.                       *)
StoreLockUnlessCancelled(p) ==
  /\ receiver[p] = "echoed"
  /\ Lr' = IF Cancelled(p) THEN Lr ELSE Lr \cup {p}
  /\ receiver' = [receiver EXCEPT ![p] = "returned"]
  /\ UNCHANGED <<sender, value, echo, sigs, main, preVote>>

(***************************************************************************)
(* The goroutine stores the Lock after pb.Receiver has sent the Echo, and  *)
(* then calls wg.Done.                                                     *)
(***************************************************************************)
StoreLock(p) ==
  /\ receiver[p] = "echoed"
  /\ Lr' = Lr \cup {p}
  /\ receiver' = [receiver EXCEPT ![p] = "returned"]
  /\ UNCHANGED <<sender, value, echo, sigs, main, preVote>>

-----------------------------------------------------------------------------
(* The main process.                                                       *)

(* leaderChannel delivers the leader: spbCancel(), then wg.Wait().         *)
LeaderElected(p) ==
  /\ main[p] = "select"
  /\ main' = [main EXCEPT ![p] = "waiting"]
  /\ UNCHANGED <<sender, receiver, value, echo, sigs, Lr, preVote>>

(* haltChannel delivers an earlier round's result: spbCancel() and return. *)
HaltedBeforeLeader(p) ==
  /\ main[p] = "select"
  /\ main' = [main EXCEPT ![p] = "returned"]
  /\ UNCHANGED <<sender, receiver, value, echo, sigs, Lr, preVote>>

(* Mutant: no wg.Wait().                                                   *)
NoWait(p) == p \in Party

(***************************************************************************)
(* wg.Wait() returns once every goroutine of this instance at p is done.   *)
(***************************************************************************)
WaitOver(p) ==
  /\ receiver[p] = "returned"
  /\ p = Sender => sender \in {"finish", "failed"}

(* Fr holds the leader's Finish: the short-cut, no PreVote.                *)
ShortCut(p) ==
  /\ main[p] = "waiting"
  /\ WaitOver(p)
  /\ sender = "finish"
  /\ main' = [main EXCEPT ![p] = "returned"]
  /\ UNCHANGED <<sender, receiver, value, echo, sigs, Lr, preVote>>

(* No Finish of the leader has been handled yet: preVote reads Lr.         *)
PreVote(p) ==
  /\ main[p] = "waiting"
  /\ WaitOver(p)
  /\ main' = [main EXCEPT ![p] = "preVoted"]
  /\ preVote' = [preVote EXCEPT ![p] = IF p \in Lr THEN "yes" ELSE "no"]
  /\ UNCHANGED <<sender, receiver, value, echo, sigs, Lr>>

-----------------------------------------------------------------------------
SenderStep ==
  \/ SendValue1
  \/ \E p \in Party : CollectEcho1(p) \/ CollectEcho2(p)
  \/ SenderCancelled

ReceiverStep(p) ==
  \/ ReceiveValue1(p)
  \/ CancelReceive1(p)
  \/ ReceiveValue2(p)
  \/ CancelReceive2(p)
  \/ StoreLock(p)

MainStep(p) == ShortCut(p) \/ PreVote(p)

Next ==
  \/ Sender \in Up /\ SenderStep
  \/ \E p \in Up :
       \/ ReceiverStep(p)
       \/ MainStep(p)
       \/ LeaderElected(p)
       \/ HaltedBeforeLeader(p)

Spec == Init /\ [][Next]_vars

(***************************************************************************)
(* The Go scheduler runs every runnable goroutine of a process that stays  *)
(* up, and TCP delivers what was sent.  Nothing forces an election.        *)
(***************************************************************************)
Fairness ==
  /\ Sender \in Up => WF_vars(SenderStep)
  /\ \A p \in Up : WF_vars(ReceiverStep(p)) /\ WF_vars(MainStep(p))

FairSpec == Spec /\ Fairness

-----------------------------------------------------------------------------
(***************************************************************************)
(* Once Finish is broadcast, 2F+1 "no" PreVotes can never exist: every     *)
(* party that echoed PB 2 votes "yes" if it votes at all.  This is why a   *)
(* round whose short-cut some party takes cannot be skipped by others; it  *)
(* rests on wg.Wait() standing between spbCancel() and the read of Lr.     *)
(***************************************************************************)
NoVotes == {p \in Party : preVote[p] = "no"}

FinishExcludesNoQuorum == sender = "finish" => ~IsQuorum(NoVotes)

(***************************************************************************)
(* A party's PreVote agrees with what it told the sender: "yes" exactly if *)
(* it sent the Echo of PB 2, then and for ever after.                      *)
(***************************************************************************)
Locked == echo[2] \cup sigs[2]

PreVoteMatchesEcho ==
  \A p \in Party : preVote[p] # "none" => (preVote[p] = "yes" <=> p \in Locked)

(***************************************************************************)
(* No receiver of an honest sender reaches log.Fatalln: a Value of PB 2    *)
(* always carries a signature that verifies.                               *)
(***************************************************************************)
NoFatal == \A p \in Party : receiver[p] # "fatal"

(***************************************************************************)
(* wg.Wait() returns at every party that stays up: no goroutine it counts  *)
(* outlives the cancellation.                                              *)
(***************************************************************************)
Waiting(p) == main[p] = "waiting"

WaitReturns == \A p \in Up : Waiting(p) ~> ~Waiting(p)

(***************************************************************************)
(* With 2F+1 parties up, the sender among them, Finish is broadcast unless *)
(* the round's end cancels some instance first.                            *)
(***************************************************************************)
SomeCancelled == \E p \in Party : Cancelled(p)

SenderFinishes == <>(sender = "finish" \/ SomeCancelled)

(***************************************************************************)
(* What the round relies on: module LeaderLock, with a party locked from   *)
(* the moment it sends its Echo of PB 2.                                   *)
(***************************************************************************)
LL == INSTANCE LeaderLock
        WITH locked <- Locked, finished <- (sender = "finish")

ImplementsLeaderLock == LL!Spec
=============================================================================
