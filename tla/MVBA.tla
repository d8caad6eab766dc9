-------------------------------- MODULE MVBA --------------------------------
(***************************************************************************)
(* mvba.MainProcess with its provable dispersal and recast (internal/mvba):*)
(* the dispersal of the party whose proposal smvba.MainProcess returns,    *)
(* and what each party does with that result.                              *)
(*                                                                         *)
(* A shard is known by the party it was made for, a signature by the       *)
(* parties whose shares it is made of, a vc by the padded bytes that it    *)
(* commits to.  The dispersals of the other parties only decide when those *)
(* enter SMVBA, which is left open; SMVBA is as module Consensus says.  A  *)
(* party whose recast fails goes to another round, which is not followed:  *)
(* TypeOK and ReturnedWhole say that none does.                            *)
(***************************************************************************)
EXTENDS Quorums, Codec

CONSTANTS
  Leader,     \* the party whose proposal SMVBA returns
  Up,         \* the parties that are up; the others never take a step
  Proposals   \* the values, with their validations, the leader may have

(* NewFEC makes no coder for more than 256 shares, and a validation's      *)
(* length is written as four bytes.                                        *)
ASSUME MVBAAssumption ==
  /\ Leader \in Party
  /\ Up \in SUBSET Party
  /\ N <= 256
  /\ Proposals \subseteq [value : Seq(Byte), validation : Seq(Byte)]
  /\ \A i \in Proposals : FourBytes(Len(i.validation))

VARIABLES
  sender,    \* where PDSender of the leader is
  store,     \* parties whose "Store" channel holds the leader's message
  receiver,  \* where each party's PDReceiver goroutine for the leader is
  stored,    \* Stored messages waiting for the leader
  sigs,      \* the sigs slice of PDSender
  main,      \* where each party's MainProcess is
  recast,    \* the parties that broadcast Recast
  shares,    \* shares[p]: whose shards p's Recast has appended to shares
  proposal,  \* the value and the validation the leader calls MVBA with
  result     \* result[p]: what p's MainProcess returned, empty before

vars == <<sender, store, receiver, stored, sigs, main, recast, shares,
          proposal, result>>

TypeOK ==
  /\ sender \in {"start", "collecting", "locked"}
  /\ store \in SUBSET Party
  /\ receiver \in [Party -> {"waiting", "stored", "saved"}]
  /\ stored \in SUBSET Party
  /\ sigs \in SUBSET Party
  /\ main \in [Party -> {"pd", "smvba", "recast", "returned"}]
  /\ recast \in SUBSET Party
  /\ shares \in [Party -> SUBSET Party]
  /\ proposal \in Proposals
  /\ result \in [Party -> Seq(Byte)]

Init ==
  /\ sender = "start"
  /\ store = {}
  /\ receiver = [p \in Party |-> "waiting"]
  /\ stored = {}
  /\ sigs = {}
  /\ main = [p \in Party |-> "pd"]
  /\ recast = {}
  /\ shares = [p \in Party |-> {}]
  /\ proposal \in Proposals
  /\ result = [p \in Party |-> <<>>]

(* The parties whose Sr holds the leader's Store.                          *)
Sr == {p \in Party : receiver[p] = "saved"}

-----------------------------------------------------------------------------
(* What PDSender encodes and commits to with vc.                           *)
Encoded(m) == Pad(m, F + 1)

Message == ValueAndValidation(proposal.value, proposal.validation)

(* The dispersal: PDSender of the leader, PDReceiver of every party.       *)

SendStore ==
  /\ sender = "start"
  /\ sender' = "collecting"
  /\ store' = Party
  /\ UNCHANGED <<receiver, stored, sigs, main, recast, shares,
                 proposal, result>>

(* The shard's proof verifies; the Stored leaves before Sr.Store.          *)
ReceiveStore(p) ==
  /\ receiver[p] = "waiting"
  /\ p \in store
  /\ store' = store \ {p}
  /\ stored' = stored \cup {p}
  /\ receiver' = [receiver EXCEPT ![p] = "stored"]
  /\ UNCHANGED <<sender, sigs, main, recast, shares, proposal, result>>

SaveStore(p) ==
  /\ receiver[p] = "stored"
  /\ receiver' = [receiver EXCEPT ![p] = "saved"]
  /\ UNCHANGED <<sender, store, stored, sigs, main, recast, shares,
                 proposal, result>>

(* Mutant: F+1 Stored end the dispersal.                                   *)
CollectStoredEarly(p) ==
  /\ sender = "collecting"
  /\ p \in stored
  /\ stored' = stored \ {p}
  /\ sigs' = sigs \cup {p}
  /\ sender' = IF Cardinality(sigs') > F THEN "locked" ELSE sender
  /\ UNCHANGED <<store, receiver, main, recast, shares, proposal, result>>

CollectStored(p) ==
  /\ sender = "collecting"
  /\ p \in stored
  /\ stored' = stored \ {p}
  /\ sigs' = sigs \cup {p}
  /\ sender' = IF IsQuorum(sigs') THEN "locked" ELSE sender
  /\ UNCHANGED <<store, receiver, main, recast, shares, proposal, result>>

-----------------------------------------------------------------------------
(* MainProcess.                                                            *)

(* pdResult holds vc and sig of p's own dispersal: smvba.MainProcess.      *)
EnterSMVBA(p) ==
  /\ main[p] = "pd"
  /\ p = Leader => sender = "locked"
  /\ main' = [main EXCEPT ![p] = "smvba"]
  /\ UNCHANGED <<sender, store, receiver, stored, sigs, recast, shares,
                 proposal, result>>

(***************************************************************************)
(* SMVBA returns a proposal, so its proposer has entered, and so have 2F+1 *)
(* parties (module Election).  Sr is read once; Recast broadcasts the      *)
(* shard if the goroutine of PDReceiver has saved it by then.              *)
(***************************************************************************)
Entered == {p \in Party : main[p] # "pd"}

ReturnSMVBA(p) ==
  /\ main[p] = "smvba"
  /\ Leader \in Entered
  /\ IsQuorum(Entered)
  /\ main' = [main EXCEPT ![p] = "recast"]
  /\ recast' = IF p \in Sr THEN recast \cup {p} ELSE recast
  /\ UNCHANGED <<sender, store, receiver, stored, sigs, shares,
                 proposal, result>>

(* Mutant: the shards of all N parties are waited for.                     *)
DecodesAll(S) == Cardinality(S) = N

(* Recast waits for 2F+1 shards, though rsCoder needs F+1.                 *)
Decodes(S) == IsQuorum(S)

(***************************************************************************)
(* Recast of p takes j's shard.  With 2F+1 it decodes, and encodes again   *)
(* to see whether vc commits to the same; MainProcess returns the value.   *)
(***************************************************************************)
TakeRecast(p, j) ==
  /\ main[p] = "recast"
  /\ j \in recast \ shares[p]
  /\ shares' = [shares EXCEPT ![p] = @ \cup {j}]
  /\ IF ~ Decodes(shares'[p]) THEN UNCHANGED <<main, result>>
     ELSE LET decoded == Unpad(Encoded(Message))
              same    == Encoded(decoded) = Encoded(Message)
          IN  /\ main' = [main EXCEPT ![p] =
                            IF same THEN "returned" ELSE "failed"]
              /\ result' = [result EXCEPT ![p] =
                              IF same THEN ResultValue(decoded) ELSE @]
  /\ UNCHANGED <<sender, store, receiver, stored, sigs, recast, proposal>>

-----------------------------------------------------------------------------
SenderStep == SendStore \/ \E p \in Party : CollectStored(p)

ReceiverStep(p) == ReceiveStore(p) \/ SaveStore(p)

MainStep(p) ==
  \/ EnterSMVBA(p)
  \/ ReturnSMVBA(p)
  \/ \E j \in Party : TakeRecast(p, j)

Next ==
  \/ Leader \in Up /\ SenderStep
  \/ \E p \in Up : ReceiverStep(p) \/ MainStep(p)

Spec == Init /\ [][Next]_vars

(***************************************************************************)
(* None of these goroutines has a context: each runs as long as its        *)
(* process.  The dispersals of the parties that are up end, and so does    *)
(* SMVBA where its rounds do.                                              *)
(***************************************************************************)
Fairness ==
  /\ Leader \in Up => WF_vars(SenderStep)
  /\ \A p \in Up : WF_vars(ReceiverStep(p)) /\ WF_vars(MainStep(p))

FairSpec == Spec /\ Fairness

-----------------------------------------------------------------------------
(***************************************************************************)
(* From the moment SMVBA returns the leader's proposal its value can be    *)
(* decoded: whichever F parties are lost, the others hold the F+1 shards   *)
(* that rsCoder needs.                                                     *)
(***************************************************************************)
Holders == {p \in Party : receiver[p] # "waiting"}

Retrievable ==
  (\E p \in Party : main[p] \in {"recast", "returned"}) =>
    \A gone \in SUBSET Party :
      Cardinality(gone) <= F => Cardinality(Holders \ gone) > F

(***************************************************************************)
(* What a party returns is the leader's value, byte for byte, whatever the *)
(* lengths of value and validation: the padding and the suffix that were   *)
(* added before dispersal come off again, and no recast fails.             *)
(***************************************************************************)
ReturnedWhole ==
  \A p \in Party :
    /\ main[p] # "failed"
    /\ main[p] = "returned" => result[p] = proposal.value

(***************************************************************************)
(* With 2F+1 parties up, the leader among them, each returns the value     *)
(* unless some of them came to Recast with no shard in Sr.                 *)
(***************************************************************************)
NoShard == \E p \in Up : main[p] = "recast" /\ p \notin recast

AllReturned == \A p \in Up : main[p] = "returned"

RecastEnds == <>(AllReturned \/ NoShard)

(***************************************************************************)
(* Recast never hangs: parties that have all come to it have a shard left  *)
(* to take, or have returned.  mvba_test.go:59 waits for MainProcess to    *)
(* return at all N parties.  The code does not ensure it: 2F+1 shards are  *)
(* waited for, and Sr may be read before the Store is saved.               *)
(***************************************************************************)
RecastAlive ==
  ~ \A p \in Up : main[p] = "recast" /\ recast \subseteq shares[p]
=============================================================================
