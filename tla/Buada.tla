------------------------------- MODULE Buada -------------------------------
(***************************************************************************)
(* An epoch as aab.Buada and acs.BuadaACS run it: one provable broadcast   *)
(* per party, the Finals they end with, MVBA on 2F+1 of those, the help    *)
(* for proposals that are not in Pr, and the decryption.                   *)
(*                                                                         *)
(* A proposal is known by its proposer's pid.  The parts are taken at      *)
(* their promises: pb.Sender ends on 2F+1 Echoes (module SPB follows its   *)
(* slice), MVBA agrees on an input (modules SMVBA and MVBA), CallHelp      *)
(* returns what F+1 callers hold (module VDD).                             *)
(***************************************************************************)
EXTENDS Quorums

CONSTANTS
  Steady,  \* the parties that never stop; the others may at any point
  Reach,   \* <<p, j>>: the Value of j reaches p before the epoch is over
  Slow     \* <<p, j>>: p's goroutine for j may be held up before Pr.Store

ASSUME BuadaAssumption ==
  /\ Steady \in SUBSET Party
  /\ IsQuorum(Steady)
  /\ Reach \in SUBSET (Party \X Party)

VARIABLES
  receiver,  \* receiver[p][j]: where p's goroutine around pb.Receiver of j is
  final,     \* the parties that broadcast Final
  input,     \* input[p]: the pids p calls MVBA with
  chosen,    \* the pids MVBA returns, {} before it has
  main       \* where each party's Buada is

vars == <<receiver, final, input, chosen, main>>

FinalSet == {S \in SUBSET Party : Cardinality(S) = 2 * F + 1}

TypeOK ==
  /\ receiver \in [Party -> [Party -> {"waiting", "echoed", "stored"}]]
  /\ final \in SUBSET Party
  /\ input \in [Party -> FinalSet \cup {{}}]
  /\ chosen \in FinalSet \cup {{}}
  /\ main \in [Party -> {"finals", "mvba", "help", "dec", "returned"}]

Init ==
  /\ receiver = [p \in Party |-> [j \in Party |-> "waiting"]]
  /\ final = {}
  /\ input = [p \in Party |-> {}]
  /\ chosen = {}
  /\ main = [p \in Party |-> "finals"]

-----------------------------------------------------------------------------
(* The provable broadcasts.                                                *)

(***************************************************************************)
(* pb.Receiver takes the Value of j and sends the Echo; Pr.Store comes     *)
(* after, and unless p is slow there before anything that matters.         *)
(***************************************************************************)
Receive(p, j) ==
  /\ <<p, j>> \in Reach
  /\ receiver[p][j] = "waiting"
  /\ receiver' = [receiver EXCEPT ![p][j] =
                    IF <<p, j>> \in Slow THEN "echoed" ELSE "stored"]
  /\ UNCHANGED <<final, input, chosen, main>>

(* Pr.Store, while CallHelp has yet to read Pr; it is not read again.      *)
Store(p, j) ==
  /\ receiver[p][j] = "echoed"
  /\ main[p] \in {"finals", "mvba"}
  /\ receiver' = [receiver EXCEPT ![p][j] = "stored"]
  /\ UNCHANGED <<final, input, chosen, main>>

Echoers(j) == {p \in Party : receiver[p][j] # "waiting"}
Pr(p) == {j \in Party : receiver[p][j] = "stored"}

(* Mutant: F+1 Echoes make a Final.                                        *)
FinalEarly(j) ==
  /\ j \notin final
  /\ Cardinality(Echoers(j)) > F
  /\ final' = final \cup {j}
  /\ UNCHANGED <<receiver, input, chosen, main>>

(* pb.Sender of j returns a signature of 2F+1 Echoes.                      *)
Final(j) ==
  /\ j \notin final
  /\ IsQuorum(Echoers(j))
  /\ final' = final \cup {j}
  /\ UNCHANGED <<receiver, input, chosen, main>>

-----------------------------------------------------------------------------
(* BuadaACS and Buada of p.                                                *)

(***************************************************************************)
(* The Final handler has taken the Finals of S, in some order, and writes  *)
(* mvbaValueChannel; mvba.MainProcess is called.  S is what Collected      *)
(* allows.  Mutants: F+1 Finals; all that have arrived.                    *)
(***************************************************************************)
CollectedEarly(S) == Cardinality(S) = F + 1
CollectedAll(S) == S = final /\ IsQuorum(S)

Collected(S) == Cardinality(S) = 2 * F + 1

CollectFinals(p, S) ==
  /\ main[p] = "finals"
  /\ S \subseteq final
  /\ Collected(S)
  /\ input' = [input EXCEPT ![p] = S]
  /\ main' = [main EXCEPT ![p] = "mvba"]
  /\ UNCHANGED <<receiver, final, chosen>>

Entered == {p \in Party : main[p] # "finals"}

(***************************************************************************)
(* mvba.MainProcess returns the same input of some party everywhere, after *)
(* 2F+1 parties entered it.  CallHelp then reads Pr.                       *)
(* Mutant: CallHelp is given p's own set.                                  *)
(***************************************************************************)
ReturnMVBAOwn(p) ==
  /\ main[p] = "mvba"
  /\ IsQuorum(Entered)
  /\ chosen' = input[p]
  /\ main' = [main EXCEPT ![p] = "help"]
  /\ UNCHANGED <<receiver, final, input>>

ReturnMVBA(p) ==
  /\ main[p] = "mvba"
  /\ IsQuorum(Entered)
  /\ chosen = {} => \E q \in Entered : chosen' = input[q]
  /\ chosen # {} => UNCHANGED chosen
  /\ main' = [main EXCEPT ![p] = "help"]
  /\ UNCHANGED <<receiver, final, input>>

Calling == {p \in Party : main[p] \in {"help", "dec", "returned"}}
Holders(j) == {p \in Calling : j \in Pr(p)}

(***************************************************************************)
(* CallHelp returns: F+1 callers answered Strong for whatever p lacks.     *)
(* cancel() ends p's provable broadcasts, helpListener stays.  The shares  *)
(* of all chosen proposals are broadcast in one Dec.                       *)
(***************************************************************************)
ReturnHelp(p) ==
  /\ main[p] = "help"
  /\ \A j \in chosen \ Pr(p) : Cardinality(Holders(j)) > F
  /\ main' = [main EXCEPT ![p] = "dec"]
  /\ UNCHANGED <<receiver, final, input, chosen>>

DecSenders == {p \in Party : main[p] \in {"dec", "returned"}}

(* Mutant: the shares of all parties are waited for.                       *)
DecryptAll(p) ==
  /\ main[p] = "dec"
  /\ DecSenders = Party
  /\ main' = [main EXCEPT ![p] = "returned"]
  /\ UNCHANGED <<receiver, final, input, chosen>>

(* decShareMaps hold more than F+1 shares of each proposal.                *)
Decrypt(p) ==
  /\ main[p] = "dec"
  /\ Cardinality(DecSenders) > F + 1
  /\ main' = [main EXCEPT ![p] = "returned"]
  /\ UNCHANGED <<receiver, final, input, chosen>>

-----------------------------------------------------------------------------
Next ==
  \E p \in Party :
    \/ \E j \in Party : Receive(p, j) \/ Store(p, j)
    \/ Final(p)
    \/ \E S \in SUBSET Party : CollectFinals(p, S)
    \/ ReturnMVBA(p)
    \/ ReturnHelp(p)
    \/ Decrypt(p)

Spec == Init /\ [][Next]_vars

Cancelled(p) == main[p] \in {"dec", "returned"}

(* What CallHelp needs to return everywhere (Held and FewLack of VDD).     *)
Held ==
  \A j \in chosen :
    /\ Cardinality({p \in Calling \cap Steady : j \in Pr(p)}) > F
    /\ Cardinality({p \in Calling : j \notin Pr(p)}) <= F + 1

(***************************************************************************)
(* Goroutines of steady parties run; those of the provable broadcasts only *)
(* until cancel().  That MVBA returns once the steady parties have entered *)
(* it is an assumption: where the code may hang there is the matter of     *)
(* modules Round and MVBA.  CallHelp returns if enough steady parties hold *)
(* what is asked for, as module VDD shows.                                 *)
(***************************************************************************)
Fairness ==
  \A p \in Steady :
    /\ \A j \in Party : /\ WF_vars(~ Cancelled(p) /\ Receive(p, j))
                        /\ WF_vars(Store(p, j))
    /\ WF_vars(~ Cancelled(p) /\ Final(p))
    /\ WF_vars(\E S \in SUBSET Party : CollectFinals(p, S))
    /\ WF_vars(Steady \subseteq Entered /\ ReturnMVBA(p))
    /\ WF_vars(Held /\ ReturnHelp(p))
    /\ WF_vars(Decrypt(p))

FairSpec == Spec /\ Fairness

-----------------------------------------------------------------------------
(***************************************************************************)
(* A party that returns from BuadaACS ends its receivers and its sender,   *)
(* which others may be waiting for.  It does no harm: by then 2F+1 Finals  *)
(* are out, so nobody needs one more broadcast to end.                     *)
(***************************************************************************)
CancelHarmless ==
  (\E p \in Party : Cancelled(p)) => IsQuorum(final)

(***************************************************************************)
(* What VDD presumes: once the steady parties have all called for help,    *)
(* F+1 of them hold each chosen proposal, and no more than F+1 callers     *)
(* lack it, unless CallHelp of some party read Pr between the party's Echo *)
(* and its Pr.Store.                                                       *)
(***************************************************************************)
Overtaken == \E p \in Calling : \E j \in chosen : receiver[p][j] = "echoed"

ProvidesHeld == Steady \subseteq Calling /\ ~ Overtaken => Held

(***************************************************************************)
(* With 2F+1 steady parties every one of them ends the epoch, whenever the *)
(* others stop, unless a Pr.Store was overtaken.                           *)
(***************************************************************************)
Ended == \A p \in Steady : main[p] = "returned"

BuadaEnds == <>(Overtaken \/ Ended)

(***************************************************************************)
(* BuadaACS returns a common subset: one set of 2F+1 proposals or more,    *)
(* whichever Finals each party came by first.                              *)
(***************************************************************************)
CS == INSTANCE CommonSubset
        WITH output <- [p \in Party |-> IF Cancelled(p) THEN chosen ELSE {}]

ImplementsCommonSubset == CS!Spec
=============================================================================
