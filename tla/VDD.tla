-------------------------------- MODULE VDD --------------------------------
(***************************************************************************)
(* Vector data dissemination (internal/vdd): a party that lacks some of    *)
(* the chosen proposals calls the others.  A holder answers Strong, with   *)
(* its own share and the caller's; any other answers Weak once it has its  *)
(* own share, called the star, from F+1 Strong of its own.                 *)
(*                                                                         *)
(* Shares are counted: those of one proposal come from different parties.  *)
(* A message whose list is empty changes nothing and is left out.          *)
(***************************************************************************)
EXTENDS Quorums

CONSTANTS
  Chosen,   \* the pids of finalSet, one proposal each
  Missing,  \* the possible contents of requiredPIDs at all parties
  Up        \* the parties that are up; the others never take a step

ASSUME VDDAssumption ==
  /\ Missing \subseteq [Party -> SUBSET Chosen]
  /\ Up \in SUBSET Party

VARIABLES
  main,        \* where each party's CallHelp is
  required,    \* required[p]: the proposals p does not find in Pr
  resultSet,   \* resultSet[p]: the proposals p has
  calls,       \* Call messages, as <<caller, helper>>
  missed,      \* <<i, c, j>>: i, about to help c, looked for j just too early
  strong,      \* Strong messages not yet taken
  helping,     \* weakHelp goroutines not yet over, as the message they will send
  weak,        \* Weak messages not yet taken
  starShares,  \* starShares[p][j]: whose Strong p's slice for proposal j is from
  starWait,    \* starWait[p][j]: the counter of the wait group
  shares,      \* shares[p][j]: how many were put into decodeShareChannel
  decoder      \* where the goroutine of onlineErrorCorrection is

vars == <<main, required, resultSet, calls, missed, strong, helping, weak,
          starShares, starWait, shares, decoder>>

Answer == [from : Party, to : Party, list : (SUBSET Chosen) \ {{}}]

TypeOK ==
  /\ main \in [Party -> {"start", "calling", "returned"}]
  /\ required \in [Party -> SUBSET Chosen]
  /\ resultSet \in [Party -> SUBSET Chosen]
  /\ calls \subseteq Party \X Party
  /\ missed \subseteq Party \X Party \X Chosen
  /\ strong \subseteq Answer
  /\ helping \subseteq Answer
  /\ weak \subseteq Answer
  /\ starShares \in [Party -> [Chosen -> SUBSET Party]]
  /\ starWait \in [Party -> [Chosen -> {0, 1}]]
  /\ shares \in [Party -> [Chosen -> Nat]]
  /\ decoder \in [Party -> [Chosen -> {"decoding", "stored", "finished"}]]

Init ==
  /\ main = [p \in Party |-> "start"]
  /\ required \in Missing
  /\ resultSet = [p \in Party |-> Chosen \ required[p]]
  /\ calls = {}
  /\ missed = {}
  /\ strong = {}
  /\ helping = {}
  /\ weak = {}
  /\ starShares = [p \in Party |-> [j \in Chosen |-> {}]]
  /\ starWait = [p \in Party |-> [j \in Chosen |-> 1]]
  /\ shares = [p \in Party |-> [j \in Chosen |-> 0]]
  /\ decoder = [p \in Party |-> [j \in Chosen |-> "decoding"]]

-----------------------------------------------------------------------------
(* The caller.                                                             *)

(* helpListener is started; Call goes to all but the caller itself.        *)
CallHelp(p) ==
  /\ main[p] = "start"
  /\ IF required[p] = {}
     THEN main' = [main EXCEPT ![p] = "returned"] /\ UNCHANGED calls
     ELSE /\ main' = [main EXCEPT ![p] = "calling"]
          /\ calls' = calls \cup ({p} \X (Party \ {p}))
  /\ UNCHANGED <<required, resultSet, missed, strong, helping, weak,
                 starShares, starWait, shares, decoder>>

(* The proposals of a message that isFinish does not skip.                 *)
Open(m) == {j \in m.list : decoder[m.to][j] # "finished"}

(* One more share for each proposal of S in p's channels.                  *)
Push(f, p, S) ==
  [f EXCEPT ![p] = [j \in Chosen |-> IF j \in S THEN @[j] + 1 ELSE @[j]]]

(***************************************************************************)
(* A Strong gives the sender's share and the caller's; the F+1st of the    *)
(* latter is the star.                                                     *)
(***************************************************************************)
StrongOf(m) ==
  [starShares EXCEPT ![m.to] =
     [j \in Chosen |-> IF j \in Open(m) THEN @[j] \cup {m.from} ELSE @[j]]]

(* Mutant: the test is >= F+1.                                             *)
StarsAgain(m) == {j \in Open(m) : Cardinality(StrongOf(m)[m.to][j]) > F}

Stars(m) == {j \in Open(m) : Cardinality(StrongOf(m)[m.to][j]) = F + 1}

(* Own: the proposals whose star, too, goes into decodeShareChannel.       *)
CollectStrong(m, own) ==
  /\ main[m.to] = "calling"
  /\ m \in strong
  /\ strong' = strong \ {m}
  /\ starShares' = StrongOf(m)
  /\ shares' = Push(Push(shares, m.to, Open(m)), m.to, own)
  /\ starWait' = [starWait EXCEPT ![m.to] =
                    [j \in Chosen |-> IF j \in Stars(m) THEN @[j] - 1 ELSE @[j]]]
  /\ UNCHANGED <<main, required, resultSet, calls, missed, helping, weak,
                 decoder>>

(* Mutants: the star is only kept for weakHelp; the caller's share goes    *)
(* to the decoder with every Strong.                                       *)
TakeStrongNoStar(m) == CollectStrong(m, {})
TakeStrongBoth(m)   == CollectStrong(m, Open(m))

TakeStrong(m) == CollectStrong(m, Stars(m))

TakeWeak(m) ==
  /\ main[m.to] = "calling"
  /\ m \in weak
  /\ weak' = weak \ {m}
  /\ shares' = Push(shares, m.to, Open(m))
  /\ UNCHANGED <<main, required, resultSet, calls, missed, strong, helping,
                 starShares, starWait, decoder>>

(* Mutant: finishWait counts one decoder in the place of all.              *)
ReturnFirst(p) ==
  /\ main[p] = "calling"
  /\ \E j \in required[p] : decoder[p][j] = "finished"
  /\ main' = [main EXCEPT ![p] = "returned"]
  /\ UNCHANGED <<required, resultSet, calls, missed, strong, helping, weak,
                 starShares, starWait, shares, decoder>>

(* finishWait is over and haltChannel is read.                             *)
Return(p) ==
  /\ main[p] = "calling"
  /\ \A j \in required[p] : decoder[p][j] = "finished"
  /\ main' = [main EXCEPT ![p] = "returned"]
  /\ UNCHANGED <<required, resultSet, calls, missed, strong, helping, weak,
                 starShares, starWait, shares, decoder>>

-----------------------------------------------------------------------------
(***************************************************************************)
(* The callers that helpListener of p may be looking up the proposals of   *)
(* when it gets j: one at a time, and with others of them not yet there,   *)
(* or it could as well have looked for all of them before.  The order of   *)
(* the proposals is left open.                                             *)
(***************************************************************************)
Listening(p, j) ==
  {c \in Party : /\ <<c, p>> \in calls
                 /\ j \in required[c]
                 /\ \A m \in missed : m[1] = p => m[2] = c
                 /\ ~ (required[c] \subseteq resultSet[p] \cup {j})}

(* onlineErrorCorrection.  2F+1 shares decode to the proposal, which       *)
(* helpListener of p may just have looked for.                             *)
Decode(p, j) ==
  /\ j \in required[p]
  /\ decoder[p][j] = "decoding"
  /\ shares[p][j] > 2 * F
  /\ resultSet' = [resultSet EXCEPT ![p] = @ \cup {j}]
  /\ decoder' = [decoder EXCEPT ![p][j] = "stored"]
  /\ \/ UNCHANGED missed
     \/ \E c \in Listening(p, j) : missed' = missed \cup {<<p, c, j>>}
  /\ UNCHANGED <<main, required, calls, strong, helping, weak, starShares,
                 starWait, shares>>

(* Finish, then finishWait.Done.                                           *)
Finish(p, j) ==
  /\ decoder[p][j] = "stored"
  /\ decoder' = [decoder EXCEPT ![p][j] = "finished"]
  /\ UNCHANGED <<main, required, resultSet, calls, missed, strong, helping,
                 weak, starShares, starWait, shares>>

-----------------------------------------------------------------------------
(* The helper: helpListener, strongHelp, weakHelp.                         *)

To(i, c, list) ==
  IF list = {} THEN {} ELSE {[from |-> i, to |-> c, list |-> list]}

(* What c requires and i found in resultSet.                               *)
Found(i, c) == {j \in required[c] \cap resultSet[i] : <<i, c, j>> \notin missed}

(* Every proposal of the Call of c has been looked for.                    *)
Help(i, c) ==
  /\ main[i] # "start"
  /\ <<c, i>> \in calls
  /\ \A m \in missed : m[1] = i => m[2] = c
  /\ calls' = calls \ {<<c, i>>}
  /\ missed' = {m \in missed : m[1] # i}
  /\ strong' = strong \cup To(i, c, Found(i, c))
  /\ helping' = helping \cup To(i, c, required[c] \ Found(i, c))
  /\ UNCHANGED <<main, required, resultSet, weak, starShares, starWait,
                 shares, decoder>>

(* Every star of the list has been waited for.                             *)
SendWeak(m) ==
  /\ m \in helping
  /\ \A j \in m.list : starWait[m.from][j] = 0
  /\ helping' = helping \ {m}
  /\ weak' = weak \cup {m}
  /\ UNCHANGED <<main, required, resultSet, calls, missed, strong, starShares,
                 starWait, shares, decoder>>

-----------------------------------------------------------------------------
CallerStep(p) ==
  \/ CallHelp(p)
  \/ \E m \in strong : m.to = p /\ TakeStrong(m)
  \/ \E m \in weak : m.to = p /\ TakeWeak(m)
  \/ Return(p)

DecoderStep(p, j) == Decode(p, j) \/ Finish(p, j)

HelperStep(p) ==
  \/ \E c \in Party : Help(p, c)
  \/ \E m \in helping : m.from = p /\ SendWeak(m)

Step(p) ==
  \/ CallerStep(p)
  \/ \E j \in Chosen : DecoderStep(p, j)
  \/ HelperStep(p)

Next == \E p \in Up : Step(p)

Spec == Init /\ [][Next]_vars

(* None of these goroutines has a context: each runs as long as its        *)
(* process, CallHelp until it returns.                                     *)
Fairness ==
  \A p \in Up :
    /\ WF_vars(CallerStep(p))
    /\ \A j \in Chosen : WF_vars(DecoderStep(p, j))
    /\ WF_vars(HelperStep(p))

FairSpec == Spec /\ Fairness

-----------------------------------------------------------------------------
(***************************************************************************)
(* A party returns with every chosen proposal, whichever goroutine put it  *)
(* into resultSet.                                                         *)
(***************************************************************************)
ReturnedComplete ==
  \A p \in Party : main[p] = "returned" => resultSet[p] = Chosen

(***************************************************************************)
(* decodeShareChannel holds N shares and its reader leaves once it has     *)
(* decoded, so the main loop would block for ever on one share too many.   *)
(* There is never one, even if none is read.                               *)
(***************************************************************************)
ChannelSuffices == \A p \in Party, j \in Chosen : shares[p][j] <= N

(***************************************************************************)
(* What a caller counts on: F+1 of the parties that are up find each       *)
(* proposal in Pr.                                                         *)
(***************************************************************************)
Held == \A j \in Chosen : Cardinality({p \in Up : j \notin required[p]}) > F

(* At most F+1 of them do not.                                             *)
FewLack == \A j \in Chosen : Cardinality({p \in Up : j \in required[p]}) <= F + 1

(***************************************************************************)
(* CallHelp then returns at all parties that are up: no weakHelp waits for *)
(* a star that depends on its own answer, or that comes too late.          *)
(***************************************************************************)
CallsEnd == Held /\ FewLack => <>(\A p \in Up : main[p] = "returned")

(* No goroutine of p can go on.                                            *)
Idle(p) ==
  /\ main[p] # "start"
  /\ main[p] = "calling" =>
       /\ \A m \in strong \cup weak : m.to # p
       /\ \E j \in required[p] : decoder[p][j] # "finished"
  /\ \A j \in required[p] :
       \/ decoder[p][j] = "decoding" /\ shares[p][j] <= 2 * F
       \/ decoder[p][j] = "finished"
  /\ \A c \in Party : <<c, p>> \notin calls
  /\ \A m \in helping : m.from = p => \E j \in m.list : starWait[p][j] > 0

(***************************************************************************)
(* Parties are never all idle before they have returned.  vdd_test.go:93   *)
(* waits for CallHelp to return at all N parties, F+1 of which hold each   *)
(* proposal.  The code does not ensure it: a proposal that is decoded      *)
(* before its star has come has none for ever.                             *)
(***************************************************************************)
CallsAlive ==
  Held /\ (\A p \in Up : Idle(p)) => \A p \in Up : main[p] = "returned"
=============================================================================
