----------------------------- MODULE LeaderLock -----------------------------
(***************************************************************************)
(* What a round of SMVBA gets from the strong provable broadcast of its    *)
(* leader: parties lock the leader's value one by one, Finish needs a      *)
(* quorum of locks, and a party's PreVote closes its lock for good.        *)
(***************************************************************************)
EXTENDS Quorums

VARIABLES
  locked,    \* parties holding the leader's Lock
  finished,  \* the leader has broadcast Finish
  preVote    \* the PreVote of each party

vars == <<locked, finished, preVote>>

Init ==
  /\ locked = {}
  /\ finished = FALSE
  /\ preVote = [p \in Party |-> "none"]

LockLeader(p) ==
  /\ preVote[p] = "none"
  /\ locked' = locked \cup {p}
  /\ UNCHANGED <<finished, preVote>>

Finish ==
  /\ IsQuorum(locked)
  /\ finished' = TRUE
  /\ UNCHANGED <<locked, preVote>>

PreVote(p) ==
  /\ preVote[p] = "none"
  /\ preVote' = [preVote EXCEPT ![p] = IF p \in locked THEN "yes" ELSE "no"]
  /\ UNCHANGED <<locked, finished>>

Next ==
  \/ Finish
  \/ \E p \in Party : LockLeader(p) \/ PreVote(p)

Spec == Init /\ [][Next]_vars
=============================================================================
