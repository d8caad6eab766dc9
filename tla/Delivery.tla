------------------------------ MODULE Delivery ------------------------------
(***************************************************************************)
(* What party.Broadcast and party.GetMessage promise the protocols above   *)
(* them: a message sent is on its way until the receiver reads it from its *)
(* topic's channel, once, and those on their way arrive in any order.      *)
(***************************************************************************)
CONSTANTS
  Party, Topic,
  Traffic   \* <<p, t>>: p broadcasts one message with topic t

VARIABLES
  network,  \* <<b, q>>: the message b on its way to q
  read      \* read[q][t]: the senders whose message was read

vars == <<network, read>>

Init ==
  /\ network = {}
  /\ read = [q \in Party |-> [t \in Topic |-> {}]]

(* The turn of a Broadcast for the receiver q, which no message has twice. *)
Send(b, q) ==
  /\ <<b, q>> \notin network
  /\ b[1] \notin read[q][b[2]]
  /\ network' = network \cup {<<b, q>>}
  /\ UNCHANGED read

(* A goroutine of q takes the message of b from the channel of its topic.  *)
Read(b, q) ==
  /\ <<b, q>> \in network
  /\ network' = network \ {<<b, q>>}
  /\ read' = [read EXCEPT ![q][b[2]] = @ \cup {b[1]}]

Next == \E b \in Traffic, q \in Party : Send(b, q) \/ Read(b, q)

Spec == Init /\ [][Next]_vars
=============================================================================
