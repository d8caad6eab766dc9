----------------------------- MODULE Transport -----------------------------
(***************************************************************************)
(* The message channels under every protocol: party.Broadcast into one     *)
(* send channel per peer, the connections, one receive channel per party,  *)
(* and the dispatcher that moves messages to a channel per (type, ID)      *)
(* (internal/party/party.go, pkg/core).  Every other module assumes that   *)
(* what is sent arrives, once and in any order; here this is checked.      *)
(***************************************************************************)
EXTENDS Integers, Sequences, FiniteSets, Functions

CONSTANTS
  N,          \* the number of parties, and the capacity of a topic's channel
  Topic,      \* the pairs (type, ID) in use
  Traffic,    \* <<p, t>>: p broadcasts one message with topic t
  MAXMESSAGE, \* the capacity of a send channel and of a receive channel
  Stalled     \* parties whose process takes nothing from its connections

Party == 0 .. N - 1

ASSUME TransportAssumption ==
  /\ N \in Nat \ {0}
  /\ IsFiniteSet(Topic)
  /\ Traffic \subseteq Party \X Topic
  /\ Stalled \subseteq Party
  /\ MAXMESSAGE \in Nat
  /\ \A p \in Party : Cardinality({t \in Topic : <<p, t>> \in Traffic}) <= MAXMESSAGE

VARIABLES
  to,              \* to[b]: the destination Broadcast b has come to, N at its end
  sendChannels,    \* sendChannels[p][q]: the topics of p's messages for q
  receiveChannel,  \* receiveChannel[q]: the messages for the dispatcher of q
  topicChannels,   \* topicChannels[q][t]: the senders of the messages in it
  read,            \* read[q][t]: the senders whose message was read
  ended            \* the parties whose process has ended

vars == <<to, sendChannels, receiveChannel, topicChannels, read, ended>>

(* The last three conjuncts are the capacities of the channels.            *)
TypeOK ==
  /\ to \in [Traffic -> 0 .. N]
  /\ sendChannels \in [Party -> [Party -> Seq(Topic)]]
  /\ receiveChannel \in [Party -> Seq(Traffic)]
  /\ topicChannels \in [Party -> [Topic -> Seq(Party)]]
  /\ read \in [Party -> [Topic -> SUBSET Party]]
  /\ ended \in SUBSET Party
  /\ \A p, q \in Party : Len(sendChannels[p][q]) <= MAXMESSAGE
  /\ \A q \in Party : Len(receiveChannel[q]) <= MAXMESSAGE
  /\ \A q \in Party, t \in Topic : Len(topicChannels[q][t]) <= N

Init ==
  /\ to = [b \in Traffic |-> 0]
  /\ sendChannels = [p \in Party |-> [q \in Party |-> <<>>]]
  /\ receiveChannel = [q \in Party |-> <<>>]
  /\ topicChannels = [q \in Party |-> [t \in Topic |-> <<>>]]
  /\ read = [q \in Party |-> [t \in Topic |-> {}]]
  /\ ended = {}

Running(p) == p \notin ended

-----------------------------------------------------------------------------
(* Mutants: one place less, one place more.                                *)
HasRoomShort(ch, capacity) == Len(ch) < capacity - 1
HasRoomLong(ch, capacity)  == Len(ch) < capacity + 1

(* A write to a buffered channel goes through.                             *)
HasRoom(ch, capacity) == Len(ch) < capacity

(***************************************************************************)
(* Broadcast b: Send to the next party.  It blocks on a full channel, and  *)
(* the parties that come later then wait too.                              *)
(***************************************************************************)
CanSend(b) ==
  /\ Running(b[1])
  /\ to[b] < N
  /\ HasRoom(sendChannels[b[1]][to[b]], MAXMESSAGE)

Send(b) ==
  LET p == b[1]
      q == to[b]
  IN  /\ CanSend(b)
      /\ sendChannels' = [sendChannels EXCEPT ![p][q] = Append(@, b[2])]
      /\ to' = [to EXCEPT ![b] = q + 1]
      /\ UNCHANGED <<receiveChannel, topicChannels, read, ended>>

(***************************************************************************)
(* The goroutines at both ends of the connection from p to q move one      *)
(* message.  What the connection itself can hold is left out: it can only  *)
(* make a sender wait later.                                               *)
(***************************************************************************)
CanDeliver(p, q) ==
  /\ Running(p) /\ Running(q) /\ q \notin Stalled
  /\ sendChannels[p][q] # <<>>
  /\ HasRoom(receiveChannel[q], MAXMESSAGE)

Deliver(p, q) ==
  /\ CanDeliver(p, q)
  /\ sendChannels' = [sendChannels EXCEPT ![p][q] = Tail(@)]
  /\ receiveChannel' =
       [receiveChannel EXCEPT ![q] = Append(@, <<p, Head(sendChannels[p][q])>>)]
  /\ UNCHANGED <<to, topicChannels, read, ended>>

(***************************************************************************)
(* The dispatcher of q moves one message to its topic's channel, made here *)
(* or by GetMessage, whichever came first.  It blocks if that is full.     *)
(* Mutant: Store in the place of LoadOrStore.                              *)
(***************************************************************************)
DispatchStores(q) ==
  /\ Running(q)
  /\ receiveChannel[q] # <<>>
  /\ LET m == Head(receiveChannel[q])
     IN  topicChannels' = [topicChannels EXCEPT ![q][m[2]] = <<m[1]>>]
  /\ receiveChannel' = [receiveChannel EXCEPT ![q] = Tail(@)]
  /\ UNCHANGED <<to, sendChannels, read, ended>>

CanDispatch(q) ==
  /\ Running(q)
  /\ receiveChannel[q] # <<>>
  /\ HasRoom(topicChannels[q][Head(receiveChannel[q])[2]], N)

Dispatch(q) ==
  /\ CanDispatch(q)
  /\ LET m == Head(receiveChannel[q])
     IN  topicChannels' = [topicChannels EXCEPT ![q][m[2]] = Append(@, m[1])]
  /\ receiveChannel' = [receiveChannel EXCEPT ![q] = Tail(@)]
  /\ UNCHANGED <<to, sendChannels, read, ended>>

(* Some goroutine of q reads GetMessage(t); whether any still does is open.*)
Read(q, t) ==
  /\ Running(q)
  /\ topicChannels[q][t] # <<>>
  /\ read' = [read EXCEPT ![q][t] = @ \cup {Head(topicChannels[q][t])}]
  /\ topicChannels' = [topicChannels EXCEPT ![q][t] = Tail(@)]
  /\ UNCHANGED <<to, sendChannels, receiveChannel, ended>>

-----------------------------------------------------------------------------
(* main returns after WaitTime, however far the others are.                *)
End(p) ==
  /\ Running(p)
  /\ ended' = ended \cup {p}
  /\ UNCHANGED <<to, sendChannels, receiveChannel, topicChannels, read>>

(* A connection of q breaks: log.Fatalln in the goroutine that reads it    *)
(* (receive.go:53) or writes it (send.go:51).                              *)
Break(q) ==
  /\ Running(q) /\ q \notin Stalled
  /\ ended # {}
  /\ ended' = ended \cup {q}
  /\ UNCHANGED <<to, sendChannels, receiveChannel, topicChannels, read>>

-----------------------------------------------------------------------------
Next ==
  \/ \E b \in Traffic : Send(b)
  \/ \E p, q \in Party : Deliver(p, q)
  \/ \E q \in Party :
       \/ Dispatch(q)
       \/ \E t \in Topic : Read(q, t)
       \/ End(q)
       \/ Break(q)

Spec == Init /\ [][Next]_vars

(* The goroutines of the transport run; nobody has to read any topic, and  *)
(* no process has to end.                                                  *)
Fairness ==
  /\ \A b \in Traffic : WF_vars(Send(b))
  /\ \A p, q \in Party : WF_vars(Deliver(p, q))
  /\ \A q \in Party : WF_vars(Dispatch(q))

FairSpec == Spec /\ Fairness

-----------------------------------------------------------------------------
(***************************************************************************)
(* To the protocols above, the three kinds of channels are one network: a  *)
(* message comes to it with Send and leaves it with Read.  That Deliver    *)
(* and Dispatch change nothing there means that they lose no message, make *)
(* none, and take none to another topic or party.                          *)
(***************************************************************************)
InSend(b, q)    == b[2] \in Range(sendChannels[b[1]][q])
InReceive(b, q) == b \in Range(receiveChannel[q])
InTopic(b, q)   == b[1] \in Range(topicChannels[q][b[2]])

OnItsWay(b, q)  == InSend(b, q) \/ InReceive(b, q) \/ InTopic(b, q)

InTransit == {m \in Traffic \X Party : OnItsWay(m[1], m[2])}

D == INSTANCE Delivery WITH network <- InTransit

ImplementsDelivery == D!Spec

(***************************************************************************)
(* The dispatcher never blocks: a channel of capacity N takes all messages *)
(* of its topic, so topics nobody reads do not hold up the others.         *)
(***************************************************************************)
DispatcherFree ==
  \A q \in Party : receiveChannel[q] # <<>> =>
    HasRoom(topicChannels[q][Head(receiveChannel[q])[2]], N)

(***************************************************************************)
(* Every message comes to its channel at every party that takes messages,  *)
(* though a stalled one comes before it in Broadcast and takes none.       *)
(***************************************************************************)
Arrived(p, t, q) == p \in Range(topicChannels[q][t]) \cup read[q][t]

AllArrive ==
  <>(\/ ended # {}
     \/ \A b \in Traffic, q \in Party \ Stalled : Arrived(b[1], b[2], q))
=============================================================================
