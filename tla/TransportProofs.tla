-------------------------- MODULE TransportProofs --------------------------
(***************************************************************************)
(* The transport loses and copies nothing and none of its goroutines ever  *)
(* waits for a channel that stays full, for any number of parties and any  *)
(* traffic of one message for each sender and topic.                       *)
(*                                                                         *)
(* The argument: the places a message can be in exclude each other and no  *)
(* channel holds it twice.  So a channel for a topic holds at most one     *)
(* message of each party, a send channel at most one for each topic its    *)
(* party uses, and neither is full while such a message is yet to come.    *)
(***************************************************************************)
EXTENDS Transport, SequenceTheorems, FiniteSetTheorems, TLAPS

(* No channel holds a message twice, nor one that is not in the traffic.   *)
ChannelInv ==
  /\ \A p, q \in Party :
       /\ IsInjective(sendChannels[p][q])
       /\ \A t \in Range(sendChannels[p][q]) : <<p, t>> \in Traffic
  /\ \A q \in Party : IsInjective(receiveChannel[q])
  /\ \A q \in Party, t \in Topic :
       /\ IsInjective(topicChannels[q][t])
       /\ \A p \in Range(topicChannels[q][t]) : <<p, t>> \in Traffic

(* Where the message b for q is.                                           *)
Unsent(b, q)      == to[b] <= q
WasRead(b, q)     == b[1] \in read[q][b[2]]

(* It is somewhere, and nowhere else.                                      *)
Placed(b, q) ==
  /\ Unsent(b, q) \/ InSend(b, q) \/ InReceive(b, q) \/ InTopic(b, q)
       \/ WasRead(b, q)
  /\ Unsent(b, q) => ~ InSend(b, q)
  /\ Unsent(b, q) \/ InSend(b, q) => ~ InReceive(b, q)
  /\ Unsent(b, q) \/ InSend(b, q) \/ InReceive(b, q) => ~ InTopic(b, q)
  /\ Unsent(b, q) \/ InSend(b, q) \/ InReceive(b, q) \/ InTopic(b, q) =>
       ~ WasRead(b, q)

PlaceInv == \A b \in Traffic, q \in Party : Placed(b, q)

IInv == TypeOK /\ ChannelInv /\ PlaceInv

-----------------------------------------------------------------------------
(* Channels as sequences.                                                  *)

(* Range of a sequence, by its positions.                                  *)
LEMMA RangeIs ==
  ASSUME NEW S, NEW s \in Seq(S)
  PROVE  /\ Range(s) \subseteq S
         /\ \A x : x \in Range(s) <=> \E i \in 1 .. Len(s) : s[i] = x
         /\ IsInjective(s) <=>
              \A i, j \in 1 .. Len(s) : s[i] = s[j] => i = j
<1>1. s \in [1 .. Len(s) -> S] /\ DOMAIN s = 1 .. Len(s)
  BY LenProperties
<1> QED
  BY <1>1 DEF Range, IsInjective

(* What Append puts in.                                                    *)
LEMMA AppendIs ==
  ASSUME NEW S, NEW s \in Seq(S), NEW x \in S
  PROVE  /\ Append(s, x) \in Seq(S)
         /\ Len(Append(s, x)) = Len(s) + 1
         /\ Range(Append(s, x)) = Range(s) \cup {x}
         /\ IsInjective(s) /\ x \notin Range(s) => IsInjective(Append(s, x))
<1>1. /\ Append(s, x) \in Seq(S) /\ Len(Append(s, x)) = Len(s) + 1
      /\ \A i \in 1 .. Len(s) : Append(s, x)[i] = s[i]
      /\ Append(s, x)[Len(s) + 1] = x
      /\ Len(s) \in Nat
  BY LenProperties
<1>2. Range(Append(s, x)) = Range(s) \cup {x}
  <2>1. \A y : y \in Range(s) <=> \E i \in 1 .. Len(s) : s[i] = y
    BY RangeIs
  <2>2. \A y : y \in Range(Append(s, x)) <=>
                \E i \in 1 .. Len(s) + 1 : Append(s, x)[i] = y
    <3>1. \A y : y \in Range(Append(s, x)) <=>
                  \E i \in 1 .. Len(Append(s, x)) : Append(s, x)[i] = y
      BY <1>1, RangeIs
    <3> QED
      BY <1>1, <3>1
  <2>3. ASSUME NEW y \in Range(Append(s, x)) PROVE y \in Range(s) \cup {x}
    <3>1. PICK i \in 1 .. Len(s) + 1 : Append(s, x)[i] = y
      BY <2>2
    <3>2. CASE i = Len(s) + 1
      BY <1>1, <3>1, <3>2
    <3>3. CASE i \in 1 .. Len(s)
      BY <1>1, <2>1, <3>1, <3>3
    <3> QED
      BY <1>1, <3>2, <3>3
  <2>4. Range(s) \subseteq Range(Append(s, x))
    <3> SUFFICES ASSUME NEW y \in Range(s) PROVE y \in Range(Append(s, x))
      OBVIOUS
    <3>1. PICK i \in 1 .. Len(s) : s[i] = y
      BY <2>1
    <3>2. i \in 1 .. Len(s) + 1 /\ Append(s, x)[i] = y
      BY <1>1, <3>1
    <3> QED
      BY <2>2, <3>2
  <2>5. x \in Range(Append(s, x))
    <3>1. Len(s) + 1 \in 1 .. Len(s) + 1
      BY <1>1
    <3> QED
      BY <1>1, <2>2, <3>1
  <2> QED
    BY <2>3, <2>4, <2>5
<1>3. ASSUME IsInjective(s), x \notin Range(s) PROVE IsInjective(Append(s, x))
  <2>1. \A i, j \in 1 .. Len(s) : s[i] = s[j] => i = j
    BY <1>3, RangeIs
  <2>2. \A i \in 1 .. Len(s) : s[i] # x
    BY <1>3, RangeIs
  <2>3. ASSUME NEW i \in 1 .. Len(s) + 1, NEW j \in 1 .. Len(s) + 1,
               Append(s, x)[i] = Append(s, x)[j]
        PROVE  i = j
    BY <1>1, <2>1, <2>2, <2>3
  <2> QED
    BY <1>1, <2>3, RangeIs
<1> QED
  BY <1>1, <1>2, <1>3

(* What Tail takes out.                                                    *)
LEMMA TailIs ==
  ASSUME NEW S, NEW s \in Seq(S), s # <<>>
  PROVE  /\ Tail(s) \in Seq(S)
         /\ Len(Tail(s)) = Len(s) - 1
         /\ Head(s) \in Range(s) /\ Head(s) \in S
         /\ IsInjective(s) => /\ IsInjective(Tail(s))
                              /\ Range(Tail(s)) = Range(s) \ {Head(s)}
<1>1. /\ Tail(s) \in Seq(S) /\ Len(Tail(s)) = Len(s) - 1 /\ Head(s) \in S
      /\ \A i \in 1 .. Len(s) - 1 : Tail(s)[i] = s[i + 1]
  BY HeadTailProperties
<1>2. Len(s) \in Nat \ {0}
  BY EmptySeq
<1>3. Head(s) = s[1]
  BY HeadTailProperties, <1>2
<1>4. Head(s) \in Range(s)
  BY <1>2, <1>3, RangeIs
<1>5. ASSUME IsInjective(s) PROVE IsInjective(Tail(s))
  <2>1. \A i, j \in 1 .. Len(s) : s[i] = s[j] => i = j
    BY <1>5, RangeIs
  <2>2. ASSUME NEW i \in 1 .. Len(s) - 1, NEW j \in 1 .. Len(s) - 1,
               Tail(s)[i] = Tail(s)[j]
        PROVE  i = j
    <3>1. s[i + 1] = s[j + 1] /\ i + 1 \in 1 .. Len(s) /\ j + 1 \in 1 .. Len(s)
      BY <1>1, <1>2, <2>2
    <3>2. i + 1 = j + 1
      BY <2>1, <3>1
    <3> QED
      BY <3>2
  <2> QED
    BY <1>1, <2>2, RangeIs
<1>6. ASSUME IsInjective(s), NEW y
      PROVE  y \in Range(Tail(s)) <=> y \in Range(s) \ {Head(s)}
  <2>1. \A i, j \in 1 .. Len(s) : s[i] = s[j] => i = j
    BY <1>6, RangeIs
  <2>4. \A z : z \in Range(Tail(s)) <=>
                \E i \in 1 .. Len(s) - 1 : Tail(s)[i] = z
    <3>1. \A z : z \in Range(Tail(s)) <=>
                  \E i \in 1 .. Len(Tail(s)) : Tail(s)[i] = z
      BY <1>1, RangeIs
    <3> QED
      BY <1>1, <3>1
  <2>2. ASSUME y \in Range(Tail(s)) PROVE y \in Range(s) \ {Head(s)}
    <3>1. PICK i \in 1 .. Len(s) - 1 : Tail(s)[i] = y
      BY <2>2, <2>4
    <3>2. i + 1 \in 1 .. Len(s) /\ s[i + 1] = y /\ i + 1 # 1 /\ 1 \in 1 .. Len(s)
      BY <1>1, <1>2, <3>1
    <3> QED
      BY <1>3, <2>1, <3>2, RangeIs
  <2>3. ASSUME y \in Range(s), y # Head(s) PROVE y \in Range(Tail(s))
    <3>1. PICK i \in 1 .. Len(s) : s[i] = y
      BY <2>3, RangeIs
    <3>2. i - 1 \in 1 .. Len(s) - 1 /\ (i - 1) + 1 = i
      BY <1>2, <1>3, <2>3, <3>1
    <3>3. Tail(s)[i - 1] = y
      BY <1>1, <3>1, <3>2
    <3> QED
      BY <2>4, <3>2, <3>3
  <2> QED
    BY <2>2, <2>3
<1> QED
  BY <1>1, <1>4, <1>5, <1>6

(* A channel that holds nothing twice is no longer than what it may hold.  *)
LEMMA InjectiveLength ==
  ASSUME NEW S, IsFiniteSet(S), NEW s \in Seq(S), IsInjective(s)
  PROVE  Len(s) <= Cardinality(S)
<1>1. s \in [1 .. Len(s) -> S] /\ Len(s) \in Nat
  BY LenProperties
<1>2. s \in Injection(1 .. Len(s), S)
  BY <1>1 DEF Injection
<1>3. Cardinality(1 .. Len(s)) <= Cardinality(S)
  BY <1>2, FS_Injection
<1>4. \A n \in Nat : Cardinality(1 .. n) = n
  BY FS_Interval
<1> QED
  BY <1>1, <1>3, <1>4

(* Shorter still if some of it is not in it.                               *)
LEMMA InjectiveShorter ==
  ASSUME NEW S, IsFiniteSet(S), NEW s, NEW T, s \in Seq(T), IsInjective(s),
         Range(s) \subseteq S, NEW x \in S, x \notin Range(s)
  PROVE  Len(s) < Cardinality(S)
<1>1. s \in [1 .. Len(s) -> T] /\ Len(s) \in Nat /\ DOMAIN s = 1 .. Len(s)
  BY LenProperties
<1>2. s \in [1 .. Len(s) -> S \ {x}]
  BY <1>1 DEF Range
<1>3. s \in Seq(S \ {x})
  BY <1>1, <1>2, SeqDef
<1>4. IsFiniteSet(S \ {x}) /\ Cardinality(S \ {x}) = Cardinality(S) - 1
  BY FS_RemoveElement
<1>5. Len(s) <= Cardinality(S) - 1
  BY <1>3, <1>4, InjectiveLength
<1> QED
  BY <1>1, <1>5, FS_CardinalityType

(* How often x is in a channel.                                            *)
Occurrences(x, s) == Cardinality({i \in DOMAIN s : s[i] = x})

(* An element is in such a channel once or not at all.                     *)
LEMMA OccursOnce ==
  ASSUME NEW S, NEW s \in Seq(S), IsInjective(s), NEW x
  PROVE  Occurrences(x, s) = IF x \in Range(s) THEN 1 ELSE 0
<1>1. DOMAIN s = 1 .. Len(s)
  BY LenProperties
<1>2. CASE x \notin Range(s)
  <2>1. {i \in DOMAIN s : s[i] = x} = {}
    BY <1>2 DEF Range
  <2> QED
    BY <1>2, <2>1, FS_EmptySet DEF Occurrences
<1>3. CASE x \in Range(s)
  <2>1. PICK k \in DOMAIN s : s[k] = x
    BY <1>3 DEF Range
  <2>2. {i \in DOMAIN s : s[i] = x} = {k}
    BY <2>1 DEF IsInjective
  <2> QED
    BY <1>3, <2>2, FS_Singleton DEF Occurrences
<1> QED
  BY <1>2, <1>3

(* There are N parties.                                                    *)
LEMMA PartyIs == IsFiniteSet(Party) /\ Cardinality(Party) = N /\ N \in Nat
BY FS_Interval, TransportAssumption DEF Party

(* A member of the traffic is a party and a topic.                         *)
LEMMA TrafficIs ==
  ASSUME NEW b \in Traffic
  PROVE  b[1] \in Party /\ b[2] \in Topic /\ b = <<b[1], b[2]>>
BY TransportAssumption

-----------------------------------------------------------------------------
(* A channel with room takes what it does not hold.                        *)
LEMMA Put ==
  ASSUME NEW S, NEW s \in Seq(S), NEW x \in S, NEW n \in Nat,
         IsInjective(s), HasRoom(s, n), x \notin Range(s)
  PROVE  /\ Append(s, x) \in Seq(S) /\ Len(Append(s, x)) <= n
         /\ IsInjective(Append(s, x)) /\ Range(Append(s, x)) = Range(s) \cup {x}
<1>1. Len(s) \in Nat /\ Len(s) < n
  BY LenProperties DEF HasRoom
<1> QED
  BY <1>1, AppendIs

(* What is taken from a channel was in it, and is so no more.              *)
LEMMA Take ==
  ASSUME NEW S, NEW s \in Seq(S), NEW n \in Nat,
         IsInjective(s), s # <<>>, Len(s) <= n
  PROVE  /\ Tail(s) \in Seq(S) /\ Len(Tail(s)) <= n
         /\ IsInjective(Tail(s)) /\ Range(Tail(s)) = Range(s) \ {Head(s)}
         /\ Head(s) \in Range(s) /\ Head(s) \in S
<1>1. Len(s) \in Nat
  BY LenProperties
<1> QED
  BY <1>1, TailIs

(* The messages the channels hold are those that are on their way, ...     *)
LEMMA TransitIs ==
  ASSUME NEW b \in Traffic, NEW q \in Party
  PROVE  <<b, q>> \in InTransit <=> OnItsWay(b, q)
BY DEF InTransit

(* ... hence the same if the same are on their way, ...                    *)
LEMMA TransitSame ==
  ASSUME \A c \in Traffic, d \in Party : OnItsWay(c, d)' <=> OnItsWay(c, d)
  PROVE  InTransit' = InTransit
BY DEF InTransit

(* ... more by one, ...                                                    *)
LEMMA TransitGrows ==
  ASSUME NEW b \in Traffic, NEW q \in Party,
         \A c \in Traffic, d \in Party :
           OnItsWay(c, d)' <=> OnItsWay(c, d) \/ (c = b /\ d = q)
  PROVE  InTransit' = InTransit \cup {<<b, q>>}
BY DEF InTransit

(* ... or fewer by one.                                                    *)
LEMMA TransitShrinks ==
  ASSUME NEW b \in Traffic, NEW q \in Party,
         \A c \in Traffic, d \in Party :
           OnItsWay(c, d)' <=> OnItsWay(c, d) /\ ~ (c = b /\ d = q)
  PROVE  InTransit' = InTransit \ {<<b, q>>}
BY DEF InTransit

(* Send moves the message from its sender to a send channel.               *)
LEMMA SendKeeps ==
  ASSUME IInv, NEW b \in Traffic, Send(b)
  PROVE  IInv' /\ D!Send(b, to[b])
<1> DEFINE p == b[1]
           t == b[2]
           q == to[b]
           new == Append(sendChannels[p][q], t)
<1>1. p \in Party /\ t \in Topic /\ b = <<p, t>>
  BY TrafficIs
<1>2. q \in Party /\ q + 1 \in 0 .. N /\ q <= q
  <2>1. q \in 0 .. N /\ q < N
    BY DEF IInv, TypeOK, Send, CanSend
  <2> HIDE DEF q
  <2> QED
    BY <2>1, TransportAssumption DEF Party
<1>3. /\ to' = [to EXCEPT ![b] = q + 1]
      /\ sendChannels' = [sendChannels EXCEPT ![p][q] = new]
      /\ UNCHANGED <<receiveChannel, topicChannels, read, ended>>
  BY DEF Send
<1>4. /\ new \in Seq(Topic) /\ Len(new) <= MAXMESSAGE
      /\ IsInjective(new) /\ Range(new) = Range(sendChannels[p][q]) \cup {t}
  <2>1. sendChannels[p][q] \in Seq(Topic) /\ IsInjective(sendChannels[p][q])
    BY <1>1, <1>2 DEF IInv, TypeOK, ChannelInv
  <2>2. t \notin Range(sendChannels[p][q])
    BY <1>1, <1>2 DEF IInv, PlaceInv, Placed, Unsent, InSend
  <2>3. HasRoom(sendChannels[p][q], MAXMESSAGE)
    BY DEF Send, CanSend
  <2> QED
    BY <1>1, <2>1, <2>2, <2>3, Put, TransportAssumption
<1> HIDE DEF p, t, q, new
<1>5. TypeOK'
  <2>1. sendChannels' \in [Party -> [Party -> Seq(Topic)]]
    BY <1>1, <1>2, <1>3, <1>4 DEF IInv, TypeOK
  <2>2. \A c, d \in Party : Len(sendChannels'[c][d]) <= MAXMESSAGE
    BY <1>1, <1>2, <1>3, <1>4 DEF IInv, TypeOK
  <2>3. to' \in [Traffic -> 0 .. N]
    BY <1>2, <1>3 DEF IInv, TypeOK
  <2> QED
    BY <1>3, <2>1, <2>2, <2>3 DEF IInv, TypeOK
<1>6. ChannelInv'
  <2>1. \A c, d \in Party :
          /\ IsInjective(sendChannels'[c][d])
          /\ \A u \in Range(sendChannels'[c][d]) : <<c, u>> \in Traffic
    BY <1>1, <1>2, <1>3, <1>4 DEF IInv, TypeOK, ChannelInv
  <2> QED
    BY <1>3, <2>1 DEF IInv, ChannelInv
<1>7. ASSUME NEW c \in Traffic, NEW d \in Party
      PROVE  /\ Placed(c, d)'
             /\ OnItsWay(c, d)' <=> OnItsWay(c, d) \/ (c = b /\ d = q)
  <2>1. c[1] \in Party /\ c[2] \in Topic /\ c = <<c[1], c[2]>>
    BY TrafficIs
  <2>2. Unsent(c, d)' <=> Unsent(c, d) /\ ~ (c = b /\ d = q)
    <3>1. CASE c = b
      <4>1. to'[c] = q + 1 /\ to[c] = q
        BY <1>3, <3>1 DEF IInv, TypeOK, q
      <4>2. q + 1 <= d <=> q <= d /\ d # q
        BY <1>2, TransportAssumption DEF Party
      <4> QED
        BY <3>1, <4>1, <4>2 DEF Unsent
    <3>2. CASE c # b
      BY <1>3, <3>2 DEF IInv, TypeOK, Unsent
    <3> QED
      BY <3>1, <3>2
  <2>3. InSend(c, d)' <=> InSend(c, d) \/ (c = b /\ d = q)
    <3>1. sendChannels'[c[1]][d] =
            IF c[1] = p /\ d = q THEN new ELSE sendChannels[c[1]][d]
      BY <1>1, <1>2, <1>3, <2>1 DEF IInv, TypeOK
    <3> QED
      BY <1>1, <1>4, <2>1, <3>1 DEF InSend
  <2>4. /\ InReceive(c, d)' <=> InReceive(c, d)
        /\ InTopic(c, d)' <=> InTopic(c, d)
        /\ WasRead(c, d)' <=> WasRead(c, d)
    BY <1>3 DEF InReceive, InTopic, WasRead
  <2>5. c = b /\ d = q => Unsent(c, d)
    BY <1>2 DEF Unsent, q
  <2>6. Placed(c, d)
    BY DEF IInv, PlaceInv
  <2> QED
    BY <2>2, <2>3, <2>4, <2>5, <2>6 DEF Placed, OnItsWay
<1>8. D!Send(b, q)
  <2>1. Unsent(b, q)
    BY <1>2 DEF Unsent, q
  <2>2. ~ OnItsWay(b, q) /\ ~ WasRead(b, q)
    BY <1>2, <2>1 DEF IInv, PlaceInv, Placed, OnItsWay
  <2>3. <<b, q>> \notin InTransit /\ b[1] \notin read[q][b[2]]
    BY <1>2, <2>2, TransitIs DEF WasRead
  <2>4. InTransit' = InTransit \cup {<<b, q>>}
    BY <1>2, <1>7, TransitGrows
  <2> QED
    BY <1>3, <2>3, <2>4 DEF D!Send
<1> QED
  BY <1>5, <1>6, <1>7, <1>8 DEF IInv, PlaceInv, q

(* Deliver moves it from a send channel to a receive channel.              *)
LEMMA DeliverKeeps ==
  ASSUME IInv, NEW p \in Party, NEW q \in Party, Deliver(p, q)
  PROVE  IInv' /\ UNCHANGED D!vars
<1> DEFINE t == Head(sendChannels[p][q])
           b == <<p, t>>
           old == Tail(sendChannels[p][q])
           new == Append(receiveChannel[q], b)
<1>1. /\ sendChannels' = [sendChannels EXCEPT ![p][q] = old]
      /\ receiveChannel' = [receiveChannel EXCEPT ![q] = new]
      /\ UNCHANGED <<to, topicChannels, read, ended>>
  BY DEF Deliver
<1>2. /\ old \in Seq(Topic) /\ Len(old) <= MAXMESSAGE
      /\ IsInjective(old) /\ Range(old) = Range(sendChannels[p][q]) \ {t}
      /\ t \in Range(sendChannels[p][q]) /\ t \in Topic
  <2>1. /\ sendChannels[p][q] \in Seq(Topic) /\ IsInjective(sendChannels[p][q])
        /\ Len(sendChannels[p][q]) <= MAXMESSAGE
    BY DEF IInv, TypeOK, ChannelInv
  <2>2. sendChannels[p][q] # <<>>
    BY DEF Deliver, CanDeliver
  <2> QED
    BY <2>1, <2>2, Take, TransportAssumption
<1>3. b \in Traffic /\ b[1] = p /\ b[2] = t
  BY <1>2 DEF IInv, ChannelInv
<1>4. InSend(b, q)
  BY <1>2, <1>3 DEF InSend
<1>5. /\ new \in Seq(Traffic) /\ Len(new) <= MAXMESSAGE
      /\ IsInjective(new) /\ Range(new) = Range(receiveChannel[q]) \cup {b}
  <2>1. receiveChannel[q] \in Seq(Traffic) /\ IsInjective(receiveChannel[q])
    BY DEF IInv, TypeOK, ChannelInv
  <2>2. b \notin Range(receiveChannel[q])
    BY <1>3, <1>4 DEF IInv, PlaceInv, Placed, InReceive
  <2>3. HasRoom(receiveChannel[q], MAXMESSAGE)
    BY DEF Deliver, CanDeliver
  <2> QED
    BY <1>3, <2>1, <2>2, <2>3, Put, TransportAssumption
<1> HIDE DEF t, b, old, new
<1>6. TypeOK'
  <2>1. sendChannels' \in [Party -> [Party -> Seq(Topic)]]
    BY <1>1, <1>2 DEF IInv, TypeOK
  <2>2. \A c, d \in Party : Len(sendChannels'[c][d]) <= MAXMESSAGE
    BY <1>1, <1>2 DEF IInv, TypeOK
  <2>3. receiveChannel' \in [Party -> Seq(Traffic)]
    BY <1>1, <1>5 DEF IInv, TypeOK
  <2>4. \A d \in Party : Len(receiveChannel'[d]) <= MAXMESSAGE
    BY <1>1, <1>5 DEF IInv, TypeOK
  <2> QED
    BY <1>1, <2>1, <2>2, <2>3, <2>4 DEF IInv, TypeOK
<1>7. ChannelInv'
  <2>1. \A c, d \in Party :
          /\ IsInjective(sendChannels'[c][d])
          /\ \A u \in Range(sendChannels'[c][d]) : <<c, u>> \in Traffic
    BY <1>1, <1>2 DEF IInv, TypeOK, ChannelInv
  <2>2. \A d \in Party : IsInjective(receiveChannel'[d])
    BY <1>1, <1>5 DEF IInv, TypeOK, ChannelInv
  <2> QED
    BY <1>1, <2>1, <2>2 DEF IInv, ChannelInv
<1>8. ASSUME NEW c \in Traffic, NEW d \in Party
      PROVE  /\ Placed(c, d)'
             /\ OnItsWay(c, d)' <=> OnItsWay(c, d)
  <2>1. c[1] \in Party /\ c[2] \in Topic /\ c = <<c[1], c[2]>>
    BY TrafficIs
  <2>2. c = b <=> c[1] = p /\ c[2] = t
    BY <2>1 DEF b
  <2>3. InSend(c, d)' <=> InSend(c, d) /\ ~ (c = b /\ d = q)
    <3>1. sendChannels'[c[1]][d] =
            IF c[1] = p /\ d = q THEN old ELSE sendChannels[c[1]][d]
      BY <1>1, <2>1 DEF IInv, TypeOK
    <3> QED
      BY <1>2, <2>1, <2>2, <3>1 DEF InSend
  <2>4. InReceive(c, d)' <=> InReceive(c, d) \/ (c = b /\ d = q)
    <3>1. receiveChannel'[d] = IF d = q THEN new ELSE receiveChannel[d]
      BY <1>1 DEF IInv, TypeOK
    <3> QED
      BY <1>5, <3>1 DEF InReceive
  <2>5. /\ Unsent(c, d)' <=> Unsent(c, d)
        /\ InTopic(c, d)' <=> InTopic(c, d)
        /\ WasRead(c, d)' <=> WasRead(c, d)
    BY <1>1 DEF Unsent, InTopic, WasRead
  <2>6. Placed(c, d)
    BY DEF IInv, PlaceInv
  <2> QED
    BY <1>4, <2>3, <2>4, <2>5, <2>6 DEF Placed, OnItsWay
<1>9. UNCHANGED D!vars
  BY <1>1, <1>8, TransitSame DEF D!vars
<1> QED
  BY <1>6, <1>7, <1>8, <1>9 DEF IInv, PlaceInv

(* Dispatch moves it from a receive channel to a topic's channel.          *)
LEMMA DispatchKeeps ==
  ASSUME IInv, NEW q \in Party, Dispatch(q)
  PROVE  IInv' /\ UNCHANGED D!vars
<1> DEFINE b == Head(receiveChannel[q])
           p == b[1]
           t == b[2]
           old == Tail(receiveChannel[q])
           new == Append(topicChannels[q][t], p)
<1>1. /\ receiveChannel' = [receiveChannel EXCEPT ![q] = old]
      /\ topicChannels' = [topicChannels EXCEPT ![q][t] = new]
      /\ UNCHANGED <<to, sendChannels, read, ended>>
  BY DEF Dispatch
<1>2. /\ old \in Seq(Traffic) /\ Len(old) <= MAXMESSAGE
      /\ IsInjective(old) /\ Range(old) = Range(receiveChannel[q]) \ {b}
      /\ b \in Range(receiveChannel[q]) /\ b \in Traffic
  <2>1. /\ receiveChannel[q] \in Seq(Traffic) /\ IsInjective(receiveChannel[q])
        /\ Len(receiveChannel[q]) <= MAXMESSAGE
    BY DEF IInv, TypeOK, ChannelInv
  <2>2. receiveChannel[q] # <<>>
    BY DEF Dispatch, CanDispatch
  <2> QED
    BY <2>1, <2>2, Take, TransportAssumption
<1>3. p \in Party /\ t \in Topic /\ b = <<p, t>>
  BY <1>2, TrafficIs
<1>4. InReceive(b, q)
  BY <1>2 DEF InReceive
<1>5. /\ new \in Seq(Party) /\ Len(new) <= N
      /\ IsInjective(new) /\ Range(new) = Range(topicChannels[q][t]) \cup {p}
  <2>1. topicChannels[q][t] \in Seq(Party) /\ IsInjective(topicChannels[q][t])
    BY <1>3 DEF IInv, TypeOK, ChannelInv
  <2>2. p \notin Range(topicChannels[q][t])
    BY <1>2, <1>4 DEF IInv, PlaceInv, Placed, InTopic
  <2>3. HasRoom(topicChannels[q][t], N)
    BY DEF Dispatch, CanDispatch
  <2> QED
    BY <1>3, <2>1, <2>2, <2>3, Put, PartyIs
<1> HIDE DEF b, p, t, old, new
<1>6. TypeOK'
  <2>1. receiveChannel' \in [Party -> Seq(Traffic)]
    BY <1>1, <1>2 DEF IInv, TypeOK
  <2>2. \A d \in Party : Len(receiveChannel'[d]) <= MAXMESSAGE
    BY <1>1, <1>2 DEF IInv, TypeOK
  <2>3. topicChannels' \in [Party -> [Topic -> Seq(Party)]]
    BY <1>1, <1>3, <1>5 DEF IInv, TypeOK
  <2>4. \A d \in Party, u \in Topic : Len(topicChannels'[d][u]) <= N
    BY <1>1, <1>3, <1>5 DEF IInv, TypeOK
  <2> QED
    BY <1>1, <2>1, <2>2, <2>3, <2>4 DEF IInv, TypeOK
<1>7. ChannelInv'
  <2>1. \A d \in Party : IsInjective(receiveChannel'[d])
    BY <1>1, <1>2 DEF IInv, TypeOK, ChannelInv
  <2>2. \A d \in Party, u \in Topic :
          /\ IsInjective(topicChannels'[d][u])
          /\ \A c \in Range(topicChannels'[d][u]) : <<c, u>> \in Traffic
    BY <1>1, <1>2, <1>3, <1>5 DEF IInv, TypeOK, ChannelInv
  <2> QED
    BY <1>1, <2>1, <2>2 DEF IInv, ChannelInv
<1>8. ASSUME NEW c \in Traffic, NEW d \in Party
      PROVE  /\ Placed(c, d)'
             /\ OnItsWay(c, d)' <=> OnItsWay(c, d)
  <2>1. c[1] \in Party /\ c[2] \in Topic /\ c = <<c[1], c[2]>>
    BY TrafficIs
  <2>2. c = b <=> c[1] = p /\ c[2] = t
    BY <1>3, <2>1 DEF p, t
  <2>3. InReceive(c, d)' <=> InReceive(c, d) /\ ~ (c = b /\ d = q)
    <3>1. receiveChannel'[d] = IF d = q THEN old ELSE receiveChannel[d]
      BY <1>1 DEF IInv, TypeOK
    <3> QED
      BY <1>2, <3>1 DEF InReceive
  <2>4. InTopic(c, d)' <=> InTopic(c, d) \/ (c = b /\ d = q)
    <3>1. topicChannels'[d][c[2]] =
            IF d = q /\ c[2] = t THEN new ELSE topicChannels[d][c[2]]
      BY <1>1, <1>3, <2>1 DEF IInv, TypeOK
    <3> QED
      BY <1>5, <2>1, <2>2, <3>1 DEF InTopic
  <2>5. /\ Unsent(c, d)' <=> Unsent(c, d)
        /\ InSend(c, d)' <=> InSend(c, d)
        /\ WasRead(c, d)' <=> WasRead(c, d)
    BY <1>1 DEF Unsent, InSend, WasRead
  <2>6. Placed(c, d)
    BY DEF IInv, PlaceInv
  <2> QED
    BY <1>4, <2>3, <2>4, <2>5, <2>6 DEF Placed, OnItsWay
<1>9. UNCHANGED D!vars
  BY <1>1, <1>8, TransitSame DEF D!vars
<1> QED
  BY <1>6, <1>7, <1>8, <1>9 DEF IInv, PlaceInv

(* A reader takes it from the topic's channel.                             *)
LEMMA ReadKeeps ==
  ASSUME IInv, NEW q \in Party, NEW t \in Topic, Read(q, t)
  PROVE  IInv' /\ \E b \in Traffic : D!Read(b, q)
<1> DEFINE p == Head(topicChannels[q][t])
           b == <<p, t>>
           old == Tail(topicChannels[q][t])
<1>1. /\ topicChannels' = [topicChannels EXCEPT ![q][t] = old]
      /\ read' = [read EXCEPT ![q][t] = read[q][t] \cup {p}]
      /\ UNCHANGED <<to, sendChannels, receiveChannel, ended>>
  BY DEF Read
<1>2. /\ old \in Seq(Party) /\ Len(old) <= N
      /\ IsInjective(old) /\ Range(old) = Range(topicChannels[q][t]) \ {p}
      /\ p \in Range(topicChannels[q][t]) /\ p \in Party
  <2>1. /\ topicChannels[q][t] \in Seq(Party) /\ IsInjective(topicChannels[q][t])
        /\ Len(topicChannels[q][t]) <= N
    BY DEF IInv, TypeOK, ChannelInv
  <2>2. topicChannels[q][t] # <<>>
    BY DEF Read
  <2> QED
    BY <2>1, <2>2, Take, PartyIs
<1>3. b \in Traffic /\ b[1] = p /\ b[2] = t
  BY <1>2 DEF IInv, ChannelInv
<1>4. InTopic(b, q)
  BY <1>2, <1>3 DEF InTopic
<1> HIDE DEF b, p, old
<1>5. TypeOK'
  <2>1. topicChannels' \in [Party -> [Topic -> Seq(Party)]]
    BY <1>1, <1>2 DEF IInv, TypeOK
  <2>2. \A d \in Party, u \in Topic : Len(topicChannels'[d][u]) <= N
    BY <1>1, <1>2 DEF IInv, TypeOK
  <2>3. read' \in [Party -> [Topic -> SUBSET Party]]
    BY <1>1, <1>2 DEF IInv, TypeOK
  <2> QED
    BY <1>1, <2>1, <2>2, <2>3 DEF IInv, TypeOK
<1>6. ChannelInv'
  <2>1. \A d \in Party, u \in Topic :
          /\ IsInjective(topicChannels'[d][u])
          /\ \A c \in Range(topicChannels'[d][u]) : <<c, u>> \in Traffic
    BY <1>1, <1>2 DEF IInv, TypeOK, ChannelInv
  <2> QED
    BY <1>1, <2>1 DEF IInv, ChannelInv
<1>7. ASSUME NEW c \in Traffic, NEW d \in Party
      PROVE  /\ Placed(c, d)'
             /\ OnItsWay(c, d)' <=> OnItsWay(c, d) /\ ~ (c = b /\ d = q)
  <2>1. c[1] \in Party /\ c[2] \in Topic /\ c = <<c[1], c[2]>>
    BY TrafficIs
  <2>2. c = b <=> c[1] = p /\ c[2] = t
    BY <2>1 DEF b
  <2>3. InTopic(c, d)' <=> InTopic(c, d) /\ ~ (c = b /\ d = q)
    <3>1. topicChannels'[d][c[2]] =
            IF d = q /\ c[2] = t THEN old ELSE topicChannels[d][c[2]]
      BY <1>1, <2>1 DEF IInv, TypeOK
    <3> QED
      BY <1>2, <2>1, <2>2, <3>1 DEF InTopic
  <2>4. WasRead(c, d)' <=> WasRead(c, d) \/ (c = b /\ d = q)
    <3>1. read'[d][c[2]] =
            IF d = q /\ c[2] = t THEN read[q][t] \cup {p} ELSE read[d][c[2]]
      BY <1>1, <2>1 DEF IInv, TypeOK
    <3> QED
      BY <2>1, <2>2, <3>1 DEF WasRead
  <2>5. /\ Unsent(c, d)' <=> Unsent(c, d)
        /\ InSend(c, d)' <=> InSend(c, d)
        /\ InReceive(c, d)' <=> InReceive(c, d)
    BY <1>1 DEF Unsent, InSend, InReceive
  <2>6. Placed(c, d)
    BY DEF IInv, PlaceInv
  <2> QED
    BY <1>4, <2>3, <2>4, <2>5, <2>6 DEF Placed, OnItsWay
<1>8. D!Read(b, q)
  <2>1. <<b, q>> \in InTransit
    BY <1>3, <1>4, TransitIs DEF OnItsWay
  <2>2. InTransit' = InTransit \ {<<b, q>>}
    BY <1>3, <1>7, TransitShrinks
  <2>3. read' = [read EXCEPT ![q][b[2]] = @ \cup {b[1]}]
    BY <1>1, <1>3
  <2> QED
    BY <2>1, <2>2, <2>3 DEF D!Read
<1> QED
  BY <1>5, <1>6, <1>7, <1>3, <1>8 DEF IInv, PlaceInv

(* The end of a process leaves the channels as they are.                   *)
LEMMA EndKeeps ==
  ASSUME IInv,
         UNCHANGED <<to, sendChannels, receiveChannel, topicChannels, read>>,
         ended' \in SUBSET Party
  PROVE  IInv' /\ UNCHANGED D!vars
<1>1. TypeOK'
  BY DEF IInv, TypeOK
<1>2. ChannelInv'
  BY DEF IInv, ChannelInv
<1>3. PlaceInv'
  BY DEF IInv, PlaceInv, Placed, Unsent, InSend, InReceive, InTopic, WasRead
<1>4. InTransit' = InTransit
  BY DEF InTransit, OnItsWay, InSend, InReceive, InTopic
<1> QED
  BY <1>1, <1>2, <1>3, <1>4 DEF IInv, D!vars

(* Every step keeps the invariant and is one of Delivery, or none to it.   *)
LEMMA NextSteps == IInv /\ [Next]_vars => IInv' /\ [D!Next]_(D!vars)
<1> SUFFICES ASSUME IInv, [Next]_vars PROVE IInv' /\ [D!Next]_(D!vars)
  OBVIOUS
<1>1. ASSUME NEW b \in Traffic, Send(b) PROVE IInv' /\ D!Next
  <2>1. to[b] \in Party
    BY <1>1, TransportAssumption DEF IInv, TypeOK, Send, CanSend, Party
  <2> QED
    BY <1>1, <2>1, SendKeeps DEF D!Next
<1>2. ASSUME NEW p \in Party, NEW q \in Party, Deliver(p, q)
      PROVE  IInv' /\ UNCHANGED D!vars
  BY <1>2, DeliverKeeps
<1>3. ASSUME NEW q \in Party, Dispatch(q) PROVE IInv' /\ UNCHANGED D!vars
  BY <1>3, DispatchKeeps
<1>4. ASSUME NEW q \in Party, NEW t \in Topic, Read(q, t)
      PROVE  IInv' /\ D!Next
  BY <1>4, ReadKeeps DEF D!Next
<1>5. ASSUME NEW q \in Party, End(q) \/ Break(q)
      PROVE  IInv' /\ UNCHANGED D!vars
  <2>1. ended' \in SUBSET Party
    BY <1>5 DEF IInv, TypeOK, End, Break
  <2> QED
    BY <1>5, <2>1, EndKeeps DEF End, Break
<1>6. CASE UNCHANGED vars
  <2>1. ended' \in SUBSET Party
    BY <1>6 DEF vars, IInv, TypeOK
  <2> QED
    BY <1>6, <2>1, EndKeeps DEF vars
<1> QED
  BY <1>1, <1>2, <1>3, <1>4, <1>5, <1>6 DEF Next

(* At first every channel is empty.                                        *)
LEMMA InitIInv == Init => IInv /\ D!Init
<1> SUFFICES ASSUME Init PROVE IInv /\ D!Init
  OBVIOUS
<1>1. \A S : <<>> \in Seq(S) /\ Len(<<>>) = 0
  OBVIOUS
<1>2. Range(<<>>) = {} /\ IsInjective(<<>>)
  BY <1>1, RangeIs DEF IsInjective, Range
<1>3. TypeOK
  BY <1>1, TransportAssumption DEF Init, TypeOK
<1>4. ChannelInv
  BY <1>2 DEF Init, ChannelInv
<1>5. PlaceInv
  <2> SUFFICES ASSUME NEW b \in Traffic, NEW q \in Party PROVE Placed(b, q)
    BY DEF PlaceInv
  <2>1. Unsent(b, q)
    BY TransportAssumption DEF Init, Unsent, Party
  <2>2. ~ InSend(b, q) /\ ~ InReceive(b, q) /\ ~ InTopic(b, q) /\ ~ WasRead(b, q)
    BY <1>2, TrafficIs DEF Init, InSend, InReceive, InTopic, WasRead
  <2> QED
    BY <2>1, <2>2 DEF Placed
<1>6. D!Init
  <2>1. ASSUME NEW b \in Traffic, NEW q \in Party PROVE ~ OnItsWay(b, q)
    BY <1>2, TrafficIs DEF Init, OnItsWay, InSend, InReceive, InTopic
  <2>2. InTransit = {}
    BY <2>1 DEF InTransit
  <2> QED
    BY <2>2 DEF Init, D!Init
<1> QED
  BY <1>3, <1>4, <1>5, <1>6 DEF IInv

(* The invariant holds of every behaviour.                                 *)
THEOREM Inductive == Spec => []IInv
BY InitIInv, NextSteps, PTL DEF Spec

-----------------------------------------------------------------------------
(***************************************************************************)
(* Each message of a Broadcast is in exactly one place on its way to each  *)
(* party: the goroutines that hand it on lose none and copy none.          *)
(***************************************************************************)
Places(p, t, q) ==
    (IF to[<<p, t>>] <= q THEN 1 ELSE 0)
  + Occurrences(t, sendChannels[p][q])
  + Occurrences(<<p, t>>, receiveChannel[q])
  + Occurrences(p, topicChannels[q][t])
  + (IF p \in read[q][t] THEN 1 ELSE 0)

OnePlace ==
  \A b \in Traffic, q \in Party : Places(b[1], b[2], q) = 1

(* The invariant gives OnePlace: of the places one counts, one is taken.   *)
LEMMA IInvOnePlace == IInv => OnePlace
<1> SUFFICES ASSUME IInv, NEW b \in Traffic, NEW q \in Party
             PROVE  Places(b[1], b[2], q) = 1
  BY DEF OnePlace
<1> DEFINE p == b[1]
           t == b[2]
<1>1. p \in Party /\ t \in Topic /\ b = <<p, t>>
  BY TrafficIs
<1>2. /\ sendChannels[p][q] \in Seq(Topic) /\ IsInjective(sendChannels[p][q])
      /\ receiveChannel[q] \in Seq(Traffic) /\ IsInjective(receiveChannel[q])
      /\ topicChannels[q][t] \in Seq(Party) /\ IsInjective(topicChannels[q][t])
  BY <1>1 DEF IInv, TypeOK, ChannelInv
<1>3. /\ Occurrences(t, sendChannels[p][q]) = IF InSend(b, q) THEN 1 ELSE 0
      /\ Occurrences(b, receiveChannel[q]) = IF InReceive(b, q) THEN 1 ELSE 0
      /\ Occurrences(p, topicChannels[q][t]) = IF InTopic(b, q) THEN 1 ELSE 0
  BY <1>2, OccursOnce DEF InSend, InReceive, InTopic
<1>4. Places(p, t, q) =
          (IF Unsent(b, q) THEN 1 ELSE 0)
        + (IF InSend(b, q) THEN 1 ELSE 0)
        + (IF InReceive(b, q) THEN 1 ELSE 0)
        + (IF InTopic(b, q) THEN 1 ELSE 0)
        + (IF WasRead(b, q) THEN 1 ELSE 0)
  BY <1>1, <1>3 DEF Places, Unsent, WasRead
<1>5. Placed(b, q)
  BY DEF IInv, PlaceInv
<1> QED
  BY <1>4, <1>5 DEF Placed

(* And DispatcherFree: the message at the head is not in its topic's       *)
(* channel, which holds no party twice.                                    *)
LEMMA IInvDispatcherFree == IInv => DispatcherFree
<1> SUFFICES ASSUME IInv, NEW q \in Party, receiveChannel[q] # <<>>
             PROVE  HasRoom(topicChannels[q][Head(receiveChannel[q])[2]], N)
  BY DEF DispatcherFree
<1> DEFINE b == Head(receiveChannel[q])
           s == topicChannels[q][b[2]]
<1>1. b \in Range(receiveChannel[q]) /\ b \in Traffic
  <2>1. receiveChannel[q] \in Seq(Traffic)
    BY DEF IInv, TypeOK
  <2> QED
    BY <2>1, TailIs
<1>2. b[1] \in Party /\ b[2] \in Topic
  BY <1>1, TrafficIs
<1>3. b[1] \notin Range(s)
  BY <1>1 DEF IInv, PlaceInv, Placed, InReceive, InTopic
<1>4. s \in Seq(Party) /\ IsInjective(s)
  BY <1>2 DEF IInv, TypeOK, ChannelInv
<1>5. Range(s) \subseteq Party
  BY <1>4, RangeIs
<1>6. Len(s) < Cardinality(Party)
  BY <1>2, <1>3, <1>4, <1>5, PartyIs, InjectiveShorter
<1> QED
  BY <1>6, PartyIs DEF HasRoom

(***************************************************************************)
(* The write of a Broadcast to a send channel never blocks (party.go:74):  *)
(* each sender has no more messages than its channel takes, so a peer that *)
(* takes none holds up nobody.                                             *)
(***************************************************************************)
SenderFree ==
  \A b \in Traffic :
    to[b] < N => HasRoom(sendChannels[b[1]][to[b]], MAXMESSAGE)

LEMMA IInvSenderFree == IInv => SenderFree
<1> SUFFICES ASSUME IInv, NEW b \in Traffic, to[b] < N
             PROVE  HasRoom(sendChannels[b[1]][to[b]], MAXMESSAGE)
  BY DEF SenderFree
<1> DEFINE p == b[1]
           q == to[b]
           s == sendChannels[p][q]
           own == {t \in Topic : <<p, t>> \in Traffic}
<1>1. p \in Party /\ b[2] \in Topic /\ b = <<p, b[2]>> /\ b[2] \in own
  BY TrafficIs
<1>2. q \in Party /\ q <= q
  <2>1. q \in 0 .. N
    BY DEF IInv, TypeOK
  <2> QED
    BY <2>1, TransportAssumption DEF Party
<1>3. b[2] \notin Range(s)
  BY <1>2 DEF IInv, PlaceInv, Placed, Unsent, InSend
<1>4. s \in Seq(Topic) /\ IsInjective(s)
  BY <1>1, <1>2 DEF IInv, TypeOK, ChannelInv
<1>5. Range(s) \subseteq own
  <2>1. Range(s) \subseteq Topic
    BY <1>4, RangeIs
  <2> QED
    BY <1>1, <1>2, <2>1 DEF IInv, ChannelInv
<1>6. IsFiniteSet(own) /\ Cardinality(own) <= MAXMESSAGE
  BY <1>1, TransportAssumption, FS_Subset
<1>7. Len(s) < Cardinality(own)
  BY <1>1, <1>3, <1>4, <1>5, <1>6, InjectiveShorter
<1>8. Len(s) \in Nat /\ Cardinality(own) \in Nat /\ MAXMESSAGE \in Nat
  BY <1>4, <1>6, LenProperties, FS_CardinalityType, TransportAssumption
<1> HIDE DEF s, own
<1>9. Len(s) < MAXMESSAGE
  BY <1>6, <1>7, <1>8
<1> QED
  BY <1>9 DEF HasRoom, s

(***************************************************************************)
(* The goroutines of the transport never wait for each other in a circle:  *)
(* when none of them can go on and no process has ended, every message is  *)
(* at every party that takes messages.  Nobody need read a topic for it.   *)
(* This is AllArrive without the time it takes.                            *)
(***************************************************************************)
Settled ==
  /\ \A b \in Traffic : ~ CanSend(b)
  /\ \A p, q \in Party : ~ CanDeliver(p, q)
  /\ \A q \in Party : ~ CanDispatch(q)

SettledArrived ==
  ended = {} /\ Settled =>
    \A b \in Traffic, q \in Party \ Stalled : Arrived(b[1], b[2], q)

LEMMA IInvSettledArrived == IInv => SettledArrived
<1> SUFFICES ASSUME IInv, ended = {}, Settled,
                    NEW b \in Traffic, NEW q \in Party \ Stalled
             PROVE  Arrived(b[1], b[2], q)
  BY DEF SettledArrived
<1> DEFINE p == b[1]
<1>1. p \in Party /\ b[2] \in Topic /\ b = <<p, b[2]>>
  BY TrafficIs
<1>2. ~ Unsent(b, q)
  <2>1. ~ (to[b] < N)
    BY <1>1, IInvSenderFree DEF SenderFree, Settled, CanSend, Running
  <2>2. to[b] \in 0 .. N
    BY DEF IInv, TypeOK
  <2> QED
    BY <2>1, <2>2, TransportAssumption DEF Unsent, Party
<1>3. receiveChannel[q] = <<>>
  BY IInvDispatcherFree DEF DispatcherFree, Settled, CanDispatch, Running
<1>4. HasRoom(receiveChannel[q], MAXMESSAGE)
  <2>1. IsFiniteSet({t \in Topic : <<p, t>> \in Traffic})
    BY TransportAssumption, FS_Subset
  <2>2. Cardinality({t \in Topic : <<p, t>> \in Traffic}) # 0
    BY <1>1, <2>1, FS_EmptySet
  <2>3. MAXMESSAGE > 0
    BY <1>1, <2>1, <2>2, FS_CardinalityType, TransportAssumption
  <2> QED
    BY <1>3, <2>3 DEF HasRoom
<1>5. sendChannels[p][q] = <<>>
  BY <1>1, <1>4 DEF Settled, CanDeliver, Running
<1>6. Range(<<>>) = {}
  BY DEF Range
<1>7. ~ InSend(b, q) /\ ~ InReceive(b, q)
  BY <1>3, <1>5, <1>6 DEF InSend, InReceive
<1>8. InTopic(b, q) \/ WasRead(b, q)
  BY <1>2, <1>7 DEF IInv, PlaceInv, Placed
<1> QED
  BY <1>8 DEF Arrived, InTopic, WasRead

-----------------------------------------------------------------------------
(***************************************************************************)
(* TypeOK holds of every behaviour: no channel exceeds its capacity.       *)
(***************************************************************************)
THEOREM TypeCorrect == Spec => []TypeOK
BY Inductive, PTL DEF IInv

(***************************************************************************)
(* OnePlace holds of every behaviour: no message is lost or copied between *)
(* Broadcast and GetMessage.                                               *)
(***************************************************************************)
THEOREM OnePlaceAlways == Spec => []OnePlace
BY Inductive, IInvOnePlace, PTL

(***************************************************************************)
(* Transport implements Delivery: to the protocols its channels and its    *)
(* goroutines are one network that delivers in any order, and once.        *)
(***************************************************************************)
THEOREM DeliveryImplemented == Spec => ImplementsDelivery
BY InitIInv, NextSteps, Inductive, PTL DEF Spec, ImplementsDelivery, D!Spec

(***************************************************************************)
(* DispatcherFree holds of every behaviour: the dispatcher never blocks.   *)
(***************************************************************************)
THEOREM DispatcherFreeAlways == Spec => []DispatcherFree
BY Inductive, IInvDispatcherFree, PTL

(***************************************************************************)
(* SenderFree holds of every behaviour: no Broadcast ever blocks.          *)
(***************************************************************************)
THEOREM SenderFreeAlways == Spec => []SenderFree
BY Inductive, IInvSenderFree, PTL

(***************************************************************************)
(* SettledArrived holds of every behaviour: the transport does not         *)
(* deadlock before every message has come to its channel.                  *)
(***************************************************************************)
THEOREM SettledArrivedAlways == Spec => []SettledArrived
BY Inductive, IInvSettledArrived, PTL
=============================================================================
