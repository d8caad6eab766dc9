----------------------------- MODULE VDDProofs -----------------------------
(***************************************************************************)
(* For any number of parties and proposals, CallHelp returns complete sets *)
(* and decodeShareChannel is never too small.                              *)
(*                                                                         *)
(* The argument for the channel: a party owes a caller at most one share   *)
(* of a proposal, from the Call until its answer is taken, and never the   *)
(* caller itself; the star comes once.  So the shares put, those owed and  *)
(* the star to come are never more than N.                                 *)
(***************************************************************************)
EXTENDS VDD, QuorumLemmas

(* The messages on their way, those of weakHelp goroutines included.       *)
Answers == strong \cup helping \cup weak

(* The parties whose share of j has yet to be taken by p.                  *)
Owes(p, j) ==
  {i \in Party : \/ <<p, i>> \in calls
                 \/ \E m \in Answers : m.from = i /\ m.to = p /\ j \in m.list}

(* Nothing is asked or answered before CallHelp starts, and nobody asks    *)
(* itself.                                                                 *)
CallInv ==
  \A p \in Party :
    /\ main[p] = "start" =>
         \A j \in Chosen : Owes(p, j) = {} /\ starShares[p][j] = {} /\ shares[p][j] = 0
    /\ \A j \in Chosen : p \notin Owes(p, j)

(* A Call has one answer for each proposal, and one place holds it.        *)
AnswerInv ==
  /\ \A m \in Answers : <<m.to, m.from>> \notin calls
  /\ \A m, n \in Answers :
       m.from = n.from /\ m.to = n.to /\ m.list \cap n.list # {} => m = n
  /\ strong \cap helping = {} /\ strong \cap weak = {} /\ helping \cap weak = {}

(* A Strong that is taken is not owed any more, and the wait group is down *)
(* exactly when F+1 are taken.                                             *)
StarInv ==
  \A p \in Party, j \in Chosen :
    /\ starShares[p][j] \cap Owes(p, j) = {}
    /\ starWait[p][j] = IF Cardinality(starShares[p][j]) > F THEN 0 ELSE 1

(* The shares put, those owed and the star to come.                        *)
CountInv ==
  \A p \in Party, j \in Chosen :
    shares[p][j] + Cardinality(Owes(p, j)) + starWait[p][j] <= N

(* A party has what it does not require and what it has decoded.           *)
ResultInv ==
  \A p \in Party :
    /\ Chosen \ required[p] \subseteq resultSet[p]
    /\ \A j \in Chosen : decoder[p][j] # "decoding" => j \in resultSet[p]
    /\ main[p] = "returned" => resultSet[p] = Chosen

IInv == TypeOK /\ CallInv /\ AnswerInv /\ StarInv /\ CountInv /\ ResultInv

(* The actions of Next, whichever party is up.                             *)
LEMMA NextCases ==
  Next => \/ \E p \in Party : CallHelp(p) \/ Return(p)
          \/ \E p \in Party, j \in Chosen : Decode(p, j) \/ Finish(p, j)
          \/ \E i \in Up, c \in Party : Help(i, c)
          \/ \E m \in strong : TakeStrong(m)
          \/ \E m \in weak : TakeWeak(m)
          \/ \E m \in helping : SendWeak(m)
BY VDDAssumption DEF Next, Step, CallerStep, DecoderStep, HelperStep

-----------------------------------------------------------------------------
(* The invariant holds before the first Call.                              *)
LEMMA InitIInv == Init => IInv
<1> SUFFICES ASSUME Init PROVE IInv
  OBVIOUS
<1>1. TypeOK
  BY VDDAssumption DEF Init, TypeOK
<1>2. \A p \in Party, j \in Chosen : Owes(p, j) = {}
  BY DEF Init, Owes, Answers
<1>3. CallInv /\ AnswerInv /\ ResultInv
  BY <1>1, <1>2 DEF Init, CallInv, AnswerInv, ResultInv, Answers, TypeOK
<1>4. Cardinality({}) = 0 /\ N \in Nat /\ N > 0 /\ F \in Nat
  BY FS_EmptySet, PartyCount, PartyAssumption DEF N
<1>5. StarInv
  BY <1>2, <1>4 DEF Init, StarInv
<1>6. \A p \in Party, j \in Chosen : shares[p][j] = 0 /\ starWait[p][j] = 1
  BY DEF Init
<1>7. CountInv
  BY <1>2, <1>4, <1>6 DEF CountInv
<1> QED
  BY <1>1, <1>3, <1>5, <1>7 DEF IInv

-----------------------------------------------------------------------------
(* What a step does to the shares that are owed.                           *)

(* An answer that is taken is not owed any more, the others are.           *)
LEMMA TakeOwes ==
  ASSUME IInv, NEW m \in Answers, calls' = calls, Answers' = Answers \ {m}
  PROVE  /\ \A p \in Party, j \in Chosen : Owes(p, j)' \subseteq Owes(p, j)
         /\ \A j \in m.list : m.from \in Owes(m.to, j) \ Owes(m.to, j)'
<1>1. m.from \in Party /\ m.to \in Party /\ m.list \subseteq Chosen
  BY DEF IInv, TypeOK, Answer, Answers
<1>2. \A p \in Party, j \in Chosen : Owes(p, j)' \subseteq Owes(p, j)
  BY DEF Owes
<1>3. \A j \in m.list : m.from \in Owes(m.to, j)
  BY <1>1 DEF Owes
<1>4. \A j \in m.list : m.from \notin Owes(m.to, j)'
  BY <1>1 DEF Owes, IInv, AnswerInv
<1> QED
  BY <1>2, <1>3, <1>4

(* A helper owes no more by answering than by being called.                *)
LEMMA HelpOwes ==
  ASSUME IInv, NEW i \in Party, NEW c \in Party, Help(i, c)
  PROVE  \A p \in Party, j \in Chosen : Owes(p, j)' \subseteq Owes(p, j)
BY DEF Help, Found, To, Owes, Answers

(* There is a party.                                                       *)
LEMMA PartyNumber == N \in Nat /\ N > 0
<1>1. Cardinality(Party) \in Nat
  BY PartyCount
<1> QED
  BY <1>1, PartyAssumption DEF N

(* One share less owed is one less in the count.                           *)
LEMMA OneLess ==
  ASSUME NEW S \in SUBSET Party, NEW T \in SUBSET S, NEW p \in S \ T
  PROVE  Cardinality(T) + 1 <= Cardinality(S)
<1>1. T \cup {p} \in SUBSET S /\ IsFiniteSet(T) /\ p \notin T
  BY PartyCount
<1>2. Cardinality(T \cup {p}) = Cardinality(T) + 1
  BY <1>1, FS_AddElement
<1>3. Cardinality(T \cup {p}) <= Cardinality(S)
  BY <1>1, PartyCount, FS_Subset
<1> QED
  BY <1>2, <1>3

-----------------------------------------------------------------------------
(* Push adds one share for each proposal of S.                             *)
LEMMA PushValue ==
  \A f \in [Party -> [Chosen -> Nat]], p \in Party, S \in SUBSET Chosen :
    /\ Push(f, p, S) \in [Party -> [Chosen -> Nat]]
    /\ \A q \in Party, j \in Chosen :
         Push(f, p, S)[q][j] = IF q = p /\ j \in S THEN f[q][j] + 1 ELSE f[q][j]
BY DEF Push

(* An answer made by To has its type.                                      *)
LEMMA ToType ==
  ASSUME NEW i \in Party, NEW c \in Party, NEW list \in SUBSET Chosen
  PROVE  To(i, c, list) \subseteq Answer
BY DEF To, Answer

(* What TakeStrong does, one proposal at a time.                           *)
LEMMA StrongEffect ==
  ASSUME IInv, NEW m \in strong, TakeStrong(m)
  PROVE  /\ m.from \in Party /\ m.to \in Party /\ m.list \subseteq Chosen
         /\ calls' = calls /\ Answers' = Answers \ {m}
         /\ Stars(m) \subseteq Open(m) /\ Open(m) \subseteq m.list
         /\ \A j \in Stars(m) : starWait[m.to][j] = 1
         /\ starShares' \in [Party -> [Chosen -> SUBSET Party]]
         /\ starWait' \in [Party -> [Chosen -> {0, 1}]]
         /\ shares' \in [Party -> [Chosen -> Nat]]
         /\ \A p \in Party, j \in Chosen :
              IF p = m.to /\ j \in Open(m)
              THEN /\ starShares'[p][j] = starShares[p][j] \cup {m.from}
                   /\ shares'[p][j] + starWait'[p][j]
                        = shares[p][j] + starWait[p][j] + 1
              ELSE /\ starShares'[p][j] = starShares[p][j]
                   /\ shares'[p][j] = shares[p][j]
                   /\ starWait'[p][j] = starWait[p][j]
         /\ \A p \in Party, j \in Chosen :
              starWait'[p][j] = IF Cardinality(starShares'[p][j]) > F THEN 0 ELSE 1
<1> DEFINE c == m.to
<1>1. /\ m.from \in Party /\ c \in Party /\ m.list \subseteq Chosen
      /\ m \in Answers
  BY DEF IInv, TypeOK, Answer, Answers
<1>2. calls' = calls /\ Answers' = Answers \ {m}
  BY DEF TakeStrong, CollectStrong, Answers, IInv, AnswerInv
<1>3. Stars(m) \subseteq Open(m) /\ Open(m) \subseteq m.list
  BY DEF Stars, Open
<1>4. /\ starShares \in [Party -> [Chosen -> SUBSET Party]]
      /\ starWait \in [Party -> [Chosen -> {0, 1}]]
      /\ shares \in [Party -> [Chosen -> Nat]]
  BY DEF IInv, TypeOK
<1>5. StrongOf(m) = [p \in Party |-> [j \in Chosen |->
                       IF p = c /\ j \in Open(m) THEN starShares[p][j] \cup {m.from}
                                                 ELSE starShares[p][j]]]
  BY <1>1, <1>4 DEF StrongOf
<1>6. \A j \in Open(m) :
        Cardinality(starShares[c][j] \cup {m.from}) = Cardinality(starShares[c][j]) + 1
  <2> TAKE j \in Open(m)
  <2>1. m.from \in Owes(c, j)
    BY <1>1, <1>3 DEF Owes
  <2>2. m.from \notin starShares[c][j]
    BY <1>1, <1>3, <2>1 DEF IInv, StarInv
  <2>3. starShares[c][j] \in SUBSET Party
    BY <1>1, <1>3, <1>4
  <2> QED
    BY <2>2, <2>3, PartyCount, FS_AddElement
<1>7. \A j \in Open(m) :
        j \in Stars(m) <=> Cardinality(starShares[c][j]) = F
  <2> TAKE j \in Open(m)
  <2>1. StrongOf(m)[c][j] = starShares[c][j] \cup {m.from}
    BY <1>1, <1>3, <1>5
  <2>2. starShares[c][j] \in SUBSET Party
    BY <1>1, <1>3, <1>4
  <2> QED
    BY <1>6, <2>1, <2>2, PartyCount, PartyAssumption DEF Stars
<1>8. \A p \in Party, j \in Chosen :
        starWait[p][j] = IF Cardinality(starShares[p][j]) > F THEN 0 ELSE 1
  BY DEF IInv, StarInv
<1>9. \A j \in Stars(m) : starWait[c][j] = 1
  BY <1>1, <1>3, <1>7, <1>8, PartyAssumption
<1> DEFINE once == Push(shares, c, Open(m))
<1>10. /\ once \in [Party -> [Chosen -> Nat]]
       /\ \A p \in Party, j \in Chosen :
            once[p][j] = IF p = c /\ j \in Open(m) THEN shares[p][j] + 1
                                                  ELSE shares[p][j]
  <2>1. Open(m) \in SUBSET Chosen /\ c \in Party
        /\ shares \in [Party -> [Chosen -> Nat]]
    BY <1>1, <1>3, <1>4
  <2> HIDE DEF c
  <2> QED
    BY <2>1, PushValue
<1>11. shares' = Push(once, c, Stars(m))
  BY DEF TakeStrong, CollectStrong
<1> HIDE DEF once
<1>12. /\ shares' \in [Party -> [Chosen -> Nat]]
       /\ \A p \in Party, j \in Chosen :
            shares'[p][j] = IF p = c /\ j \in Stars(m) THEN once[p][j] + 1
                                                       ELSE once[p][j]
  BY <1>1, <1>3, <1>10, <1>11, PushValue
<1>13. /\ starShares' = StrongOf(m)
       /\ starWait' = [starWait EXCEPT ![c] =
            [j \in Chosen |-> IF j \in Stars(m) THEN @[j] - 1 ELSE @[j]]]
  BY DEF TakeStrong, CollectStrong
<1>14. /\ starWait' \in [Party -> [Chosen -> {0, 1}]]
       /\ \A p \in Party, j \in Chosen :
            starWait'[p][j] = IF p = c /\ j \in Stars(m) THEN 0 ELSE starWait[p][j]
  BY <1>1, <1>4, <1>9, <1>13
<1>15. /\ starShares' \in [Party -> [Chosen -> SUBSET Party]]
       /\ starWait' \in [Party -> [Chosen -> {0, 1}]]
       /\ shares' \in [Party -> [Chosen -> Nat]]
  BY <1>1, <1>4, <1>5, <1>12, <1>13, <1>14
<1>16. ASSUME NEW p \in Party, NEW j \in Chosen
       PROVE  starWait'[p][j] = IF Cardinality(starShares'[p][j]) > F THEN 0 ELSE 1
  <2>1. starShares[p][j] \in SUBSET Party /\ Cardinality(starShares[p][j]) \in Nat
    BY <1>4, PartyCount
  <2>2. CASE p = c /\ j \in Open(m)
    <3>1. starShares'[p][j] = starShares[p][j] \cup {m.from}
      BY <1>5, <1>13, <2>2
    <3>2. CASE j \in Stars(m)
      BY <1>6, <1>7, <1>14, <2>1, <2>2, <3>1, <3>2, PartyAssumption
    <3>3. CASE j \notin Stars(m)
      <4>1. Cardinality(starShares[p][j]) # F
        BY <1>7, <2>2, <3>3
      <4>2. Cardinality(starShares'[p][j]) = Cardinality(starShares[p][j]) + 1
        BY <1>6, <2>2, <3>1
      <4>3. starWait'[p][j] = starWait[p][j]
        BY <1>14, <3>3
      <4> QED
        BY <1>8, <2>1, <4>1, <4>2, <4>3, PartyAssumption
    <3> QED
      BY <3>2, <3>3
  <2>3. CASE ~ (p = c /\ j \in Open(m))
    BY <1>3, <1>5, <1>8, <1>13, <1>14, <2>3
  <2> QED
    BY <2>2, <2>3
<1>17. ASSUME NEW p \in Party, NEW j \in Chosen
       PROVE  IF p = c /\ j \in Open(m)
              THEN /\ starShares'[p][j] = starShares[p][j] \cup {m.from}
                   /\ shares'[p][j] + starWait'[p][j]
                        = shares[p][j] + starWait[p][j] + 1
              ELSE /\ starShares'[p][j] = starShares[p][j]
                   /\ shares'[p][j] = shares[p][j]
                   /\ starWait'[p][j] = starWait[p][j]
  BY <1>3, <1>4, <1>5, <1>9, <1>10, <1>12, <1>13, <1>14
<1> QED
  BY <1>1, <1>2, <1>3, <1>9, <1>15, <1>16, <1>17

-----------------------------------------------------------------------------
(* Every step keeps the variables in their types, once the wait group is   *)
(* known to go down but once.                                              *)
LEMMA NextTypeOK == IInv /\ Next => TypeOK'
<1> SUFFICES ASSUME IInv PROVE Next => TypeOK'
  OBVIOUS
<1>1. ASSUME NEW p \in Party, CallHelp(p) PROVE TypeOK'
  <2>1. calls' \subseteq Party \X Party
    BY <1>1 DEF CallHelp, IInv, TypeOK
  <2>2. main' \in [Party -> {"start", "calling", "returned"}]
    BY <1>1 DEF CallHelp, IInv, TypeOK
  <2> QED
    BY <1>1, <2>1, <2>2 DEF CallHelp, IInv, TypeOK, Answer
<1>2. ASSUME NEW m \in strong, TakeStrong(m) PROVE TypeOK'
  BY <1>2, StrongEffect DEF TakeStrong, CollectStrong, IInv, TypeOK
<1>3. ASSUME NEW m \in weak, TakeWeak(m) PROVE TypeOK'
  BY <1>3 DEF TakeWeak, Push, IInv, TypeOK, Answer
<1>4. ASSUME NEW p \in Party, Return(p) PROVE TypeOK'
  BY <1>4 DEF Return, IInv, TypeOK, Answer
<1>5. ASSUME NEW p \in Party, NEW j \in Chosen, Decode(p, j) PROVE TypeOK'
  <2>1. missed' \subseteq Party \X Party \X Chosen
    <3>1. missed \subseteq Party \X Party \X Chosen
      BY DEF IInv, TypeOK
    <3>2. missed' = missed
          \/ \E c \in Party : missed' = missed \cup {<<p, c, j>>}
      BY <1>5 DEF Decode, Listening
    <3> QED
      BY <3>1, <3>2
  <2>2. /\ resultSet' \in [Party -> SUBSET Chosen]
        /\ decoder' \in [Party -> [Chosen -> {"decoding", "stored", "finished"}]]
    BY <1>5 DEF Decode, IInv, TypeOK
  <2> QED
    BY <1>5, <2>1, <2>2 DEF Decode, IInv, TypeOK, Answer
<1>6. ASSUME NEW p \in Party, NEW j \in Chosen, Finish(p, j) PROVE TypeOK'
  BY <1>6 DEF Finish, IInv, TypeOK, Answer
<1>7. ASSUME NEW i \in Party, NEW c \in Party, Help(i, c) PROVE TypeOK'
  <2>1. required[c] \in SUBSET Chosen
    BY DEF IInv, TypeOK
  <2>2. strong' \subseteq Answer /\ helping' \subseteq Answer
    BY <1>7, <2>1, ToType DEF Help, Found, IInv, TypeOK
  <2> QED
    BY <1>7, <2>2 DEF Help, IInv, TypeOK
<1>8. ASSUME NEW m \in helping, SendWeak(m) PROVE TypeOK'
  BY <1>8 DEF SendWeak, IInv, TypeOK, Answer
<1> QED
  BY <1>1, <1>2, <1>3, <1>4, <1>5, <1>6, <1>7, <1>8, NextCases, VDDAssumption

-----------------------------------------------------------------------------
(* A step by which no more is owed and no share is put keeps the counts.   *)
LEMMA QuietStep ==
  ASSUME IInv, TypeOK',
         \A p \in Party, j \in Chosen : Owes(p, j)' \subseteq Owes(p, j),
         \A p \in Party : main'[p] = "start" => main[p] = "start",
         UNCHANGED <<starShares, starWait, shares>>
  PROVE  CallInv' /\ StarInv' /\ CountInv'
<1>0. /\ shares \in [Party -> [Chosen -> Nat]]
      /\ starWait \in [Party -> [Chosen -> {0, 1}]]
  BY DEF IInv, TypeOK
<1>1. CallInv'
  BY DEF IInv, CallInv
<1>2. StarInv'
  BY DEF IInv, StarInv
<1>3. ASSUME NEW p \in Party, NEW j \in Chosen
      PROVE  shares'[p][j] + Cardinality(Owes(p, j)') + starWait'[p][j] <= N
  <2>1. Owes(p, j) \in SUBSET Party /\ Owes(p, j)' \in SUBSET Party
    BY DEF Owes
  <2>2. Cardinality(Owes(p, j)') <= Cardinality(Owes(p, j))
    BY <2>1, PartyCount, FS_Subset
  <2>3. shares[p][j] + Cardinality(Owes(p, j)) + starWait[p][j] <= N
    BY DEF IInv, CountInv
  <2>4. shares[p][j] \in Nat /\ starWait[p][j] \in {0, 1} /\ N \in Nat
    BY <1>0, PartyNumber
  <2> QED
    BY <2>1, <2>2, <2>3, <2>4, PartyCount
<1>4. CountInv'
  BY <1>3 DEF CountInv
<1> QED
  BY <1>1, <1>2, <1>4

(* Taking an answer keeps the counts: each share put was owed, and the     *)
(* star is put when it is no more to come.                                 *)
LEMMA TakeStep ==
  ASSUME IInv, TypeOK', NEW m \in Answers,
         calls' = calls, Answers' = Answers \ {m}, main' = main,
         main[m.to] = "calling",
         \A p \in Party, j \in Chosen :
           \/ p = m.to /\ j \in m.list
              /\ shares'[p][j] + starWait'[p][j] <= shares[p][j] + starWait[p][j] + 1
           \/ shares'[p][j] = shares[p][j] /\ starWait'[p][j] = starWait[p][j],
         \A p \in Party, j \in Chosen :
           \/ p = m.to /\ j \in m.list
              /\ starShares'[p][j] \subseteq starShares[p][j] \cup {m.from}
           \/ starShares'[p][j] = starShares[p][j],
         \A p \in Party, j \in Chosen :
           starWait'[p][j] = IF Cardinality(starShares'[p][j]) > F THEN 0 ELSE 1
  PROVE  CallInv' /\ StarInv' /\ CountInv'
<1>0. /\ shares \in [Party -> [Chosen -> Nat]]
      /\ starWait \in [Party -> [Chosen -> {0, 1}]]
      /\ shares' \in [Party -> [Chosen -> Nat]]
      /\ starWait' \in [Party -> [Chosen -> {0, 1}]]
  BY DEF IInv, TypeOK
<1>1. m.from \in Party /\ m.to \in Party /\ m.list \subseteq Chosen
  BY DEF IInv, TypeOK, Answer, Answers
<1>2. /\ \A p \in Party, j \in Chosen : Owes(p, j)' \subseteq Owes(p, j)
      /\ \A j \in m.list : m.from \in Owes(m.to, j) \ Owes(m.to, j)'
  BY TakeOwes
<1>3. CallInv'
  BY <1>2 DEF IInv, CallInv
<1>4. StarInv'
  BY <1>2 DEF IInv, StarInv
<1>5. ASSUME NEW p \in Party, NEW j \in Chosen
      PROVE  shares'[p][j] + Cardinality(Owes(p, j)') + starWait'[p][j] <= N
  <2>1. Owes(p, j) \in SUBSET Party /\ Owes(p, j)' \in SUBSET Party
    BY DEF Owes
  <2>2. Cardinality(Owes(p, j)) \in Nat /\ Cardinality(Owes(p, j)') \in Nat
    BY <2>1, PartyCount
  <2>3. shares[p][j] + Cardinality(Owes(p, j)) + starWait[p][j] <= N
    BY DEF IInv, CountInv
  <2>4. /\ shares[p][j] \in Nat /\ starWait[p][j] \in {0, 1} /\ N \in Nat
        /\ shares'[p][j] \in Nat /\ starWait'[p][j] \in {0, 1}
    BY <1>0, PartyNumber
  <2>5. CASE p = m.to /\ j \in m.list
             /\ shares'[p][j] + starWait'[p][j] <= shares[p][j] + starWait[p][j] + 1
    <3>1. Cardinality(Owes(p, j)') + 1 <= Cardinality(Owes(p, j))
      BY <1>2, <2>1, <2>5, OneLess
    <3> QED
      BY <2>2, <2>3, <2>4, <2>5, <3>1
  <2>6. CASE shares'[p][j] = shares[p][j] /\ starWait'[p][j] = starWait[p][j]
    <3>1. Cardinality(Owes(p, j)') <= Cardinality(Owes(p, j))
      BY <1>2, <2>1, PartyCount, FS_Subset
    <3> QED
      BY <2>2, <2>3, <2>4, <2>6, <3>1
  <2> QED
    BY <2>5, <2>6
<1>6. CountInv'
  BY <1>5 DEF CountInv
<1> QED
  BY <1>3, <1>4, <1>6

(* A Call makes every other party owe a share.                             *)
LEMMA CallStep ==
  ASSUME IInv, TypeOK', NEW p \in Party, CallHelp(p)
  PROVE  CallInv' /\ StarInv' /\ CountInv'
<1>1. CASE required[p] = {}
  <2>1. \A q \in Party, j \in Chosen : Owes(q, j)' \subseteq Owes(q, j)
    BY <1>1 DEF CallHelp, Owes, Answers
  <2>2. \A q \in Party : main'[q] = "start" => main[q] = "start"
    BY <1>1 DEF CallHelp, IInv, TypeOK
  <2> QED
    BY <2>1, <2>2, QuietStep DEF CallHelp
<1>2. CASE required[p] # {}
  <2>1. /\ main[p] = "start" /\ main' = [main EXCEPT ![p] = "calling"]
        /\ calls' = calls \cup ({p} \X (Party \ {p})) /\ Answers' = Answers
        /\ UNCHANGED <<starShares, starWait, shares>>
    BY <1>2 DEF CallHelp, Answers
  <2>2. \A q \in Party, j \in Chosen : q # p => Owes(q, j)' = Owes(q, j)
    BY <2>1 DEF Owes
  <2>3. \A j \in Chosen :
          Owes(p, j) = {} /\ starShares[p][j] = {} /\ shares[p][j] = 0
    BY <2>1 DEF IInv, CallInv
  <2>4. \A j \in Chosen : Owes(p, j)' = Party \ {p}
    BY <2>1, <2>3 DEF Owes
  <2>5. main \in [Party -> {"start", "calling", "returned"}]
    BY DEF IInv, TypeOK
  <2>6. CallInv'
    BY <2>1, <2>2, <2>4, <2>5 DEF IInv, CallInv
  <2>7. StarInv'
    BY <2>1, <2>2, <2>3, <2>4 DEF IInv, StarInv
  <2>8. ASSUME NEW q \in Party, NEW j \in Chosen
        PROVE  shares'[q][j] + Cardinality(Owes(q, j)') + starWait'[q][j] <= N
    <3>1. CASE q # p
      BY <2>1, <2>2, <3>1 DEF IInv, CountInv
    <3>2. CASE q = p
      <4>1. Cardinality(Party \ {p}) = N - 1
        BY PartyAssumption, FS_RemoveElement DEF N
      <4>2. starWait[p][j] \in {0, 1}
        BY DEF IInv, TypeOK
      <4> QED
        <5>1. shares'[q][j] = 0 /\ starWait'[q][j] \in {0, 1}
          BY <2>1, <2>3, <3>2, <4>2
        <5>2. Cardinality(Owes(q, j)') = N - 1
          BY <2>4, <3>2, <4>1
        <5> QED
          BY <5>1, <5>2, PartyNumber
    <3> QED
      BY <3>1, <3>2
  <2>9. CountInv'
    BY <2>8 DEF CountInv
  <2> QED
    BY <2>6, <2>7, <2>9
<1> QED
  BY <1>1, <1>2

-----------------------------------------------------------------------------
(* A step that takes an answer, or moves one, keeps their places apart.    *)
LEMMA AnswerStep ==
  ASSUME IInv, NEW m \in Answers, calls' = calls,
         \/ strong' = strong \ {m} /\ UNCHANGED <<helping, weak>>
         \/ weak' = weak \ {m} /\ UNCHANGED <<strong, helping>>
         \/ m \in helping /\ helping' = helping \ {m} /\ weak' = weak \cup {m}
            /\ UNCHANGED strong
  PROVE  AnswerInv'
BY DEF IInv, AnswerInv, Answers

(* The two answers to a Call are about different proposals, and no other   *)
(* answer from that helper is on its way.                                  *)
LEMMA HelpStep ==
  ASSUME IInv, NEW i \in Party, NEW c \in Party, Help(i, c)
  PROVE  AnswerInv'
<1> DEFINE S == To(i, c, Found(i, c))
           H == To(i, c, required[c] \ Found(i, c))
<1>1. /\ <<c, i>> \in calls /\ calls' = calls \ {<<c, i>>}
      /\ strong' = strong \cup S /\ helping' = helping \cup H /\ weak' = weak
  BY DEF Help
<1>2. \A m \in S \cup H : m.from = i /\ m.to = c
  BY DEF To
<1>3. \A m \in S, n \in H : m.list \cap n.list = {} /\ m.list # {}
  BY DEF To
<1>4. \A m, n \in S : m = n
  BY DEF To
<1>5. \A m, n \in H : m = n
  BY DEF To
<1>6. \A m \in Answers : ~ (m.from = i /\ m.to = c)
  BY <1>1 DEF IInv, AnswerInv
<1>7. Answers' = Answers \cup S \cup H
  BY <1>1 DEF Answers
<1> HIDE DEF S, H
<1>8. \A m \in Answers' : <<m.to, m.from>> \notin calls'
  BY <1>1, <1>2, <1>7 DEF IInv, AnswerInv
<1>9. ASSUME NEW m \in Answers', NEW n \in Answers',
             m.from = n.from, m.to = n.to, m.list \cap n.list # {}
      PROVE  m = n
  <2>1. CASE m \in Answers /\ n \in Answers
    BY <1>9, <2>1 DEF IInv, AnswerInv
  <2>2. CASE m \in S \cup H /\ n \in S \cup H
    BY <1>3, <1>4, <1>5, <1>9, <2>2
  <2> QED
    BY <1>2, <1>6, <1>7, <1>9, <2>1, <2>2
<1>10. /\ strong' \cap helping' = {} /\ strong' \cap weak' = {}
       /\ helping' \cap weak' = {}
  BY <1>1, <1>2, <1>3, <1>6 DEF IInv, AnswerInv, Answers
<1> QED
  BY <1>8, <1>9, <1>10 DEF AnswerInv

(* A Call is made by a party nobody answers to yet.                        *)
LEMMA CallAnswers ==
  ASSUME IInv, NEW p \in Party, CallHelp(p)
  PROVE  AnswerInv'
<1>1. Answers' = Answers
  BY DEF CallHelp, Answers
<1>2. \A m \in Answers : m.from \in Party /\ m.list # {} /\ m.list \subseteq Chosen
  BY DEF IInv, TypeOK, Answer, Answers
<1>3. \A m \in Answers : m.to # p
  BY <1>2 DEF CallHelp, IInv, CallInv, Owes
<1>4. \A m \in Answers : <<m.to, m.from>> \notin calls'
  <2>1. calls' \subseteq calls \cup ({p} \X Party)
    BY DEF CallHelp
  <2>2. \A m \in Answers : <<m.to, m.from>> \notin calls
    BY DEF IInv, AnswerInv
  <2> QED
    BY <1>3, <2>1, <2>2
<1> QED
  BY <1>1, <1>4 DEF CallHelp, IInv, AnswerInv, Answers

-----------------------------------------------------------------------------
(* Every step keeps the invariant.                                         *)
LEMMA NextIInv == IInv /\ [Next]_vars => IInv'
<1> SUFFICES ASSUME IInv, [Next]_vars PROVE IInv'
  OBVIOUS
<1>1. CASE UNCHANGED vars
  <2> USE <1>1 DEF vars
  <2>1. TypeOK' /\ AnswerInv' /\ ResultInv'
    BY DEF IInv, TypeOK, AnswerInv, ResultInv, Answers
  <2>2. \A p \in Party, j \in Chosen : Owes(p, j)' = Owes(p, j)
    BY DEF Owes, Answers
  <2> QED
    BY <2>1, <2>2, QuietStep DEF IInv
<1>2. CASE Next
  <2>1. TypeOK'
    BY <1>2, NextTypeOK
  <2>2. ASSUME NEW p \in Party, CallHelp(p) PROVE IInv'
    <3>1. ResultInv'
      <4>1. /\ main \in [Party -> {"start", "calling", "returned"}]
            /\ resultSet[p] \in SUBSET Chosen
        BY DEF IInv, TypeOK
      <4>2. required[p] = {} => resultSet[p] = Chosen
        BY <4>1 DEF IInv, ResultInv
      <4> QED
        BY <2>2, <4>1, <4>2 DEF CallHelp, IInv, ResultInv
    <3> QED
      BY <2>1, <2>2, <3>1, CallStep, CallAnswers DEF IInv
  <2>3. ASSUME NEW m \in strong, TakeStrong(m) PROVE IInv'
    <3>1. ResultInv'
      BY <2>3 DEF TakeStrong, CollectStrong, IInv, ResultInv
    <3>2. AnswerInv'
      BY <2>3, AnswerStep DEF TakeStrong, CollectStrong, Answers
    <3>3. CallInv' /\ StarInv' /\ CountInv'
      <4>1. /\ m \in Answers /\ main' = main /\ main[m.to] = "calling"
            /\ calls' = calls /\ Answers' = Answers \ {m}
        BY <2>3, StrongEffect DEF TakeStrong, CollectStrong, Answers
      <4>2. \A p \in Party, j \in Chosen :
              \/ p = m.to /\ j \in m.list
                 /\ shares'[p][j] + starWait'[p][j] <= shares[p][j] + starWait[p][j] + 1
              \/ shares'[p][j] = shares[p][j] /\ starWait'[p][j] = starWait[p][j]
        <5>1. /\ shares \in [Party -> [Chosen -> Nat]]
              /\ starWait \in [Party -> [Chosen -> {0, 1}]]
          BY DEF IInv, TypeOK
        <5>2. /\ shares' \in [Party -> [Chosen -> Nat]]
              /\ starWait' \in [Party -> [Chosen -> {0, 1}]]
              /\ Open(m) \subseteq m.list
          BY <2>3, StrongEffect
        <5> TAKE p \in Party, j \in Chosen
        <5>3. /\ shares[p][j] \in Nat /\ starWait[p][j] \in {0, 1}
              /\ shares'[p][j] \in Nat /\ starWait'[p][j] \in {0, 1}
          BY <5>1, <5>2
        <5>4. CASE p = m.to /\ j \in Open(m)
          <6>1. shares'[p][j] + starWait'[p][j] = shares[p][j] + starWait[p][j] + 1
            BY <2>3, <5>4, StrongEffect
          <6> QED
            BY <5>2, <5>3, <5>4, <6>1
        <5>5. CASE ~ (p = m.to /\ j \in Open(m))
          BY <2>3, <5>5, StrongEffect
        <5> QED
          BY <5>4, <5>5
      <4>3. \A p \in Party, j \in Chosen :
              \/ p = m.to /\ j \in m.list
                 /\ starShares'[p][j] \subseteq starShares[p][j] \cup {m.from}
              \/ starShares'[p][j] = starShares[p][j]
        BY <2>3, StrongEffect
      <4>4. \A p \in Party, j \in Chosen :
              starWait'[p][j] = IF Cardinality(starShares'[p][j]) > F THEN 0 ELSE 1
        BY <2>3, StrongEffect
      <4> QED
        BY <2>1, <4>1, <4>2, <4>3, <4>4, TakeStep
    <3> QED
      BY <2>1, <3>1, <3>2, <3>3 DEF IInv
  <2>4. ASSUME NEW m \in weak, TakeWeak(m) PROVE IInv'
    <3>1. ResultInv'
      BY <2>4 DEF TakeWeak, IInv, ResultInv
    <3>2. AnswerInv'
      BY <2>4, AnswerStep DEF TakeWeak, Answers
    <3>3. CallInv' /\ StarInv' /\ CountInv'
      <4>1. /\ m \in Answers /\ main' = main /\ main[m.to] = "calling"
            /\ calls' = calls /\ Answers' = Answers \ {m}
            /\ starShares' = starShares /\ starWait' = starWait
            /\ shares' = Push(shares, m.to, Open(m))
        BY <2>4 DEF TakeWeak, Answers, IInv, AnswerInv
      <4>2. m.to \in Party /\ Open(m) \subseteq m.list /\ Open(m) \in SUBSET Chosen
        BY <4>1 DEF IInv, TypeOK, Answer, Answers, Open
      <4>3. /\ shares \in [Party -> [Chosen -> Nat]]
            /\ starWait \in [Party -> [Chosen -> {0, 1}]]
        BY DEF IInv, TypeOK
      <4>4. \A p \in Party, j \in Chosen :
              shares'[p][j] = IF p = m.to /\ j \in Open(m) THEN shares[p][j] + 1
                                                          ELSE shares[p][j]
        BY <4>1, <4>2, <4>3, PushValue
      <4>5. \A p \in Party, j \in Chosen :
              \/ p = m.to /\ j \in m.list
                 /\ shares'[p][j] + starWait'[p][j] <= shares[p][j] + starWait[p][j] + 1
              \/ shares'[p][j] = shares[p][j] /\ starWait'[p][j] = starWait[p][j]
        BY <4>1, <4>2, <4>3, <4>4
      <4>6. \A p \in Party, j \in Chosen :
              starWait'[p][j] = IF Cardinality(starShares'[p][j]) > F THEN 0 ELSE 1
        BY <4>1 DEF IInv, StarInv
      <4> QED
        BY <2>1, <4>1, <4>5, <4>6, TakeStep
    <3> QED
      BY <2>1, <3>1, <3>2, <3>3 DEF IInv
  <2>5. ASSUME NEW p \in Party, Return(p) PROVE IInv'
    <3>1. ResultInv'
      <4>1. /\ main \in [Party -> {"start", "calling", "returned"}]
            /\ resultSet \in [Party -> SUBSET Chosen]
        BY DEF IInv, TypeOK
      <4>2. resultSet[p] = Chosen
        BY <2>5, <4>1 DEF Return, IInv, ResultInv
      <4> QED
        BY <2>5, <4>1, <4>2 DEF Return, IInv, ResultInv
    <3>2. AnswerInv' /\ \A q \in Party, j \in Chosen : Owes(q, j)' = Owes(q, j)
      BY <2>5 DEF Return, IInv, AnswerInv, Answers, Owes
    <3>3. \A q \in Party : main'[q] = "start" => main[q] = "start"
      BY <2>5 DEF Return, IInv, TypeOK
    <3> QED
      BY <2>1, <2>5, <3>1, <3>2, <3>3, QuietStep DEF Return, IInv
  <2>6. ASSUME NEW p \in Party, NEW j \in Chosen, Decode(p, j) \/ Finish(p, j)
        PROVE  IInv'
    <3>1. ResultInv'
      <4>1. /\ resultSet \in [Party -> SUBSET Chosen]
            /\ decoder \in [Party -> [Chosen -> {"decoding", "stored", "finished"}]]
        BY DEF IInv, TypeOK
      <4>2. /\ required' = required /\ main' = main
            /\ \A q \in Party : resultSet[q] \subseteq resultSet'[q]
            /\ resultSet' \in [Party -> SUBSET Chosen]
        BY <2>6, <4>1 DEF Decode, Finish
      <4>3. \A q \in Party, k \in Chosen :
              decoder'[q][k] # "decoding" => k \in resultSet'[q]
        <5>1. \A q \in Party, k \in Chosen :
                decoder[q][k] # "decoding" => k \in resultSet'[q]
          BY <4>2 DEF IInv, ResultInv
        <5>2. CASE Decode(p, j)
          BY <4>1, <5>1, <5>2 DEF Decode
        <5>3. CASE Finish(p, j)
          BY <4>1, <5>1, <5>3 DEF Finish
        <5> QED
          BY <2>6, <5>2, <5>3
      <4>4. \A q \in Party : Chosen \ required'[q] \subseteq resultSet'[q]
        BY <4>2 DEF IInv, ResultInv
      <4>5. ASSUME NEW q \in Party, main'[q] = "returned"
            PROVE  resultSet'[q] = Chosen
        <5>1. resultSet[q] = Chosen
          BY <4>2, <4>5 DEF IInv, ResultInv
        <5>2. resultSet'[q] \subseteq Chosen
          BY <4>2
        <5> QED
          BY <4>2, <5>1, <5>2
      <4> QED
        BY <4>3, <4>4, <4>5 DEF ResultInv
    <3>2. AnswerInv' /\ \A q \in Party, k \in Chosen : Owes(q, k)' = Owes(q, k)
      BY <2>6 DEF Decode, Finish, IInv, AnswerInv, Answers, Owes
    <3> QED
      BY <2>1, <2>6, <3>1, <3>2, QuietStep DEF Decode, Finish, IInv
  <2>7. ASSUME NEW i \in Party, NEW c \in Party, Help(i, c) PROVE IInv'
    <3>1. ResultInv'
      BY <2>7 DEF Help, IInv, ResultInv
    <3> QED
      BY <2>1, <2>7, <3>1, HelpStep, HelpOwes, QuietStep DEF Help, IInv
  <2>8. ASSUME NEW m \in helping, SendWeak(m) PROVE IInv'
    <3>1. ResultInv'
      BY <2>8 DEF SendWeak, IInv, ResultInv
    <3>2. AnswerInv'
      BY <2>8, AnswerStep DEF SendWeak, Answers
    <3>3. \A q \in Party, j \in Chosen : Owes(q, j)' = Owes(q, j)
      BY <2>8 DEF SendWeak, Owes, Answers
    <3> QED
      BY <2>1, <2>8, <3>1, <3>2, <3>3, QuietStep DEF SendWeak, IInv
  <2> QED
    BY <1>2, <2>2, <2>3, <2>4, <2>5, <2>6, <2>7, <2>8, NextCases, VDDAssumption
<1> QED
  BY <1>1, <1>2

(* The invariant holds of every behaviour.                                 *)
THEOREM Inductive == Spec => []IInv
BY InitIInv, NextIInv, PTL DEF Spec

(***************************************************************************)
(* TypeOK holds of every behaviour: starWait.Done is called once at most.  *)
(***************************************************************************)
THEOREM TypeCorrect == Spec => []TypeOK
BY Inductive, PTL DEF IInv

(***************************************************************************)
(* CallHelp returns with every chosen proposal.                            *)
(***************************************************************************)
THEOREM ReturnedCompleteAlways == Spec => []ReturnedComplete
<1>1. IInv => ReturnedComplete
  BY DEF IInv, ResultInv, ReturnedComplete
<1> QED
  BY <1>1, Inductive, PTL

(***************************************************************************)
(* No more than N shares are put into a decodeShareChannel.                *)
(***************************************************************************)
THEOREM ChannelSufficesAlways == Spec => []ChannelSuffices
<1>1. ASSUME IInv, NEW p \in Party, NEW j \in Chosen
      PROVE  shares[p][j] <= N
  <2>1. Owes(p, j) \in SUBSET Party
    BY DEF Owes
  <2>2. shares[p][j] + Cardinality(Owes(p, j)) + starWait[p][j] <= N
    BY <1>1 DEF IInv, CountInv
  <2>3. /\ shares \in [Party -> [Chosen -> Nat]]
        /\ starWait \in [Party -> [Chosen -> {0, 1}]]
    BY <1>1 DEF IInv, TypeOK
  <2>4. shares[p][j] \in Nat /\ starWait[p][j] \in {0, 1}
    BY <2>3
  <2> QED
    BY <2>1, <2>2, <2>4, PartyCount, PartyNumber
<1>2. IInv => ChannelSuffices
  BY <1>1 DEF ChannelSuffices
<1> QED
  BY <1>2, Inductive, PTL

-----------------------------------------------------------------------------
(***************************************************************************)
(* What makes CallHelp end.                                                *)
(***************************************************************************)

(* A proposal a caller has not finished misses no share: all are put, owed *)
(* or the star to come; and a holder's is owed or was a Strong.            *)
NeedInv ==
  \A p \in Party : main[p] # "start" =>
    \A j \in required[p] : decoder[p][j] # "finished" =>
      /\ shares[p][j] + Cardinality(Owes(p, j)) + starWait[p][j] = N
      /\ \A i \in Party \ {p} :
           j \notin required[i] => i \in Owes(p, j) \cup starShares[p][j]

(* The Calls to parties that are not up stay where they are.               *)
SilentInv ==
  \A p \in Party : main[p] # "start" /\ required[p] # {} =>
    \A i \in Party \ {p} : i \notin Up => <<p, i>> \in calls

(* A weakHelp is about what its party requires itself, and so is what      *)
(* helpListener looks for too early.                                       *)
ListInv ==
  /\ \A m \in helping \cup weak : m.list \subseteq required[m.from]
  /\ \A m \in missed : m[3] \in required[m[1]]

(* A party that has returned has finished what it required.                *)
DoneInv ==
  \A p \in Party : main[p] = "returned" =>
    \A j \in required[p] : decoder[p][j] = "finished"

(* The star comes before the proposal is decoded.                          *)
StarFirst ==
  \A p \in Up : \A j \in required[p] :
    decoder[p][j] # "decoding" => starWait[p][j] = 0

AliveInv == NeedInv /\ SilentInv /\ ListInv /\ DoneInv /\ (FewLack => StarFirst)

-----------------------------------------------------------------------------
LEMMA InitAlive == Init => AliveInv
<1> SUFFICES ASSUME Init PROVE AliveInv
  OBVIOUS
<1>1. NeedInv /\ SilentInv /\ ListInv /\ DoneInv
  BY DEF Init, NeedInv, SilentInv, ListInv, DoneInv
<1>2. \A p \in Up : p \in Party /\ required[p] \subseteq Chosen
  BY VDDAssumption DEF Init
<1>3. StarFirst
  BY <1>2 DEF Init, StarFirst
<1> QED
  BY <1>1, <1>3 DEF AliveInv

(* An answer that is taken is all that is not owed any more.               *)
LEMMA TakeKeeps ==
  ASSUME IInv, NEW m \in Answers, calls' = calls, Answers' = Answers \ {m},
         NEW p \in Party, NEW j \in Chosen
  PROVE  /\ p = m.to /\ j \in m.list => Owes(p, j)' = Owes(p, j) \ {m.from}
         /\ ~ (p = m.to /\ j \in m.list) => Owes(p, j)' = Owes(p, j)
<1>1. Owes(p, j)' \subseteq Owes(p, j)
  BY TakeOwes
<1>2. ASSUME NEW i \in Owes(p, j), ~ (p = m.to /\ j \in m.list /\ i = m.from)
      PROVE  i \in Owes(p, j)'
  BY <1>2 DEF Owes
<1>3. p = m.to /\ j \in m.list => m.from \notin Owes(p, j)'
  BY TakeOwes
<1> QED
  BY <1>1, <1>2, <1>3

(* A helper that is called owes as much as before of what the caller       *)
(* requires.                                                               *)
LEMMA HelpKeeps ==
  ASSUME IInv, NEW i \in Party, NEW c \in Party, Help(i, c),
         NEW p \in Party, NEW j \in required[p]
  PROVE  Owes(p, j)' = Owes(p, j)
<1>1. j \in Chosen
  BY DEF IInv, TypeOK
<1> DEFINE S == To(i, c, Found(i, c))
           H == To(i, c, required[c] \ Found(i, c))
<1>2. Answers' = Answers \cup S \cup H /\ calls' = calls \ {<<c, i>>}
  BY DEF Help, Answers
<1>3. ASSUME c = p PROVE \E m \in S \cup H : m.from = i /\ m.to = p /\ j \in m.list
  <2> DEFINE s == [from |-> i, to |-> c, list |-> Found(i, c)]
             h == [from |-> i, to |-> c, list |-> required[c] \ Found(i, c)]
  <2>1. CASE j \in Found(i, c)
    <3>1. S = {s} /\ j \in s.list /\ s.from = i /\ s.to = p
      BY <1>3, <2>1 DEF To
    <3> QED
      BY <3>1
  <2>2. CASE j \notin Found(i, c)
    <3>1. H = {h} /\ j \in h.list /\ h.from = i /\ h.to = p
      BY <1>3, <2>2 DEF To
    <3> QED
      BY <3>1
  <2> QED
    BY <2>1, <2>2
<1> HIDE DEF S, H
<1>4. Owes(p, j)' \subseteq Owes(p, j)
  BY <1>1, HelpOwes
<1>5. ASSUME NEW k \in Owes(p, j) PROVE k \in Owes(p, j)'
  <2>1. k \in Party
    BY DEF Owes
  <2>2. CASE <<p, k>> \in calls /\ ~ (p = c /\ k = i)
    BY <1>2, <2>1, <2>2 DEF Owes
  <2>3. CASE p = c /\ k = i
    <3>1. \E m \in Answers' : m.from = k /\ m.to = p /\ j \in m.list
      BY <1>2, <1>3, <2>3
    <3> QED
      BY <2>1, <3>1 DEF Owes
  <2>4. CASE \E m \in Answers : m.from = k /\ m.to = p /\ j \in m.list
    BY <1>2, <2>1, <2>4 DEF Owes
  <2> QED
    BY <2>2, <2>3, <2>4 DEF Owes
<1> QED
  BY <1>4, <1>5

(* A step that changes nothing a proposal needs keeps NeedInv.             *)
LEMMA QuietNeed ==
  ASSUME IInv, NeedInv, required' = required,
         \A p \in Party, j \in Chosen : j \in required[p] => Owes(p, j)' = Owes(p, j),
         \A p \in Party : main'[p] # "start" => main[p] # "start",
         \A p \in Party, j \in Chosen :
           decoder[p][j] = "finished" => decoder'[p][j] = "finished",
         UNCHANGED <<starShares, starWait, shares>>
  PROVE  NeedInv'
<1>1. \A p \in Party : required[p] \subseteq Chosen
  BY DEF IInv, TypeOK
<1> SUFFICES ASSUME NEW p \in Party, main'[p] # "start", NEW j \in required[p],
                    decoder'[p][j] # "finished"
             PROVE  /\ shares'[p][j] + Cardinality(Owes(p, j)') + starWait'[p][j] = N
                    /\ \A i \in Party \ {p} :
                         j \notin required[i] => i \in Owes(p, j)' \cup starShares'[p][j]
  BY DEF NeedInv
<1>2. j \in Chosen /\ Owes(p, j)' = Owes(p, j)
  BY <1>1
<1>3. main[p] # "start" /\ decoder[p][j] # "finished"
  BY <1>2
<1> QED
  BY <1>2, <1>3 DEF NeedInv

(* A step that takes an answer m puts its share, and the star when it      *)
(* comes, of what is open.                                                 *)
LEMMA TakeNeed ==
  ASSUME IInv, NeedInv, NEW m \in Answers,
         required' = required, main' = main, decoder' = decoder, calls' = calls,
         Answers' = Answers \ {m},
         shares' \in [Party -> [Chosen -> Nat]],
         starWait' \in [Party -> [Chosen -> {0, 1}]],
         \A p \in Party, j \in Chosen :
           IF p = m.to /\ j \in Open(m)
           THEN /\ starShares[p][j] \subseteq starShares'[p][j]
                /\ j \notin required[m.from] => m.from \in starShares'[p][j]
                /\ shares'[p][j] + starWait'[p][j] = shares[p][j] + starWait[p][j] + 1
           ELSE /\ starShares'[p][j] = starShares[p][j]
                /\ shares'[p][j] = shares[p][j]
                /\ starWait'[p][j] = starWait[p][j]
  PROVE  NeedInv'
<1>1. \A p \in Party : required[p] \subseteq Chosen
  BY DEF IInv, TypeOK
<1> SUFFICES ASSUME NEW p \in Party, main[p] # "start", NEW j \in required[p],
                    decoder[p][j] # "finished"
             PROVE  /\ shares'[p][j] + Cardinality(Owes(p, j)') + starWait'[p][j] = N
                    /\ \A i \in Party \ {p} :
                         j \notin required[i] => i \in Owes(p, j)' \cup starShares'[p][j]
  BY DEF NeedInv
<1>2. j \in Chosen
  BY <1>1
<1>3. /\ shares[p][j] + Cardinality(Owes(p, j)) + starWait[p][j] = N
      /\ \A i \in Party \ {p} :
           j \notin required[i] => i \in Owes(p, j) \cup starShares[p][j]
  BY DEF NeedInv
<1>4. CASE p = m.to /\ j \in m.list
  <2>1. j \in Open(m)
    BY <1>4 DEF Open
  <2>2. /\ starShares[p][j] \subseteq starShares'[p][j]
        /\ j \notin required[m.from] => m.from \in starShares'[p][j]
        /\ shares'[p][j] + starWait'[p][j] = shares[p][j] + starWait[p][j] + 1
    BY <1>2, <1>4, <2>1
  <2>3. Owes(p, j)' = Owes(p, j) \ {m.from}
    BY <1>2, <1>4, TakeKeeps
  <2>4. m.from \in Owes(p, j) /\ Owes(p, j) \in SUBSET Party
    BY <1>2, <1>4, TakeOwes DEF Owes
  <2>5. Cardinality(Owes(p, j)') = Cardinality(Owes(p, j)) - 1
    <3> DEFINE old == Owes(p, j)
    <3>1. IsFiniteSet(old) /\ m.from \in old
      BY <2>4, PartyCount
    <3> HIDE DEF old
    <3>2. Cardinality(old \ {m.from}) = Cardinality(old) - 1
      BY <3>1, FS_RemoveElement
    <3> QED
      BY <2>3, <3>2 DEF old
  <2>6. /\ shares[p][j] \in Nat /\ starWait[p][j] \in {0, 1}
        /\ shares'[p][j] \in Nat /\ starWait'[p][j] \in {0, 1}
        /\ Cardinality(Owes(p, j)) \in Nat
    BY <1>2, <2>4, PartyCount DEF IInv, TypeOK
  <2>7. shares'[p][j] + Cardinality(Owes(p, j)') + starWait'[p][j] = N
    <3> DEFINE h == shares[p][j]  w == starWait[p][j]  o == Cardinality(Owes(p, j))
               hh == shares'[p][j]  ww == starWait'[p][j]
               oo == Cardinality(Owes(p, j)')
    <3>1. h + o + w = N /\ hh + ww = h + w + 1 /\ oo = o - 1
      BY <1>3, <2>2, <2>5
    <3>2. h \in Nat /\ w \in Nat /\ hh \in Nat /\ ww \in Nat /\ o \in Nat /\ N \in Nat
      BY <2>6, PartyNumber
    <3> HIDE DEF h, w, o, hh, ww, oo
    <3>3. hh + oo + ww = N
      BY <3>1, <3>2
    <3> QED
      BY <3>3 DEF hh, oo, ww
  <2> QED
    BY <1>3, <2>2, <2>3, <2>7
<1>5. CASE ~ (p = m.to /\ j \in m.list)
  <2>1. ~ (p = m.to /\ j \in Open(m))
    BY <1>5 DEF Open
  <2>2. Owes(p, j)' = Owes(p, j)
    BY <1>2, <1>5, TakeKeeps
  <2> QED
    BY <1>2, <1>3, <2>1, <2>2
<1> QED
  BY <1>4, <1>5

(* At the Call every other party owes every share.                         *)
LEMMA CallNeed ==
  ASSUME IInv, NeedInv, NEW p \in Party, CallHelp(p)
  PROVE  NeedInv'
<1>1. \A q \in Party : required[q] \subseteq Chosen
  BY DEF IInv, TypeOK
<1>2. /\ main[p] = "start" /\ \A q \in Party \ {p} : main'[q] = main[q]
      /\ UNCHANGED <<required, strong, helping, weak, starShares, starWait,
                     shares, decoder>>
      /\ required[p] # {} => calls' = calls \cup ({p} \X (Party \ {p}))
      /\ required[p] = {} => calls' = calls
  BY DEF CallHelp, IInv, TypeOK
<1>3. Answers' = Answers
  BY <1>2 DEF Answers
<1> SUFFICES ASSUME NEW q \in Party, main'[q] # "start", NEW j \in required[q],
                    decoder[q][j] # "finished"
             PROVE  /\ shares[q][j] + Cardinality(Owes(q, j)') + starWait[q][j] = N
                    /\ \A i \in Party \ {q} :
                         j \notin required[i] => i \in Owes(q, j)' \cup starShares[q][j]
  BY <1>2 DEF NeedInv
<1>4. j \in Chosen
  BY <1>1
<1>5. CASE q # p
  <2>1. Owes(q, j)' = Owes(q, j)
    BY <1>2, <1>3, <1>5 DEF Owes
  <2> QED
    BY <1>2, <1>5, <2>1 DEF NeedInv
<1>6. CASE q = p
  <2>1. Owes(p, j) = {} /\ starShares[p][j] = {} /\ shares[p][j] = 0
    BY <1>2, <1>4 DEF IInv, CallInv
  <2>2. calls' = calls \cup ({p} \X (Party \ {p}))
    BY <1>2, <1>6
  <2>3. Owes(p, j)' = Party \ {p}
    BY <1>3, <2>1, <2>2 DEF Owes
  <2>4. Cardinality(Party \ {p}) = N - 1
    BY PartyAssumption, FS_RemoveElement DEF N
  <2>5. starWait[p][j] = 1
    <3>1. ~ (Cardinality(starShares[p][j]) > F)
      BY <2>1, FS_EmptySet, PartyAssumption
    <3> QED
      BY <1>4, <3>1 DEF IInv, StarInv
  <2> QED
    BY <1>6, <2>1, <2>3, <2>4, <2>5, PartyNumber
<1> QED
  BY <1>5, <1>6

-----------------------------------------------------------------------------
(***************************************************************************)
(* At most 2F+1 parties can have put a share without the star: F that sent *)
(* a Strong, and those that require the proposal themselves.               *)
(***************************************************************************)
LEMMA NoDecodeWithoutStar ==
  ASSUME IInv, AliveInv, FewLack, NEW p \in Up, NEW j \in required[p],
         decoder[p][j] = "decoding", shares[p][j] > 2 * F
  PROVE  starWait[p][j] = 0
<1>1. p \in Party /\ j \in Chosen
  BY VDDAssumption DEF IInv, TypeOK
<1>2. /\ shares[p][j] \in Nat /\ starWait[p][j] \in {0, 1}
      /\ starShares[p][j] \in SUBSET Party
  BY <1>1 DEF IInv, TypeOK
<1>3. main[p] # "start"
  <2>1. main[p] = "start" => shares[p][j] = 0
    BY <1>1 DEF IInv, CallInv
  <2> QED
    BY <1>2, <2>1, PartyAssumption
<1> SUFFICES ASSUME starWait[p][j] = 1 PROVE FALSE
  BY <1>2
<1> DEFINE owes == Owes(p, j)
           taken == starShares[p][j]
           lack == {q \in Up : j \in required[q]}
<1>4. /\ shares[p][j] + Cardinality(owes) + 1 = N
      /\ \A i \in Party \ {p} : j \notin required[i] => i \in owes \cup taken
  BY <1>1, <1>3 DEF AliveInv, NeedInv
<1>5. \A i \in Party \ {p} : i \notin Up => i \in owes
  BY <1>1, <1>3 DEF AliveInv, SilentInv, Owes
<1>6. owes \in SUBSET Party /\ lack \in SUBSET Party /\ p \in lack
  BY VDDAssumption DEF Owes
<1>7. Cardinality(taken) <= F
  <2>1. Cardinality(taken) \in Nat
    BY <1>2, PartyCount
  <2> QED
    BY <1>1, <2>1, PartyAssumption DEF IInv, StarInv
<1>8. Cardinality(lack) <= F + 1
  BY <1>1 DEF FewLack
<1>9. Party \subseteq owes \cup (taken \cup lack)
  BY <1>4, <1>5, <1>6
<1> HIDE DEF owes, taken, lack
<1>10. taken \in SUBSET Party
  BY <1>2 DEF taken
<1>11. Cardinality(taken \cup lack) <= Cardinality(taken) + Cardinality(lack)
  BY <1>6, <1>10, UnionCount
<1>12. Cardinality(owes \cup (taken \cup lack))
         <= Cardinality(owes) + Cardinality(taken \cup lack)
  BY <1>6, <1>10, UnionCount
<1>13. N <= Cardinality(owes \cup (taken \cup lack))
  <2>1. owes \cup (taken \cup lack) = Party
    BY <1>6, <1>9, <1>10
  <2>2. Cardinality(owes \cup (taken \cup lack)) = N
    BY <2>1 DEF N
  <2> QED
    BY <2>2, PartyNumber
<1>14. /\ Cardinality(owes) \in Nat /\ Cardinality(taken) \in Nat
       /\ Cardinality(lack) \in Nat /\ Cardinality(taken \cup lack) \in Nat
       /\ Cardinality(owes \cup (taken \cup lack)) \in Nat
  BY <1>6, <1>10, PartyCount
<1> QED
  BY <1>2, <1>4, <1>7, <1>8, <1>11, <1>12, <1>13, <1>14, PartyNumber, PartyAssumption

(* Every step keeps what makes CallHelp end.                               *)
LEMMA NextAlive == IInv /\ IInv' /\ AliveInv /\ [Next]_vars => AliveInv'
<1> SUFFICES ASSUME IInv, IInv', AliveInv, [Next]_vars PROVE AliveInv'
  OBVIOUS
<1>1. CASE UNCHANGED vars
  <2> USE <1>1 DEF vars
  <2>1. SilentInv' /\ ListInv' /\ DoneInv' /\ (FewLack' => StarFirst')
    BY DEF AliveInv, SilentInv, ListInv, DoneInv, StarFirst, FewLack
  <2>2. \A p \in Party, j \in Chosen : Owes(p, j)' = Owes(p, j)
    BY DEF Owes, Answers
  <2>3. NeedInv'
    BY <2>2, QuietNeed DEF AliveInv
  <2> QED
    BY <2>1, <2>3 DEF AliveInv
<1>2. CASE Next
  <2>0. /\ main \in [Party -> {"start", "calling", "returned"}]
        /\ starWait \in [Party -> [Chosen -> {0, 1}]]
        /\ decoder \in [Party -> [Chosen -> {"decoding", "stored", "finished"}]]
        /\ \A q \in Party : required[q] \subseteq Chosen
        /\ Up \subseteq Party
    BY VDDAssumption DEF IInv, TypeOK
  <2>1. ASSUME NEW p \in Party, CallHelp(p) PROVE AliveInv'
    <3>1. NeedInv'
      BY <2>1, CallNeed DEF AliveInv
    <3>2. SilentInv'
      BY <2>0, <2>1 DEF CallHelp, AliveInv, SilentInv
    <3>3. ListInv'
      BY <2>1 DEF CallHelp, AliveInv, ListInv
    <3>4. DoneInv'
      BY <2>0, <2>1 DEF CallHelp, AliveInv, DoneInv
    <3>5. FewLack' => StarFirst'
      BY <2>1 DEF CallHelp, AliveInv, StarFirst, FewLack
    <3> QED
      BY <3>1, <3>2, <3>3, <3>4, <3>5 DEF AliveInv
  <2>2. ASSUME NEW m \in strong, TakeStrong(m) PROVE AliveInv'
    <3>0. /\ m \in Answers /\ calls' = calls /\ Answers' = Answers \ {m}
          /\ UNCHANGED <<main, required, decoder, missed, helping, weak>>
      BY <2>2, StrongEffect DEF TakeStrong, CollectStrong, Answers
    <3>1. NeedInv'
      <4>1. \A p \in Party, j \in Chosen :
              IF p = m.to /\ j \in Open(m)
              THEN /\ starShares[p][j] \subseteq starShares'[p][j]
                   /\ j \notin required[m.from] => m.from \in starShares'[p][j]
                   /\ shares'[p][j] + starWait'[p][j] = shares[p][j] + starWait[p][j] + 1
              ELSE /\ starShares'[p][j] = starShares[p][j]
                   /\ shares'[p][j] = shares[p][j]
                   /\ starWait'[p][j] = starWait[p][j]
        BY <2>2, StrongEffect
      <4>2. /\ shares' \in [Party -> [Chosen -> Nat]]
            /\ starWait' \in [Party -> [Chosen -> {0, 1}]]
        BY <2>2, StrongEffect
      <4> QED
        BY <3>0, <4>1, <4>2, TakeNeed DEF AliveInv
    <3>2. SilentInv' /\ ListInv' /\ DoneInv'
      BY <3>0 DEF AliveInv, SilentInv, ListInv, DoneInv
    <3>3. ASSUME FewLack', NEW p \in Up, NEW j \in required[p], decoder[p][j] # "decoding"
          PROVE  starWait'[p][j] = 0
      <4>1. starWait[p][j] = 0
        BY <3>0, <3>3 DEF AliveInv, StarFirst, FewLack
      <4>2. p \in Party /\ j \in Chosen
        BY <2>0
      <4>3. j \notin Stars(m) \/ p # m.to
        BY <2>2, <4>1, StrongEffect
      <4>4. starWait' = [starWait EXCEPT ![m.to] =
              [k \in Chosen |-> IF k \in Stars(m) THEN @[k] - 1 ELSE @[k]]]
        BY <2>2 DEF TakeStrong, CollectStrong
      <4> QED
        BY <2>0, <4>1, <4>2, <4>3, <4>4
    <3>4. FewLack' => StarFirst'
      BY <3>0, <3>3 DEF StarFirst
    <3> QED
      BY <3>1, <3>2, <3>4 DEF AliveInv
  <2>3. ASSUME NEW m \in weak, TakeWeak(m) PROVE AliveInv'
    <3>0. /\ m \in Answers /\ calls' = calls /\ Answers' = Answers \ {m}
          /\ UNCHANGED <<main, required, decoder, missed, helping, starShares,
                         starWait>>
          /\ shares' = Push(shares, m.to, Open(m)) /\ weak' \subseteq weak
      BY <2>3 DEF TakeWeak, Answers, IInv, AnswerInv
    <3>1. NeedInv'
      <4>1. /\ m.to \in Party /\ Open(m) \in SUBSET Chosen
            /\ Open(m) \subseteq required[m.from]
        BY <2>3, <3>0 DEF IInv, TypeOK, Answer, Answers, Open, AliveInv, ListInv
      <4>2. /\ shares \in [Party -> [Chosen -> Nat]]
            /\ \A p \in Party, j \in Chosen :
                 shares[p][j] \in Nat /\ starWait[p][j] \in {0, 1}
        BY DEF IInv, TypeOK
      <4>3. \A p \in Party, j \in Chosen :
              shares'[p][j] = IF p = m.to /\ j \in Open(m) THEN shares[p][j] + 1
                                                          ELSE shares[p][j]
        BY <3>0, <4>1, <4>2, PushValue
      <4>4. \A p \in Party, j \in Chosen :
              IF p = m.to /\ j \in Open(m)
              THEN /\ starShares[p][j] \subseteq starShares'[p][j]
                   /\ j \notin required[m.from] => m.from \in starShares'[p][j]
                   /\ shares'[p][j] + starWait'[p][j] = shares[p][j] + starWait[p][j] + 1
              ELSE /\ starShares'[p][j] = starShares[p][j]
                   /\ shares'[p][j] = shares[p][j]
                   /\ starWait'[p][j] = starWait[p][j]
        BY <3>0, <4>1, <4>2, <4>3
      <4>5. /\ shares' \in [Party -> [Chosen -> Nat]]
            /\ starWait' \in [Party -> [Chosen -> {0, 1}]]
        BY DEF IInv, TypeOK
      <4> QED
        BY <3>0, <4>4, <4>5, TakeNeed DEF AliveInv
    <3>2. SilentInv' /\ ListInv' /\ DoneInv' /\ (FewLack' => StarFirst')
      BY <3>0 DEF AliveInv, SilentInv, ListInv, DoneInv, StarFirst, FewLack
    <3> QED
      BY <3>1, <3>2 DEF AliveInv
  <2>4. ASSUME NEW p \in Party, Return(p) PROVE AliveInv'
    <3>1. NeedInv'
      <4>1. \A q \in Party, j \in Chosen : Owes(q, j)' = Owes(q, j)
        BY <2>4 DEF Return, Owes, Answers
      <4>2. \A q \in Party : main'[q] # "start" => main[q] # "start"
        BY <2>0, <2>4 DEF Return
      <4> QED
        BY <2>4, <4>1, <4>2, QuietNeed DEF Return, AliveInv
    <3>2. SilentInv' /\ ListInv' /\ DoneInv'
      BY <2>0, <2>4 DEF Return, AliveInv, SilentInv, ListInv, DoneInv
    <3>3. FewLack' => StarFirst'
      BY <2>4 DEF Return, AliveInv, StarFirst, FewLack
    <3> QED
      BY <3>1, <3>2, <3>3 DEF AliveInv
  <2>5. ASSUME NEW p \in Party, NEW j \in Chosen, Decode(p, j) \/ Finish(p, j)
        PROVE  AliveInv'
    <3>0. UNCHANGED <<main, required, calls, strong, helping, weak, starShares,
                      starWait, shares>>
      BY <2>5 DEF Decode, Finish
    <3>1. \A q \in Party, k \in Chosen :
            /\ decoder[q][k] = "finished" => decoder'[q][k] = "finished"
            /\ decoder'[q][k] # "decoding" =>
                 decoder[q][k] # "decoding" \/ (q = p /\ k = j /\ Decode(p, j))
      BY <2>0, <2>5 DEF Decode, Finish
    <3>2. NeedInv'
      <4>1. \A q \in Party, k \in Chosen : Owes(q, k)' = Owes(q, k)
        BY <3>0 DEF Owes, Answers
      <4> QED
        BY <3>0, <3>1, <4>1, QuietNeed DEF AliveInv
    <3>3. SilentInv' /\ ListInv'
      <4>1. \A m \in missed' : m \in missed \/ m[3] \in required[m[1]]
        BY <2>5 DEF Decode, Finish
      <4> QED
        BY <3>0, <4>1 DEF AliveInv, SilentInv, ListInv
    <3>4. DoneInv'
      BY <2>0, <3>0, <3>1 DEF AliveInv, DoneInv
    <3>5. ASSUME FewLack', NEW q \in Up, NEW k \in required[q],
                 decoder'[q][k] # "decoding"
          PROVE  starWait[q][k] = 0
      <4>1. FewLack
        BY <3>0, <3>5 DEF FewLack
      <4>2. CASE decoder[q][k] # "decoding"
        BY <4>1, <4>2 DEF AliveInv, StarFirst
      <4>3. CASE q = p /\ k = j /\ Decode(p, j)
        BY <4>1, <4>3, NoDecodeWithoutStar DEF Decode
      <4> QED
        BY <2>0, <3>1, <3>5, <4>2, <4>3
    <3>6. FewLack' => StarFirst'
      BY <3>0, <3>5 DEF StarFirst
    <3> QED
      BY <3>2, <3>3, <3>4, <3>6 DEF AliveInv
  <2>6. ASSUME NEW i \in Up, NEW c \in Party, Help(i, c) PROVE AliveInv'
    <3>0. /\ UNCHANGED <<main, required, weak, starShares, starWait, shares, decoder>>
          /\ calls' = calls \ {<<c, i>>} /\ i \in Party
          /\ helping' = helping \cup To(i, c, required[c] \ Found(i, c))
      BY <2>0, <2>6 DEF Help
    <3>1. NeedInv'
      <4>1. \A q \in Party, k \in Chosen : k \in required[q] => Owes(q, k)' = Owes(q, k)
        BY <2>6, <3>0, HelpKeeps
      <4> QED
        BY <3>0, <4>1, QuietNeed DEF AliveInv
    <3>2. SilentInv' /\ DoneInv' /\ (FewLack' => StarFirst')
      BY <3>0 DEF AliveInv, SilentInv, DoneInv, StarFirst, FewLack
    <3>3. ListInv'
      <4>1. required[c] \ Found(i, c) \subseteq required[i]
        BY <2>0, <3>0 DEF Found, IInv, ResultInv, AliveInv, ListInv
      <4>2. \A m \in To(i, c, required[c] \ Found(i, c)) :
              m.from = i /\ m.list = required[c] \ Found(i, c)
        BY DEF To
      <4> QED
        BY <2>6, <3>0, <4>1, <4>2 DEF Help, AliveInv, ListInv
    <3> QED
      BY <3>1, <3>2, <3>3 DEF AliveInv
  <2>7. ASSUME NEW m \in helping, SendWeak(m) PROVE AliveInv'
    <3>0. /\ UNCHANGED <<main, required, calls, missed, strong, starShares,
                         starWait, shares, decoder>>
          /\ helping' = helping \ {m} /\ weak' = weak \cup {m}
      BY <2>7 DEF SendWeak
    <3>1. NeedInv'
      <4>1. \A q \in Party, k \in Chosen : Owes(q, k)' = Owes(q, k)
        BY <3>0 DEF Owes, Answers
      <4> QED
        BY <3>0, <4>1, QuietNeed DEF AliveInv
    <3>2. SilentInv' /\ ListInv' /\ DoneInv' /\ (FewLack' => StarFirst')
      BY <3>0 DEF AliveInv, SilentInv, ListInv, DoneInv, StarFirst, FewLack
    <3> QED
      BY <3>1, <3>2 DEF AliveInv
  <2> QED
    BY <1>2, <2>1, <2>2, <2>3, <2>4, <2>5, <2>6, <2>7, NextCases
<1> QED
  BY <1>1, <1>2

(* It holds of every behaviour.                                            *)
THEOREM AliveInductive == Spec => []AliveInv
BY Inductive, InitAlive, NextAlive, PTL DEF Spec

-----------------------------------------------------------------------------
(* Where nobody can go on, no star is waited for.                          *)
LEMMA StarsThere ==
  ASSUME IInv, AliveInv, Held, FewLack, \A q \in Up : Idle(q),
         NEW p \in Up, NEW j \in required[p]
  PROVE  starWait[p][j] = 0
<1>1. p \in Party /\ j \in Chosen /\ Up \subseteq Party
  BY VDDAssumption DEF IInv, TypeOK
<1>2. CASE decoder[p][j] # "decoding"
  BY <1>2 DEF AliveInv, StarFirst
<1>3. CASE decoder[p][j] = "decoding"
  <2> DEFINE H == {q \in Up : j \notin required[q]}
  <2>1. Idle(p) /\ main[p] # "start" /\ main[p] # "returned"
    BY <1>1, <1>3 DEF Idle, AliveInv, DoneInv
  <2>2. main[p] = "calling"
    BY <1>1, <2>1 DEF IInv, TypeOK
  <2>3. ASSUME NEW i \in H PROVE i \in starShares[p][j]
    <3>1. i \in Party /\ i # p /\ i \in Up /\ j \notin required[i] /\ Idle(i)
      BY <1>1
    <3>2. i \in Owes(p, j) \cup starShares[p][j]
      BY <1>1, <1>3, <2>1, <3>1 DEF AliveInv, NeedInv
    <3>3. <<p, i>> \notin calls
      BY <1>1, <3>1 DEF Idle
    <3>4. ASSUME NEW m \in Answers, m.from = i, m.to = p, j \in m.list PROVE FALSE
      <4>1. m \notin strong \cup weak
        BY <2>1, <2>2, <3>4 DEF Idle
      <4>2. m \in helping
        BY <4>1 DEF Answers
      <4> QED
        BY <3>1, <3>4, <4>2 DEF AliveInv, ListInv
    <3> QED
      BY <3>2, <3>3, <3>4 DEF Owes
  <2>4. Cardinality(H) > F
    BY <1>1 DEF Held
  <2>5. starShares[p][j] \in SUBSET Party
    BY <1>1 DEF IInv, TypeOK
  <2>6. Cardinality(H) <= Cardinality(starShares[p][j])
    <3>1. IsFiniteSet(starShares[p][j]) /\ H \subseteq starShares[p][j]
      BY <2>3, <2>5, PartyCount
    <3> HIDE DEF H
    <3> QED
      BY <3>1, FS_Subset
  <2>7. Cardinality(starShares[p][j]) > F
    <3>1. H \in SUBSET Party
      BY <1>1
    <3>2. Cardinality(H) \in Nat /\ Cardinality(starShares[p][j]) \in Nat /\ F \in Nat
      BY <2>5, <3>1, PartyCount, PartyAssumption
    <3> HIDE DEF H
    <3> QED
      BY <2>4, <2>6, <3>2
  <2> QED
    BY <1>1, <2>7 DEF IInv, StarInv
<1> QED
  BY <1>2, <1>3

(* Nor is a share that a party that is up owes.                            *)
LEMMA NobodyCalls ==
  ASSUME IInv, AliveInv, Held, FewLack, IsQuorum(Up), \A q \in Up : Idle(q),
         NEW p \in Up
  PROVE  main[p] = "returned"
<1>1. p \in Party /\ Up \subseteq Party /\ required[p] \subseteq Chosen
  BY VDDAssumption DEF IInv, TypeOK
<1>2. main[p] \in {"start", "calling", "returned"} /\ Idle(p)
  BY <1>1 DEF IInv, TypeOK
<1> SUFFICES ASSUME main[p] = "calling" PROVE FALSE
  BY <1>2 DEF Idle
<1>3. PICK j \in required[p] :
        decoder[p][j] # "finished" /\ shares[p][j] <= 2 * F
  BY <1>2 DEF Idle
<1>4. starWait[p][j] = 0
  BY StarsThere
<1>5. shares[p][j] + Cardinality(Owes(p, j)) + starWait[p][j] = N
  BY <1>1, <1>3 DEF AliveInv, NeedInv
<1>6. ASSUME NEW i \in Up PROVE i \notin Owes(p, j)
  <2>1. Idle(i) /\ <<p, i>> \notin calls
    BY <1>1 DEF Idle
  <2>2. ASSUME NEW m \in Answers, m.from = i, m.to = p, j \in m.list PROVE FALSE
    <3>1. m \notin strong \cup weak
      BY <1>2, <2>2 DEF Idle
    <3>2. m \in helping
      BY <3>1 DEF Answers
    <3>3. PICK k \in m.list : starWait[i][k] > 0
      BY <2>1, <2>2, <3>2 DEF Idle
    <3>4. k \in required[i]
      BY <2>2, <3>2 DEF AliveInv, ListInv
    <3>5. starWait[i][k] = 0
      BY <3>4, StarsThere
    <3> QED
      BY <3>3, <3>5
  <2> QED
    BY <2>1, <2>2 DEF Owes
<1>7. Owes(p, j) \subseteq Party \ Up
  BY <1>6 DEF Owes
<1>8. Cardinality(Party \ Up) = N - Cardinality(Up)
  <2>1. IsFiniteSet(Party) /\ IsFiniteSet(Up) /\ Party \cap Up = Up
    BY <1>1, PartyCount
  <2> QED
    BY <2>1, FS_Difference DEF N
<1>9. Cardinality(Owes(p, j)) <= Cardinality(Party \ Up)
  <2>1. IsFiniteSet(Party \ Up)
    BY PartyCount
  <2> QED
    BY <1>7, <2>1, FS_Subset
<1>10. Cardinality(Up) > 2 * F
  BY DEF IsQuorum
<1>11. /\ shares[p][j] \in Nat /\ Cardinality(Owes(p, j)) \in Nat
       /\ Cardinality(Up) \in Nat /\ Cardinality(Party \ Up) \in Nat
  <2>1. Owes(p, j) \in SUBSET Party
    BY <1>7
  <2>2. shares[p][j] \in Nat
    BY <1>1, <1>3 DEF IInv, TypeOK
  <2> QED
    BY <1>1, <2>1, <2>2, PartyCount
<1> QED
  BY <1>3, <1>4, <1>5, <1>8, <1>9, <1>10, <1>11, PartyNumber, PartyAssumption

(***************************************************************************)
(* What CallsEnd rests on: where at most F+1 parties lack each proposal,   *)
(* CallHelp does not hang.                                                 *)
(***************************************************************************)
THEOREM CallsAliveAlways == IsQuorum(Up) /\ Spec => [](FewLack => CallsAlive)
<1>1. IsQuorum(Up) /\ IInv /\ AliveInv => (FewLack => CallsAlive)
  BY NobodyCalls DEF CallsAlive
<1>2. IsQuorum(Up) /\ [Next]_vars => IsQuorum(Up)'
  BY DEF IsQuorum
<1> QED
  BY <1>1, <1>2, Inductive, AliveInductive, PTL DEF Spec
=============================================================================
