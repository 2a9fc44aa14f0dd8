--------------------- MODULE CheckpointRecoveryProofs ---------------------
(* The recovery from a catastrophic rollback, proved for every number of       *)
(* managers and every bound: types, that the managers restore one sequence of  *)
(* checkpoints that all of them have made, and that a slave purges only what   *)
(* is older than the incarnation it enters.  For two managers, also that no    *)
(* old event is left after a recovery.                                         *)
EXTENDS CheckpointRecovery, FiniteSetTheorems, TLAPS

(***************************************************************************)
(* The inductive invariant.  Done recoveries have been ended by the master, *)
(* and its incarnation is ahead of that by the recovery under way.  A slave *)
(* is at Done, running or still waiting for THIRD_CYCLE, or has entered the  *)
(* recovery under way.  Every token says how far that recovery has come.    *)
(***************************************************************************)

Done == Len(restored[0])

MessageType ==
    [type : {"event"}, incarnation : Nat] \cup
    [type : {"restore"}, token : Token, checkpoint : 0 .. MaxCheckpoint, incarnation : Nat]

Channels == [Link -> Seq(MessageType)]

\* The messages on a link, and which of them carry a token.
On(ch, l) == {ch[l][i] : i \in 1 .. Len(ch[l])}
IsEvent(x) == x.type = "event"
Carries(x, token) == x.type = "restore" /\ x.token = token
IsCycle(x) == Carries(x, "first") \/ Carries(x, "second")

Types ==
    /\ channel \in Channels
    /\ inRecovery \in [Manager -> BOOLEAN]
    /\ recovering \in [Manager -> BOOLEAN]
    /\ incarnation \in [Manager -> Nat]
    /\ last \in [Manager -> 0 .. MaxCheckpoint]
    /\ events \in [Manager -> SUBSET Nat]
    /\ restored \in [Manager -> Seq(0 .. MaxCheckpoint)]
    /\ faults \in 0 .. MaxFaults
    /\ sent \in 0 .. MaxEvents

Stopped == \A m \in Manager : recovering[m] => inRecovery[m]

\* The master is one incarnation ahead in a recovery, two if it started it twice.
MasterInv ==
    \/ ~recovering[0] /\ incarnation[0] = Done
    \/ recovering[0] /\ incarnation[0] \in {Done + 1, Done + 2}

\* A slave enters an incarnation with FIRST_CYCLE, counts its restore with
\* THIRD_CYCLE, and has entered no recovery that the master is not in.
SlaveInv ==
    \A m \in Slave :
        /\ recovering[m] => incarnation[m] = Len(restored[m]) + 1
        /\ ~recovering[m] => incarnation[m] = Len(restored[m])
        /\ Len(restored[m]) <= Done
        /\ incarnation[m] >= Done
        /\ ~recovering[0] => incarnation[m] = Done

\* The master's restores are the ones of the slaves.
PrefixInv ==
    \A m \in Manager : \A i \in 1 .. Len(restored[m]) : restored[m][i] = restored[0][i]

\* Events of the recovery under way do not exist yet.
EventInv ==
    /\ \A l \in Link : \A x \in On(channel, l) : IsEvent(x) => x.incarnation <= Done
    /\ \A m \in Manager : \A i \in events[m] : i <= Done

Entered(m) == incarnation[m] = Done + 1

FirstInv ==
    \A l \in Link : \A x \in On(channel, l) : Carries(x, "first") =>
        /\ recovering[0]
        /\ l[2] = Peer(l[1])
        /\ x.incarnation \in Done + 1 .. incarnation[0]
        /\ l[1] # 0 => x.incarnation = Done + 1
        /\ \A s \in 1 .. l[1] : Entered(s)

SecondInv ==
    \A l \in Link : \A x \in On(channel, l) : Carries(x, "second") =>
        /\ recovering[0]
        /\ l[2] = Peer(l[1])
        /\ x.incarnation = incarnation[0]
        /\ \A s \in Manager : Entered(s)
        /\ \A s \in 0 .. l[1] : x.checkpoint <= last[s]

ThirdInv ==
    \A l \in Link : \A x \in On(channel, l) : Carries(x, "third") =>
        /\ l[1] = 0
        /\ Done > 0
        /\ x.incarnation = Done
        /\ incarnation[l[2]] = Done
        /\ recovering[l[2]]
        /\ x.checkpoint = restored[0][Done]
        /\ x.checkpoint <= last[l[2]]

\* There is one token of a cycle, unless the master has started twice.
CycleAt(ch, l) == {i \in 1 .. Len(ch[l]) : IsCycle(ch[l][i])}

OneCycle(ch) ==
    /\ \A l \in Link : \A i, j \in CycleAt(ch, l) : i = j
    /\ \A l, k \in Link : CycleAt(ch, l) # {} /\ CycleAt(ch, k) # {} => l = k

OneCycleInv == incarnation[0] = Done + 1 => OneCycle(channel)

\* A slave has at most one THIRD_CYCLE to receive.
ThirdAt(ch, l) == {i \in 1 .. Len(ch[l]) : Carries(ch[l][i], "third")}

OneThird(ch) == \A l \in Link : \A i, j \in ThirdAt(ch, l) : i = j

OneThirdInv == OneThird(channel)

\* Every incarnation, entered or asked for, is due to a fault, two at most to one.
Asked(ch) ==
    {a \in Link \X Nat : a[2] \in 1 .. Len(ch[a[1]]) /\ Carries(ch[a[1]][a[2]], "toMaster")}

AskedInv ==
    /\ IsFiniteSet(Asked(channel))
    /\ incarnation[0] + Cardinality(Asked(channel)) <= 2 * faults
    /\ \A l \in Link : \A x \in On(channel, l) :
           Carries(x, "toMaster") => x.incarnation <= incarnation[0]

RecoveryInv ==
    /\ Types /\ Stopped
    /\ MasterInv /\ SlaveInv /\ PrefixInv /\ EventInv
    /\ FirstInv /\ SecondInv /\ ThirdInv
    /\ OneCycleInv /\ OneThirdInv /\ AskedInv

-----------------------------------------------------------------------------
(* Messages and managers *)

LEMMA Numbers == N \in Nat /\ N >= 2 /\ MaxCheckpoint \in Nat /\ MaxFaults \in Nat /\ MaxEvents \in Nat
BY RecoveryAssumption

LEMMA LinkEnds ==
    /\ \A l \in Link : l[1] \in Manager /\ l[2] \in Manager /\ l[1] # l[2] /\ l = <<l[1], l[2]>>
    /\ \A p, q \in Manager : p # q => <<p, q>> \in Link
BY DEF Link

LEMMA PeerOf ==
    /\ \A m \in Manager : Peer(m) \in Manager /\ Peer(m) # m /\ <<m, Peer(m)>> \in Link
    /\ \A m \in Manager : Peer(m) # 0 => Peer(m) = m + 1
    /\ \A m \in Manager : Peer(m) = 0 => m = N - 1
BY RecoveryAssumption, LinkEnds DEF Peer, Manager

LEMMA MessageParts ==
    ASSUME NEW x \in MessageType
    PROVE  /\ x.incarnation \in Nat
           /\ IsEvent(x) \/ x.type = "restore"
           /\ x.type = "restore" => x.token \in Token /\ x.checkpoint \in 0 .. MaxCheckpoint
           /\ ~(IsEvent(x) /\ x.type = "restore")
BY DEF MessageType, IsEvent

LEMMA EventMessageIs ==
    ASSUME NEW i \in Nat
    PROVE  /\ EventMessage(i) \in MessageType
           /\ IsEvent(EventMessage(i))
           /\ EventMessage(i).incarnation = i
           /\ \A t : ~Carries(EventMessage(i), t)
           /\ ~IsCycle(EventMessage(i))
BY DEF EventMessage, MessageType, IsEvent, Carries, IsCycle

LEMMA RestoreCkptIs ==
    ASSUME NEW t \in Token, NEW c \in 0 .. MaxCheckpoint, NEW i \in Nat
    PROVE  /\ RestoreCkpt(t, c, i) \in MessageType
           /\ ~IsEvent(RestoreCkpt(t, c, i))
           /\ RestoreCkpt(t, c, i).incarnation = i
           /\ RestoreCkpt(t, c, i).checkpoint = c
           /\ \A u : Carries(RestoreCkpt(t, c, i), u) <=> u = t
           /\ IsCycle(RestoreCkpt(t, c, i)) <=> t \in {"first", "second"}
<1> DEFINE x == RestoreCkpt(t, c, i)
<1>1. x.type = "restore" /\ x.token = t /\ x.checkpoint = c /\ x.incarnation = i
  BY DEF RestoreCkpt
<1>2. x \in [type : {"restore"}, token : Token, checkpoint : 0 .. MaxCheckpoint, incarnation : Nat]
  BY DEF RestoreCkpt
<1> QED BY <1>1, <1>2 DEF MessageType, IsEvent, Carries, IsCycle

-----------------------------------------------------------------------------
(* Channels from which messages are taken *)

\* c is ch without the first few messages of each link.
ShorterBy(c, ch, k) ==
    \A l \in Link :
        /\ Len(c[l]) + k[l] = Len(ch[l])
        /\ \A i \in 1 .. Len(c[l]) : c[l][i] = ch[l][i + k[l]]

Shorter(c, ch) == c \in Channels /\ \E k \in [Link -> Nat] : ShorterBy(c, ch, k)

LEMMA ShorterSelf ==
    ASSUME NEW ch \in Channels
    PROVE  Shorter(ch, ch)
<1> DEFINE k == [l \in Link |-> 0]
<1>1. k \in [Link -> Nat]  OBVIOUS
<1>2. ASSUME NEW l \in Link
      PROVE  /\ Len(ch[l]) + k[l] = Len(ch[l])
             /\ \A i \in 1 .. Len(ch[l]) : ch[l][i] = ch[l][i + k[l]]
  <2>1. Len(ch[l]) \in Nat  BY DEF Channels
  <2> QED BY <2>1
<1> QED BY <1>1, <1>2 DEF Shorter, ShorterBy

LEMMA ShorterTrans ==
    ASSUME NEW ch \in Channels, NEW c, NEW b, Shorter(c, ch), Shorter(b, c)
    PROVE  Shorter(b, ch)
<1>1. PICK k \in [Link -> Nat] : ShorterBy(c, ch, k)  BY DEF Shorter
<1>2. PICK j \in [Link -> Nat] : ShorterBy(b, c, j)  BY DEF Shorter
<1>3. b \in Channels /\ c \in Channels  BY DEF Shorter
<1> DEFINE n == [l \in Link |-> k[l] + j[l]]
<1>4. n \in [Link -> Nat]  BY <1>1, <1>2
<1>5. ASSUME NEW l \in Link
      PROVE  /\ Len(b[l]) + n[l] = Len(ch[l])
             /\ \A i \in 1 .. Len(b[l]) : b[l][i] = ch[l][i + n[l]]
  <2>1. /\ Len(b[l]) \in Nat /\ Len(c[l]) \in Nat /\ Len(ch[l]) \in Nat
        /\ k[l] \in Nat /\ j[l] \in Nat /\ n[l] = k[l] + j[l]
    BY <1>1, <1>2, <1>3 DEF Channels
  <2>2. Len(c[l]) + k[l] = Len(ch[l]) /\ Len(b[l]) + j[l] = Len(c[l])
    BY <1>1, <1>2 DEF ShorterBy
  <2>3. ASSUME NEW i \in 1 .. Len(b[l])
        PROVE  b[l][i] = ch[l][i + n[l]]
    <3>1. b[l][i] = c[l][i + j[l]]  BY <1>2 DEF ShorterBy
    <3>2. i + j[l] \in 1 .. Len(c[l])  BY <2>1, <2>2
    <3>3. c[l][i + j[l]] = ch[l][(i + j[l]) + k[l]]  BY <1>1, <3>2 DEF ShorterBy
    <3>4. (i + j[l]) + k[l] = i + n[l]  BY <2>1
    <3> QED BY <3>1, <3>3, <3>4
  <2> QED BY <2>1, <2>2, <2>3
<1>6. ShorterBy(b, ch, n)  BY <1>5 DEF ShorterBy
<1> QED BY <1>3, <1>4, <1>6 DEF Shorter

LEMMA TakenShorterBy ==
    ASSUME channel \in Channels, NEW m \in Manager, NEW p \in Manager, p # m, Arrives(m, p)
    PROVE  /\ Taken(m, p) \in Channels
           /\ ShorterBy(Taken(m, p), channel, [l \in Link |-> IF l = <<p, m>> THEN 1 ELSE 0])
           /\ Message(m, p) = channel[<<p, m>>][1]
           /\ 1 \in 1 .. Len(channel[<<p, m>>])
           /\ Message(m, p) \in MessageType
           /\ Message(m, p) \in On(channel, <<p, m>>)
<1> DEFINE c == Taken(m, p)
           k == [l \in Link |-> IF l = <<p, m>> THEN 1 ELSE 0]
           a == <<p, m>>
<1>1. a \in Link  BY LinkEnds
<1>2. channel[a] \in Seq(MessageType) /\ channel[a] # <<>>  BY <1>1 DEF Channels, Arrives
<1>3. /\ Tail(channel[a]) \in Seq(MessageType)
      /\ Len(Tail(channel[a])) = Len(channel[a]) - 1
      /\ \A i \in 1 .. Len(Tail(channel[a])) : Tail(channel[a])[i] = channel[a][i + 1]
      /\ Head(channel[a]) = channel[a][1]
      /\ Len(channel[a]) \in Nat /\ Len(channel[a]) >= 1
  BY <1>2
<1>4. c \in Channels
  BY <1>1, <1>3 DEF Channels, Taken
<1>5. ASSUME NEW l \in Link
      PROVE  /\ Len(c[l]) + k[l] = Len(channel[l])
             /\ \A i \in 1 .. Len(c[l]) : c[l][i] = channel[l][i + k[l]]
  <2>1. CASE l = a
    BY <1>1, <1>3, <2>1 DEF Channels, Taken
  <2>2. CASE l # a
    <3>1. c[l] = channel[l] /\ k[l] = 0  BY <2>2 DEF Channels, Taken
    <3>2. Len(channel[l]) \in Nat  BY DEF Channels
    <3> HIDE DEF c, k
    <3> QED BY <3>1, <3>2
  <2> QED BY <2>1, <2>2
<1>6. Message(m, p) = channel[a][1] /\ 1 \in 1 .. Len(channel[a])  BY <1>3 DEF Message
<1>7. Message(m, p) \in MessageType  BY <1>2, <1>6
<1> QED BY <1>4, <1>5, <1>6, <1>7 DEF ShorterBy, On

LEMMA TakenShorter ==
    ASSUME channel \in Channels, NEW m \in Manager, NEW p \in Manager, p # m, Arrives(m, p)
    PROVE  Shorter(Taken(m, p), channel)
<1>1. [l \in Link |-> IF l = <<p, m>> THEN 1 ELSE 0] \in [Link -> Nat]  OBVIOUS
<1> QED BY <1>1, TakenShorterBy DEF Shorter

LEMMA LeftShorter ==
    ASSUME NEW ch \in Channels, NEW m \in Manager, NEW i, NEW d \in Drains(ch, m, i)
    PROVE  Shorter(Left(ch, m, d), ch)
<1> DEFINE c == Left(ch, m, d)
           k == [l \in Link |-> IF l[2] = m THEN d[l[1]] ELSE 0]
<1>1. ASSUME NEW p \in Others(m)
      PROVE  d[p] \in Nat /\ d[p] <= Len(ch[<<p, m>>])
  <2> DEFINE b == Max({Len(ch[<<q, m>>]) : q \in Others(m)})
  <2>1. d \in [Others(m) -> 0 .. b] /\ d[p] <= Len(ch[<<p, m>>])  BY DEF Drains
  <2> HIDE DEF b
  <2> QED BY <2>1
<1>2. ASSUME NEW l \in Link
      PROVE  /\ c[l] \in Seq(MessageType)
             /\ k[l] \in Nat
             /\ Len(c[l]) + k[l] = Len(ch[l])
             /\ \A j \in 1 .. Len(c[l]) : c[l][j] = ch[l][j + k[l]]
  <2>1. ch[l] \in Seq(MessageType) /\ Len(ch[l]) \in Nat  BY DEF Channels
  <2>2. CASE l[2] = m
    <3> DEFINE n == d[l[1]]
    <3>1. l[1] \in Others(m) /\ l = <<l[1], m>>  BY <2>2, LinkEnds DEF Others
    <3>2. n \in Nat /\ n <= Len(ch[l])  BY <1>1, <3>1
    <3>3. c[l] = SubSeq(ch[l], n + 1, Len(ch[l])) /\ k[l] = n  BY <2>2 DEF Left
    <3> HIDE DEF n, c, k
    <3>4. /\ SubSeq(ch[l], n + 1, Len(ch[l])) \in Seq(MessageType)
          /\ Len(SubSeq(ch[l], n + 1, Len(ch[l]))) = Len(ch[l]) - n
          /\ \A j \in 1 .. Len(ch[l]) - n : SubSeq(ch[l], n + 1, Len(ch[l]))[j] = ch[l][j + n]
      BY <2>1, <3>2
    <3> QED BY <2>1, <3>2, <3>3, <3>4
  <2>3. CASE l[2] # m
    <3>1. c[l] = ch[l] /\ k[l] = 0  BY <2>3 DEF Left
    <3> QED BY <2>1, <3>1
  <2> QED BY <2>2, <2>3
<1>3. c \in Channels  BY <1>2 DEF Channels, Left
<1>4. k \in [Link -> Nat]  BY <1>2
<1>5. ShorterBy(c, ch, k)  BY <1>2 DEF ShorterBy
<1> QED BY <1>3, <1>4, <1>5 DEF Shorter
-----------------------------------------------------------------------------
(* What a shorter channel keeps *)

LEMMA ShorterOn ==
    ASSUME NEW ch \in Channels, NEW c, Shorter(c, ch), NEW l \in Link
    PROVE  On(c, l) \subseteq On(ch, l)
<1>1. PICK k \in [Link -> Nat] : ShorterBy(c, ch, k)  BY DEF Shorter
<1>2. /\ Len(c[l]) \in Nat /\ Len(ch[l]) \in Nat /\ k[l] \in Nat
      /\ Len(c[l]) + k[l] = Len(ch[l])
  BY <1>1 DEF Shorter, ShorterBy, Channels
<1>3. ASSUME NEW i \in 1 .. Len(c[l])
      PROVE  i + k[l] \in 1 .. Len(ch[l]) /\ c[l][i] = ch[l][i + k[l]]
  BY <1>1, <1>2 DEF ShorterBy
<1> QED BY <1>3 DEF On

LEMMA OnTyped ==
    ASSUME NEW ch \in Channels, NEW l \in Link
    PROVE  On(ch, l) \subseteq MessageType
BY DEF Channels, On

LEMMA ShorterPlaces ==
    ASSUME NEW ch \in Channels, NEW c \in Channels, NEW k \in [Link -> Nat], ShorterBy(c, ch, k),
           NEW l \in Link, NEW i \in 1 .. Len(c[l])
    PROVE  i + k[l] \in 1 .. Len(ch[l]) /\ c[l][i] = ch[l][i + k[l]] /\ i \in Nat /\ k[l] \in Nat
BY DEF ShorterBy, Channels

LEMMA ShorterOneCycle ==
    ASSUME NEW ch \in Channels, NEW c, Shorter(c, ch), OneCycle(ch)
    PROVE  OneCycle(c)
<1>1. PICK k \in [Link -> Nat] : ShorterBy(c, ch, k)  BY DEF Shorter
<1>2. c \in Channels  BY DEF Shorter
<1>3. ASSUME NEW l \in Link, NEW i \in CycleAt(c, l)
      PROVE  i + k[l] \in CycleAt(ch, l) /\ i \in Nat /\ k[l] \in Nat
  <2>1. i \in 1 .. Len(c[l]) /\ IsCycle(c[l][i])  BY DEF CycleAt
  <2>2. i + k[l] \in 1 .. Len(ch[l]) /\ c[l][i] = ch[l][i + k[l]] /\ i \in Nat /\ k[l] \in Nat
    BY <1>1, <1>2, <2>1, ShorterPlaces
  <2> QED BY <2>1, <2>2 DEF CycleAt
<1>4. ASSUME NEW l \in Link, NEW i \in CycleAt(c, l), NEW j \in CycleAt(c, l)
      PROVE  i = j
  <2>1. i + k[l] = j + k[l]  BY <1>3 DEF OneCycle
  <2> QED BY <1>3, <2>1
<1>5. ASSUME NEW l \in Link, NEW m \in Link, CycleAt(c, l) # {}, CycleAt(c, m) # {}
      PROVE  l = m
  <2>1. CycleAt(ch, l) # {} /\ CycleAt(ch, m) # {}  BY <1>3, <1>5
  <2> QED BY <2>1 DEF OneCycle
<1> QED BY <1>4, <1>5 DEF OneCycle

LEMMA ShorterOneThird ==
    ASSUME NEW ch \in Channels, NEW c, Shorter(c, ch), OneThird(ch)
    PROVE  OneThird(c)
<1>1. PICK k \in [Link -> Nat] : ShorterBy(c, ch, k)  BY DEF Shorter
<1>2. c \in Channels  BY DEF Shorter
<1>3. ASSUME NEW l \in Link, NEW i \in ThirdAt(c, l)
      PROVE  i + k[l] \in ThirdAt(ch, l) /\ i \in Nat /\ k[l] \in Nat
  <2>1. i \in 1 .. Len(c[l]) /\ Carries(c[l][i], "third")  BY DEF ThirdAt
  <2>2. i + k[l] \in 1 .. Len(ch[l]) /\ c[l][i] = ch[l][i + k[l]] /\ i \in Nat /\ k[l] \in Nat
    BY <1>1, <1>2, <2>1, ShorterPlaces
  <2> QED BY <2>1, <2>2 DEF ThirdAt
<1>4. ASSUME NEW l \in Link, NEW i \in ThirdAt(c, l), NEW j \in ThirdAt(c, l)
      PROVE  i = j
  <2>1. i + k[l] = j + k[l]  BY <1>3 DEF OneThird
  <2> QED BY <1>3, <2>1
<1> QED BY <1>4 DEF OneThird

\* The token of a cycle is taken: none is left.
CycleFree(ch) == \A l \in Link : \A x \in On(ch, l) : ~IsCycle(x)

LEMMA TakenCycle ==
    ASSUME channel \in Channels, NEW m \in Manager, NEW p \in Manager, p # m, Arrives(m, p),
           OneCycle(channel), IsCycle(Message(m, p))
    PROVE  CycleFree(Taken(m, p))
<1> DEFINE a == <<p, m>>
           c == Taken(m, p)
           k == [l \in Link |-> IF l = <<p, m>> THEN 1 ELSE 0]
<1>1. k \in [Link -> Nat] /\ a \in Link  BY LinkEnds
<1>2. /\ c \in Channels /\ ShorterBy(c, channel, k)
      /\ 1 \in CycleAt(channel, a)
  BY TakenShorterBy DEF CycleAt
<1>3. ASSUME NEW l \in Link, NEW i \in 1 .. Len(c[l]), IsCycle(c[l][i])
      PROVE  FALSE
  <2> HIDE DEF c, k
  <2>1. i + k[l] \in CycleAt(channel, l) /\ i \in 1 .. Len(c[l])
    BY <1>1, <1>2, <1>3, ShorterPlaces DEF CycleAt
  <2>2. l = a  BY <1>1, <1>2, <2>1 DEF OneCycle
  <2>3. i + k[a] = 1  BY <1>1, <1>2, <2>1, <2>2 DEF OneCycle
  <2>4. k[a] = 1  BY <1>1 DEF k
  <2>5. Len(c[l]) \in Nat  BY <1>2 DEF Channels
  <2> QED BY <2>1, <2>3, <2>4, <2>5
<1> QED BY <1>3 DEF CycleFree, On

\* The THIRD_CYCLE is taken: none is left on its link.
LEMMA TakenThird ==
    ASSUME channel \in Channels, NEW m \in Manager, NEW p \in Manager, p # m, Arrives(m, p),
           OneThird(channel), Carries(Message(m, p), "third")
    PROVE  \A x \in On(Taken(m, p), <<p, m>>) : ~Carries(x, "third")
<1> DEFINE a == <<p, m>>
           c == Taken(m, p)
           k == [l \in Link |-> IF l = <<p, m>> THEN 1 ELSE 0]
<1>1. k \in [Link -> Nat] /\ a \in Link  BY LinkEnds
<1>2. /\ c \in Channels /\ ShorterBy(c, channel, k)
      /\ 1 \in ThirdAt(channel, a)
  BY TakenShorterBy DEF ThirdAt
<1>3. ASSUME NEW i \in 1 .. Len(c[a]), Carries(c[a][i], "third")
      PROVE  FALSE
  <2> HIDE DEF c, k
  <2>1. i + k[a] \in ThirdAt(channel, a)
    BY <1>1, <1>2, <1>3, ShorterPlaces DEF ThirdAt
  <2>2. i + k[a] = 1  BY <1>1, <1>2, <2>1 DEF OneThird
  <2>3. k[a] = 1  BY <1>1 DEF k
  <2>4. Len(c[a]) \in Nat  BY <1>1, <1>2 DEF Channels
  <2> QED BY <2>2, <2>3, <2>4
<1> QED BY <1>3 DEF On

-----------------------------------------------------------------------------
(* How many SEND_TO_MASTER there are *)

LEMMA AskedMoved ==
    ASSUME NEW c, NEW k \in [Link -> Nat], NEW S, IsFiniteSet(S),
           \A a \in Asked(c) : <<a[1], a[2] + k[a[1]]>> \in S
    PROVE  IsFiniteSet(Asked(c)) /\ Cardinality(Asked(c)) <= Cardinality(S)
<1> DEFINE f == [a \in Asked(c) |-> <<a[1], a[2] + k[a[1]]>>]
<1>1. f \in [Asked(c) -> S]  OBVIOUS
<1>2. ASSUME NEW a \in Asked(c), NEW b \in Asked(c), f[a] = f[b]
      PROVE  a = b
  <2>1. /\ a \in Link \X Nat /\ b \in Link \X Nat
        /\ a = <<a[1], a[2]>> /\ b = <<b[1], b[2]>>
    BY DEF Asked
  <2>2. a[1] = b[1] /\ a[2] + k[a[1]] = b[2] + k[b[1]]  BY <1>2
  <2>3. a[1] \in Link /\ k[a[1]] \in Nat /\ a[2] \in Nat /\ b[2] \in Nat  BY <2>1
  <2>4. a[2] = b[2]  BY <2>2, <2>3
  <2> QED BY <2>1, <2>2, <2>4
<1>3. f \in Injection(Asked(c), S)  BY <1>1, <1>2 DEF Injection, IsInjective
<1> QED BY <1>3, FS_Injection

LEMMA ShorterAskedPlaces ==
    ASSUME NEW ch \in Channels, NEW c \in Channels, NEW k \in [Link -> Nat], ShorterBy(c, ch, k),
           NEW a \in Asked(c)
    PROVE  <<a[1], a[2] + k[a[1]]>> \in Asked(ch)
<1>1. a[1] \in Link /\ a[2] \in 1 .. Len(c[a[1]]) /\ Carries(c[a[1]][a[2]], "toMaster")
  BY DEF Asked
<1>2. \A l \in Link : \A i \in 1 .. Len(c[l]) :
          i + k[l] \in 1 .. Len(ch[l]) /\ c[l][i] = ch[l][i + k[l]] /\ i \in Nat /\ k[l] \in Nat
  BY ShorterPlaces
<1> QED BY <1>1, <1>2 DEF Asked

LEMMA ShorterAsked ==
    ASSUME NEW ch \in Channels, NEW c, Shorter(c, ch), IsFiniteSet(Asked(ch))
    PROVE  IsFiniteSet(Asked(c)) /\ Cardinality(Asked(c)) <= Cardinality(Asked(ch))
<1>1. PICK k \in [Link -> Nat] : ShorterBy(c, ch, k)  BY DEF Shorter
<1>2. c \in Channels  BY DEF Shorter
<1>3. \A a \in Asked(c) : <<a[1], a[2] + k[a[1]]>> \in Asked(ch)
  BY <1>1, <1>2, ShorterAskedPlaces
<1> QED BY <1>3, AskedMoved

LEMMA TakenAsked ==
    ASSUME channel \in Channels, NEW m \in Manager, NEW p \in Manager, p # m, Arrives(m, p),
           IsFiniteSet(Asked(channel)), Carries(Message(m, p), "toMaster")
    PROVE  /\ IsFiniteSet(Asked(Taken(m, p)))
           /\ Cardinality(Asked(Taken(m, p))) + 1 <= Cardinality(Asked(channel))
<1> DEFINE c == Taken(m, p)
           k == [l \in Link |-> IF l = <<p, m>> THEN 1 ELSE 0]
           one == <<<<p, m>>, 1>>
           S == Asked(channel) \ {one}
<1>1. k \in [Link -> Nat] /\ <<p, m>> \in Link  BY LinkEnds
<1>2. c \in Channels /\ ShorterBy(c, channel, k)  BY TakenShorterBy
<1>3. one \in Asked(channel)
  BY <1>1, TakenShorterBy DEF Asked
<1>4. IsFiniteSet(S) /\ Cardinality(S) = Cardinality(Asked(channel)) - 1
  BY <1>3, FS_RemoveElement
<1>5. ASSUME NEW a \in Asked(c)
      PROVE  <<a[1], a[2] + k[a[1]]>> \in S
  <2>1. <<a[1], a[2] + k[a[1]]>> \in Asked(channel)
    <3> HIDE DEF c, k
    <3> QED BY <1>1, <1>2, ShorterAskedPlaces
  <2>2. a[1] \in Link /\ a[2] \in Nat /\ a[2] >= 1
    <3>1. a \in Link \X Nat /\ a[2] \in 1 .. Len(c[a[1]])  BY DEF Asked
    <3> QED BY <3>1
  <2>3. a[1] = <<p, m>> => a[2] + k[a[1]] # 1  BY <1>1, <2>2
  <2> QED BY <2>1, <2>3
<1>6. IsFiniteSet(Asked(c)) /\ Cardinality(Asked(c)) <= Cardinality(S)
  <2> HIDE DEF c, k, S
  <2> QED BY <1>1, <1>4, <1>5, AskedMoved
<1>7. Cardinality(Asked(c)) \in Nat /\ Cardinality(Asked(channel)) \in Nat
  BY <1>6, FS_CardinalityType
<1> QED BY <1>4, <1>6, <1>7
-----------------------------------------------------------------------------
(* Channels to which a message is appended *)

AppendTo(ch, L, x) == [l \in Link |-> IF l \in L THEN Append(ch[l], x) ELSE ch[l]]

LEMMA SentIs ==
    ASSUME NEW ch \in Channels, NEW m \in Manager, NEW d \in Manager, m # d, NEW x
    PROVE  Sent(ch, m, d, x) = AppendTo(ch, {<<m, d>>}, x) /\ {<<m, d>>} \in SUBSET Link
BY LinkEnds DEF Sent, AppendTo, Channels

LEMMA AppendTyped ==
    ASSUME NEW ch \in Channels, NEW L \in SUBSET Link, NEW x \in MessageType
    PROVE  AppendTo(ch, L, x) \in Channels
BY DEF AppendTo, Channels

LEMMA AppendPlaces ==
    ASSUME NEW ch \in Channels, NEW L \in SUBSET Link, NEW x \in MessageType, NEW l \in Link
    PROVE  /\ Len(ch[l]) \in Nat
           /\ Len(AppendTo(ch, L, x)[l]) = IF l \in L THEN Len(ch[l]) + 1 ELSE Len(ch[l])
           /\ \A i \in 1 .. Len(ch[l]) : AppendTo(ch, L, x)[l][i] = ch[l][i]
           /\ l \in L => AppendTo(ch, L, x)[l][Len(ch[l]) + 1] = x
<1>1. ch[l] \in Seq(MessageType)  BY DEF Channels
<1>2. /\ Len(Append(ch[l], x)) = Len(ch[l]) + 1
      /\ \A i \in 1 .. Len(ch[l]) : Append(ch[l], x)[i] = ch[l][i]
      /\ Append(ch[l], x)[Len(ch[l]) + 1] = x
      /\ Len(ch[l]) \in Nat
  BY <1>1
<1>3. AppendTo(ch, L, x)[l] = IF l \in L THEN Append(ch[l], x) ELSE ch[l]  BY DEF AppendTo
<1> QED BY <1>2, <1>3

LEMMA AppendOn ==
    ASSUME NEW ch \in Channels, NEW L \in SUBSET Link, NEW x \in MessageType, NEW l \in Link,
           NEW y \in On(AppendTo(ch, L, x), l)
    PROVE  y \in On(ch, l) \/ (l \in L /\ y = x)
<1> DEFINE c == AppendTo(ch, L, x)
<1>1. PICK i \in 1 .. Len(c[l]) : y = c[l][i]  BY DEF On
<1> HIDE DEF c
<1>2. /\ Len(ch[l]) \in Nat
      /\ Len(c[l]) = IF l \in L THEN Len(ch[l]) + 1 ELSE Len(ch[l])
      /\ \A j \in 1 .. Len(ch[l]) : c[l][j] = ch[l][j]
      /\ l \in L => c[l][Len(ch[l]) + 1] = x
  BY AppendPlaces DEF c
<1>3. i \in 1 .. Len(ch[l]) \/ (l \in L /\ i = Len(ch[l]) + 1)  BY <1>2
<1> QED BY <1>1, <1>2, <1>3 DEF On

\* Where the messages with a property are that the new one does not have.
LEMMA AppendOldPlaces ==
    ASSUME NEW ch \in Channels, NEW L \in SUBSET Link, NEW x \in MessageType, NEW l \in Link,
           NEW i \in 1 .. Len(AppendTo(ch, L, x)[l])
    PROVE  \/ i \in 1 .. Len(ch[l]) /\ AppendTo(ch, L, x)[l][i] = ch[l][i]
           \/ l \in L /\ i = Len(ch[l]) + 1 /\ AppendTo(ch, L, x)[l][i] = x
<1> DEFINE c == AppendTo(ch, L, x)
<1>2. /\ Len(ch[l]) \in Nat
      /\ Len(c[l]) = IF l \in L THEN Len(ch[l]) + 1 ELSE Len(ch[l])
      /\ \A j \in 1 .. Len(ch[l]) : c[l][j] = ch[l][j]
      /\ l \in L => c[l][Len(ch[l]) + 1] = x
  BY AppendPlaces
<1> HIDE DEF c
<1>3. i \in 1 .. Len(c[l]) => i \in 1 .. Len(ch[l]) \/ (l \in L /\ i = Len(ch[l]) + 1)
  BY <1>2
<1> QED BY <1>2, <1>3 DEF c

LEMMA AppendOneCycle ==
    ASSUME NEW ch \in Channels, NEW L \in SUBSET Link, NEW x \in MessageType, OneCycle(ch),
           ~IsCycle(x)
    PROVE  OneCycle(AppendTo(ch, L, x))
<1> DEFINE c == AppendTo(ch, L, x)
<1>1. ASSUME NEW l \in Link
      PROVE  CycleAt(c, l) \subseteq CycleAt(ch, l)
  BY AppendOldPlaces DEF CycleAt
<1> QED BY <1>1 DEF OneCycle

LEMMA AppendNewCycle ==
    ASSUME NEW ch \in Channels, NEW k \in Link, NEW x \in MessageType, CycleFree(ch)
    PROVE  OneCycle(AppendTo(ch, {k}, x))
<1> DEFINE c == AppendTo(ch, {k}, x)
<1>1. ASSUME NEW l \in Link, NEW i \in CycleAt(c, l)
      PROVE  l = k /\ i = Len(ch[k]) + 1
  <2>1. i \in 1 .. Len(c[l]) /\ IsCycle(c[l][i])  BY DEF CycleAt
  <2>2. ~(i \in 1 .. Len(ch[l]) /\ c[l][i] = ch[l][i])  BY <2>1 DEF CycleFree, On
  <2> QED BY <2>1, <2>2, AppendOldPlaces
<1> QED BY <1>1 DEF OneCycle

LEMMA AppendOneThird ==
    ASSUME NEW ch \in Channels, NEW L \in SUBSET Link, NEW x \in MessageType, OneThird(ch),
           \/ ~Carries(x, "third")
           \/ \A l \in L : \A y \in On(ch, l) : ~Carries(y, "third")
    PROVE  OneThird(AppendTo(ch, L, x))
<1> DEFINE c == AppendTo(ch, L, x)
<1>1. ASSUME NEW l \in Link, NEW i \in ThirdAt(c, l)
      PROVE  i \in ThirdAt(ch, l) \/ (l \in L /\ Carries(x, "third") /\ i = Len(ch[l]) + 1)
  <2>1. i \in 1 .. Len(c[l]) /\ Carries(c[l][i], "third")  BY DEF ThirdAt
  <2> QED BY <2>1, AppendOldPlaces DEF ThirdAt
<1>2. ASSUME NEW l \in L, Carries(x, "third")
      PROVE  ThirdAt(ch, l) = {}
  BY <1>2 DEF ThirdAt, On
<1> QED BY <1>1, <1>2 DEF OneThird

LEMMA AppendAsked ==
    ASSUME NEW ch \in Channels, NEW L \in SUBSET Link, NEW x \in MessageType,
           IsFiniteSet(Asked(ch)), ~Carries(x, "toMaster")
    PROVE  /\ IsFiniteSet(Asked(AppendTo(ch, L, x)))
           /\ Cardinality(Asked(AppendTo(ch, L, x))) <= Cardinality(Asked(ch))
<1> DEFINE c == AppendTo(ch, L, x)
<1>1. Asked(c) \subseteq Asked(ch)
  <2> SUFFICES ASSUME NEW a \in Asked(c)  PROVE a \in Asked(ch)
    OBVIOUS
  <2>1. a[1] \in Link /\ a[2] \in 1 .. Len(c[a[1]]) /\ Carries(c[a[1]][a[2]], "toMaster")
    BY DEF Asked
  <2>2. a[2] \in 1 .. Len(ch[a[1]]) /\ c[a[1]][a[2]] = ch[a[1]][a[2]]
    BY <2>1, AppendOldPlaces
  <2> QED BY <2>1, <2>2 DEF Asked
<1> QED BY <1>1, FS_Subset

LEMMA AppendNewAsked ==
    ASSUME NEW ch \in Channels, NEW k \in Link, NEW x \in MessageType, IsFiniteSet(Asked(ch))
    PROVE  /\ IsFiniteSet(Asked(AppendTo(ch, {k}, x)))
           /\ Cardinality(Asked(AppendTo(ch, {k}, x))) <= Cardinality(Asked(ch)) + 1
<1> DEFINE c == AppendTo(ch, {k}, x)
           S == Asked(ch) \cup {<<k, Len(ch[k]) + 1>>}
<1>1. Asked(c) \subseteq S
  <2> SUFFICES ASSUME NEW a \in Asked(c)  PROVE a \in S
    OBVIOUS
  <2>1. /\ a[1] \in Link /\ a[2] \in 1 .. Len(c[a[1]]) /\ Carries(c[a[1]][a[2]], "toMaster")
        /\ a = <<a[1], a[2]>>
    BY DEF Asked
  <2>2. \/ a[2] \in 1 .. Len(ch[a[1]]) /\ c[a[1]][a[2]] = ch[a[1]][a[2]]
        \/ a[1] = k /\ a[2] = Len(ch[k]) + 1
    BY <2>1, AppendOldPlaces
  <2> QED BY <2>1, <2>2 DEF Asked
<1>2. IsFiniteSet(S) /\ Cardinality(S) <= Cardinality(Asked(ch)) + 1
  <2> DEFINE T == Asked(ch)
             e == <<k, Len(ch[k]) + 1>>
  <2>1. IsFiniteSet(T)  OBVIOUS
  <2> HIDE DEF T, e
  <2>2. Cardinality(T) \in Nat  BY <2>1, FS_CardinalityType
  <2>3. /\ IsFiniteSet(T \cup {e})
        /\ Cardinality(T \cup {e}) = IF e \in T THEN Cardinality(T) ELSE Cardinality(T) + 1
    BY <2>1, FS_AddElement
  <2>4. IsFiniteSet(T \cup {e}) /\ Cardinality(T \cup {e}) <= Cardinality(T) + 1  BY <2>2, <2>3
  <2> QED BY <2>4 DEF T, e
<1>3. IsFiniteSet(Asked(c)) /\ Cardinality(Asked(c)) <= Cardinality(S)
  BY <1>1, <1>2, FS_Subset
<1>4. Cardinality(Asked(c)) \in Nat /\ Cardinality(Asked(ch)) \in Nat /\ Cardinality(S) \in Nat
  BY <1>2, <1>3, FS_CardinalityType
<1> QED BY <1>2, <1>3, <1>4
-----------------------------------------------------------------------------
(* What the invariant says of a manager *)

LEMMA Standing ==
    ASSUME RecoveryInv
    PROVE  /\ 0 \in Manager /\ 0 \notin Slave /\ Slave \subseteq Manager
           /\ Done \in Nat
           /\ \A m \in Manager : Len(restored[m]) \in Nat /\ incarnation[m] \in Nat
           /\ \A m \in Manager : ~inRecovery[m] => ~recovering[m]
           /\ \A m \in Manager : ~recovering[m] => incarnation[m] = Done
           /\ \A m \in Manager : Done <= incarnation[m] /\ incarnation[m] <= incarnation[0]
           /\ \A m \in Slave : Entered(m) => recovering[m] /\ Len(restored[m]) = Done
           /\ \A m \in Slave : incarnation[m] \in {Done, Done + 1}
           /\ \A m \in Slave : recovering[m] =>
                  recovering[0] \/ (incarnation[m] = Done /\ Len(restored[m]) + 1 = Done)
           /\ \A m \in Slave : recovering[m] /\ ~Entered(m) => Len(restored[m]) + 1 = Done
           /\ \A m \in Slave : ~recovering[m] => Len(restored[m]) = Done
<1>1. 0 \in Manager /\ 0 \notin Slave /\ Slave \subseteq Manager
  BY RecoveryAssumption DEF Manager, Slave
<1>2. /\ \A m \in Manager : Len(restored[m]) \in Nat /\ incarnation[m] \in Nat
      /\ recovering \in [Manager -> BOOLEAN]
  BY DEF RecoveryInv, Types
<1>3. Done \in Nat  BY <1>1, <1>2 DEF Done
<1>4. \A m \in Manager : ~inRecovery[m] => ~recovering[m]  BY DEF RecoveryInv, Stopped
<1>5. \/ ~recovering[0] /\ incarnation[0] = Done
      \/ recovering[0] /\ incarnation[0] \in {Done + 1, Done + 2}
  BY DEF RecoveryInv, MasterInv
<1>6. \A m \in Slave :
        /\ recovering[m] => incarnation[m] = Len(restored[m]) + 1
        /\ ~recovering[m] => incarnation[m] = Len(restored[m])
        /\ Len(restored[m]) <= Done
        /\ incarnation[m] >= Done
        /\ ~recovering[0] => incarnation[m] = Done
  BY DEF RecoveryInv, SlaveInv
<1>7. ASSUME NEW m \in Slave
      PROVE  /\ ~recovering[m] => incarnation[m] = Done /\ Len(restored[m]) = Done
             /\ Done <= incarnation[m] /\ incarnation[m] <= incarnation[0]
             /\ Entered(m) => recovering[m] /\ Len(restored[m]) = Done
             /\ incarnation[m] \in {Done, Done + 1}
             /\ recovering[m] =>
                  recovering[0] \/ (incarnation[m] = Done /\ Len(restored[m]) + 1 = Done)
             /\ recovering[m] /\ ~Entered(m) => Len(restored[m]) + 1 = Done
  <2> HIDE DEF Done
  <2>1. Len(restored[m]) \in Nat /\ incarnation[m] \in Nat /\ incarnation[0] \in Nat
    BY <1>1, <1>2
  <2> QED BY <1>3, <1>5, <1>6, <2>1 DEF Entered
<1>8. \A m \in Manager : m = 0 \/ m \in Slave  BY DEF Slave
<1> QED BY <1>1, <1>2, <1>3, <1>4, <1>5, <1>7, <1>8

LEMMA LastRestoredType ==
    ASSUME Types, NEW m \in Manager
    PROVE  LastRestored(m) \in 0 .. MaxCheckpoint
BY Numbers DEF Types, LastRestored

-----------------------------------------------------------------------------
(* The simulation between recoveries *)

LEMMA MovesInv ==
    ASSUME RecoveryInv, NEW m \in Manager, Advance(m) \/ StepBack(m)
    PROVE  RecoveryInv'
<1>1. /\ last[m] \in 0 .. MaxCheckpoint
      /\ ~inRecovery[m]
      /\ UNCHANGED <<channel, inRecovery, recovering, incarnation, events, restored, faults, sent>>
      /\ \/ last[m] < MaxCheckpoint /\ last' = [last EXCEPT ![m] = @ + 1]
         \/ last[m] > LastRestored(m) /\ last' = [last EXCEPT ![m] = @ - 1]
  BY DEF RecoveryInv, Types, Advance, StepBack
<1>2. ~recovering[m] /\ ~Entered(m)
  BY <1>1, Standing DEF Entered
<1>3. last' \in [Manager -> 0 .. MaxCheckpoint] /\ \A p \in Manager : p # m => last'[p] = last[p]
  <2>1. LastRestored(m) \in 0 .. MaxCheckpoint  BY LastRestoredType DEF RecoveryInv
  <2>2. last \in [Manager -> 0 .. MaxCheckpoint]  BY DEF RecoveryInv, Types
  <2> QED BY <1>1, <2>1, <2>2, Numbers
<1>4. Types'  BY <1>1, <1>3 DEF RecoveryInv, Types
<1>5. Stopped' /\ MasterInv' /\ SlaveInv' /\ PrefixInv'
  BY <1>1 DEF RecoveryInv, Stopped, MasterInv, SlaveInv, PrefixInv, Done
<1>6. EventInv' /\ FirstInv'
  BY <1>1 DEF RecoveryInv, EventInv, FirstInv, Done, On, Entered
<1>7. SecondInv'
  <2>1. \A l \in Link : \A x \in On(channel, l) : ~Carries(x, "second")
    BY <1>2 DEF RecoveryInv, SecondInv
  <2> QED BY <1>1, <2>1 DEF SecondInv, On
<1>8. ThirdInv'
  <2>1. \A l \in Link : \A x \in On(channel, l) : Carries(x, "third") => l[2] # m
    BY <1>2 DEF RecoveryInv, ThirdInv
  <2> QED BY <1>1, <1>3, <2>1, LinkEnds DEF RecoveryInv, ThirdInv, On, Done
<1>9. OneCycleInv' /\ OneThirdInv' /\ AskedInv'
  BY <1>1 DEF RecoveryInv, OneCycleInv, OneThirdInv, AskedInv, OneCycle, CycleAt, OneThird,
              ThirdAt, Asked, Done, On
<1> QED BY <1>4, <1>5, <1>6, <1>7, <1>8, <1>9 DEF RecoveryInv

\* One message is appended to the links L of a shorter channel.
Grown(c, L, x) ==
    Shorter(c, channel) /\ L \in SUBSET Link /\ x \in MessageType /\ channel' = AppendTo(c, L, x)

LEMMA GrownIs ==
    ASSUME channel \in Channels, NEW c, NEW L, NEW x, Grown(c, L, x)
    PROVE  /\ c \in Channels
           /\ channel' \in Channels
           /\ \A l \in Link : \A y \in On(channel', l) : y \in On(channel, l) \/ (l \in L /\ y = x)
<1>1. c \in Channels  BY DEF Grown, Shorter
<1>2. channel' \in Channels  BY <1>1, AppendTyped DEF Grown
<1>3. ASSUME NEW l \in Link, NEW y \in On(channel', l)
      PROVE  y \in On(channel, l) \/ (l \in L /\ y = x)
  <2>1. y \in On(c, l) \/ (l \in L /\ y = x)  BY <1>1, AppendOn DEF Grown
  <2>2. On(c, l) \subseteq On(channel, l)  BY ShorterOn DEF Grown
  <2> QED BY <2>1, <2>2
<1> QED BY <1>1, <1>2, <1>3

\* The new message is no token of a cycle, not the third one and asks nothing.
LEMMA GrownPlain ==
    ASSUME RecoveryInv, NEW c, NEW L, NEW x, Grown(c, L, x),
           \A t \in Token : ~Carries(x, t)
    PROVE  /\ OneCycle(channel) => OneCycle(channel')
           /\ OneThird(channel')
           /\ IsFiniteSet(Asked(channel'))
           /\ Cardinality(Asked(channel')) <= Cardinality(Asked(channel))
<1>1. channel \in Channels /\ c \in Channels  BY GrownIs DEF RecoveryInv, Types
<1>2. ~IsCycle(x) /\ ~Carries(x, "third") /\ ~Carries(x, "toMaster")  BY DEF IsCycle, Token
<1>3. OneCycle(channel) => OneCycle(channel')
  BY <1>1, <1>2, ShorterOneCycle, AppendOneCycle DEF Grown
<1>4. OneThird(channel')
  BY <1>1, <1>2, ShorterOneThird, AppendOneThird DEF Grown, RecoveryInv, OneThirdInv
<1>5. IsFiniteSet(Asked(c)) /\ Cardinality(Asked(c)) <= Cardinality(Asked(channel))
  BY <1>1, ShorterAsked DEF Grown, RecoveryInv, AskedInv
<1>6. IsFiniteSet(Asked(channel')) /\ Cardinality(Asked(channel')) <= Cardinality(Asked(c))
  BY <1>1, <1>2, <1>5, AppendAsked DEF Grown
<1>7. /\ Cardinality(Asked(c)) \in Nat /\ Cardinality(Asked(channel)) \in Nat
      /\ Cardinality(Asked(channel')) \in Nat
  BY <1>5, <1>6, FS_CardinalityType DEF RecoveryInv, AskedInv
<1> QED BY <1>3, <1>4, <1>5, <1>6, <1>7

LEMMA SendEventInv ==
    ASSUME RecoveryInv, NEW m \in Manager, NEW d \in Manager, m # d, SendEvent(m, d)
    PROVE  RecoveryInv'
<1> DEFINE x == EventMessage(incarnation[m])
           L == {<<m, d>>}
<1>1. /\ UNCHANGED <<inRecovery, recovering, incarnation, last, events, restored, faults>>
      /\ sent < MaxEvents /\ sent' = sent + 1
      /\ ~inRecovery[m]
      /\ channel' = Sent(channel, m, d, x)
  BY DEF SendEvent
<1>2. incarnation[m] = Done /\ Done \in Nat  BY <1>1, Standing
<1>3. x \in MessageType /\ IsEvent(x) /\ x.incarnation = Done /\ \A t : ~Carries(x, t)
  BY <1>2, EventMessageIs
<1> HIDE DEF x, L
<1>4. Grown(channel, L, x)
  <2>1. channel \in Channels  BY DEF RecoveryInv, Types
  <2>2. channel' = AppendTo(channel, L, x) /\ L \in SUBSET Link  BY <1>1, <2>1, SentIs DEF L
  <2> QED BY <1>3, <2>1, <2>2, ShorterSelf DEF Grown
<1>5. /\ channel' \in Channels
      /\ \A l \in Link : \A y \in On(channel', l) : y \in On(channel, l) \/ y = x
  BY <1>4, GrownIs DEF RecoveryInv, Types
<1>6. Types'
  BY <1>1, <1>5, Numbers DEF RecoveryInv, Types
<1>7. Stopped' /\ MasterInv' /\ SlaveInv' /\ PrefixInv'
  BY <1>1 DEF RecoveryInv, Stopped, MasterInv, SlaveInv, PrefixInv, Done
<1>8. EventInv'
  BY <1>1, <1>2, <1>3, <1>5 DEF RecoveryInv, EventInv, Done
<1>9. FirstInv'
  BY <1>1, <1>3, <1>5 DEF RecoveryInv, FirstInv, Done, Entered
<1>10. SecondInv'
  BY <1>1, <1>3, <1>5 DEF RecoveryInv, SecondInv, Done, Entered
<1>11. ThirdInv'
  BY <1>1, <1>3, <1>5 DEF RecoveryInv, ThirdInv, Done
<1>12. OneCycleInv' /\ OneThirdInv'
  <2>1. (OneCycle(channel) => OneCycle(channel')) /\ OneThird(channel')
    BY <1>3, <1>4, GrownPlain
  <2> QED BY <1>1, <2>1 DEF RecoveryInv, OneCycleInv, OneThirdInv, Done
<1>13. AskedInv'
  <2>1. /\ IsFiniteSet(Asked(channel')) /\ Cardinality(Asked(channel')) <= Cardinality(Asked(channel))
        /\ IsFiniteSet(Asked(channel))
    BY <1>3, <1>4, GrownPlain DEF RecoveryInv, AskedInv
  <2>2. Cardinality(Asked(channel')) \in Nat /\ Cardinality(Asked(channel)) \in Nat
    BY <2>1, FS_CardinalityType
  <2>3. incarnation[0] + Cardinality(Asked(channel)) <= 2 * faults /\ incarnation[0] \in Nat
        /\ faults \in Nat
    BY Standing DEF RecoveryInv, AskedInv, Types
  <2>4. incarnation'[0] + Cardinality(Asked(channel')) <= 2 * faults'
    BY <1>1, <2>1, <2>2, <2>3
  <2>5. \A l \in Link : \A y \in On(channel', l) :
            Carries(y, "toMaster") => y.incarnation <= incarnation'[0]
    BY <1>1, <1>3, <1>5 DEF RecoveryInv, AskedInv
  <2> QED BY <2>1, <2>4, <2>5 DEF AskedInv
<1> QED BY <1>6, <1>7, <1>8, <1>9, <1>10, <1>11, <1>12, <1>13 DEF RecoveryInv
-----------------------------------------------------------------------------
(* A recovery starts *)

\* The account of SEND_TO_MASTER after a step.
LEMMA AskedStep ==
    ASSUME RecoveryInv, IsFiniteSet(Asked(channel')),
           incarnation'[0] + Cardinality(Asked(channel')) <= 2 * faults',
           incarnation'[0] \in Nat, incarnation[0] <= incarnation'[0],
           channel' \in Channels,
           \A l \in Link : \A y \in On(channel', l) : Carries(y, "toMaster") =>
               y \in On(channel, l) \/ y.incarnation <= incarnation[0]
    PROVE  AskedInv'
<1>1. ASSUME NEW l \in Link, NEW y \in On(channel', l), Carries(y, "toMaster")
      PROVE  y.incarnation <= incarnation'[0]
  <2>1. y.incarnation <= incarnation[0]  BY <1>1 DEF RecoveryInv, AskedInv
  <2>2. incarnation[0] \in Nat /\ y.incarnation \in Nat  BY Standing, OnTyped, MessageParts
  <2> QED BY <2>1, <2>2
<1> QED BY <1>1 DEF AskedInv

LEMMA CardAsked ==
    ASSUME RecoveryInv
    PROVE  /\ IsFiniteSet(Asked(channel))
           /\ Cardinality(Asked(channel)) \in Nat
           /\ incarnation[0] \in Nat
           /\ faults \in Nat
           /\ incarnation[0] + Cardinality(Asked(channel)) <= 2 * faults
BY FS_CardinalityType, Standing, Numbers DEF RecoveryInv, AskedInv, Types

\* No recovery under way at the master: no token of a cycle.
LEMMA IdleCycleFree ==
    ASSUME RecoveryInv, ~recovering[0]
    PROVE  /\ \A l \in Link : \A x \in On(channel, l) : ~Carries(x, "first") /\ ~Carries(x, "second")
           /\ CycleFree(channel)
BY DEF RecoveryInv, FirstInv, SecondInv, CycleFree, IsCycle

LEMMA MasterStarts ==
    ASSUME RecoveryInv, ~recovering[0], NEW k \in {Done + 1, Done + 2},
           channel' \in Channels,
           \A l \in Link : \A y \in On(channel', l) :
               \/ y \in On(channel, l)
               \/ l = <<0, Peer(0)>> /\ Carries(y, "first") /\ y.incarnation \in Done + 1 .. k,
           k = Done + 1 => OneCycle(channel'),
           OneThird(channel'),
           IsFiniteSet(Asked(channel')),
           k + Cardinality(Asked(channel')) <= 2 * faults',
           faults' \in 0 .. MaxFaults,
           recovering' = [recovering EXCEPT ![0] = TRUE],
           inRecovery' = [inRecovery EXCEPT ![0] = TRUE],
           incarnation' = [incarnation EXCEPT ![0] = k],
           UNCHANGED <<last, events, restored, sent>>
    PROVE  RecoveryInv'
<1>1. /\ 0 \in Manager /\ 0 \notin Slave /\ Slave \subseteq Manager
      /\ Done \in Nat /\ incarnation[0] = Done
  BY Standing
<1>2. /\ recovering \in [Manager -> BOOLEAN] /\ incarnation \in [Manager -> Nat]
      /\ inRecovery \in [Manager -> BOOLEAN]
  BY DEF RecoveryInv, Types
<1>3. /\ recovering'[0] = TRUE /\ inRecovery'[0] = TRUE /\ incarnation'[0] = k
      /\ \A s \in Slave : /\ recovering'[s] = recovering[s] /\ inRecovery'[s] = inRecovery[s]
                          /\ incarnation'[s] = incarnation[s]
  BY <1>1, <1>2
<1>4. Done' = Done  BY DEF Done
<1>5. \A l \in Link : \A y \in On(channel', l) :
          /\ ~Carries(y, "second")
          /\ ~Carries(y, "first") => y \in On(channel, l)
          /\ Carries(y, "first") =>
                 l = <<0, Peer(0)>> /\ y.incarnation \in Done + 1 .. k
  BY IdleCycleFree DEF Carries
<1>6. Types'
  BY <1>1, <1>2 DEF RecoveryInv, Types
<1>7. Stopped'
  BY <1>1, <1>3 DEF RecoveryInv, Stopped, Slave
<1>8. MasterInv'
  BY <1>3, <1>4 DEF MasterInv
<1>9. SlaveInv'
  BY <1>1, <1>3, <1>4 DEF RecoveryInv, SlaveInv
<1>10. PrefixInv'
  BY DEF RecoveryInv, PrefixInv
<1>11. EventInv'
  BY <1>4, <1>5, MessageParts DEF RecoveryInv, EventInv, Carries, IsEvent
<1>12. FirstInv'
  <2> SUFFICES ASSUME NEW l \in Link, NEW y \in On(channel', l), Carries(y, "first")
               PROVE  /\ recovering'[0]
                      /\ l[2] = Peer(l[1])
                      /\ y.incarnation \in Done' + 1 .. incarnation'[0]
                      /\ l[1] # 0 => y.incarnation = Done' + 1
                      /\ \A s \in 1 .. l[1] : Entered(s)'
    BY DEF FirstInv
  <2>1. l[1] = 0 /\ l[2] = Peer(0) /\ y.incarnation \in Done + 1 .. k  BY <1>5
  <2> QED BY <1>3, <1>4, <2>1
<1>13. SecondInv'
  BY <1>5 DEF SecondInv
<1>14. ThirdInv'
  <2> SUFFICES ASSUME NEW l \in Link, NEW y \in On(channel', l), Carries(y, "third")
               PROVE  /\ l[1] = 0
                      /\ Done' > 0
                      /\ y.incarnation = Done'
                      /\ incarnation'[l[2]] = Done'
                      /\ recovering'[l[2]]
                      /\ y.checkpoint = restored'[0][Done']
                      /\ y.checkpoint <= last'[l[2]]
    BY DEF ThirdInv
  <2>1. y \in On(channel, l)
    <3>1. ~Carries(y, "first")  BY DEF Carries
    <3> QED BY <1>5, <3>1
  <2>2. /\ l[1] = 0
        /\ Done > 0
        /\ y.incarnation = Done
        /\ incarnation[l[2]] = Done
        /\ recovering[l[2]]
        /\ y.checkpoint = restored[0][Done]
        /\ y.checkpoint <= last[l[2]]
    BY <2>1 DEF RecoveryInv, ThirdInv
  <2>3. l[2] \in Slave  BY <2>2, LinkEnds DEF Slave
  <2> QED BY <1>3, <1>4, <2>2, <2>3
<1>15. OneCycleInv' /\ OneThirdInv'
  BY <1>3, <1>4 DEF OneCycleInv, OneThirdInv
<1>16. AskedInv'
  <2>1. \A l \in Link : \A y \in On(channel', l) : y \in On(channel, l) \/ ~Carries(y, "toMaster")
    BY <1>5 DEF Carries
  <2>2. incarnation'[0] \in Nat /\ incarnation[0] <= incarnation'[0]  BY <1>1, <1>3
  <2> QED BY <1>3, <2>1, <2>2, AskedStep
<1> QED BY <1>6, <1>7, <1>8, <1>9, <1>10, <1>11, <1>12, <1>13, <1>14, <1>15, <1>16 DEF RecoveryInv

LEMMA SlaveAsks ==
    ASSUME RecoveryInv, NEW m \in Slave, ~inRecovery[m],
           channel' \in Channels,
           \A l \in Link : \A y \in On(channel', l) :
               \/ y \in On(channel, l)
               \/ Carries(y, "toMaster") /\ y.incarnation = incarnation[m],
           OneCycle(channel) => OneCycle(channel'),
           OneThird(channel'),
           IsFiniteSet(Asked(channel')),
           Cardinality(Asked(channel')) <= Cardinality(Asked(channel)) + 2,
           faults < MaxFaults, faults' = faults + 1,
           inRecovery' = [inRecovery EXCEPT ![m] = TRUE],
           UNCHANGED <<recovering, incarnation, last, events, restored, sent>>
    PROVE  RecoveryInv'
<1>1. Done' = Done /\ m \in Manager  BY Standing DEF Done
<1>2. \A l \in Link : \A y \in On(channel', l) :
          ~Carries(y, "toMaster") => y \in On(channel, l)
  OBVIOUS
<1>3. Types'
  <2>1. faults' \in 0 .. MaxFaults  BY Numbers DEF RecoveryInv, Types
  <2>2. inRecovery' \in [Manager -> BOOLEAN]  BY DEF RecoveryInv, Types
  <2> QED BY <2>1, <2>2 DEF RecoveryInv, Types
<1>4. Stopped' /\ MasterInv' /\ SlaveInv' /\ PrefixInv'
  BY <1>1 DEF RecoveryInv, Types, Stopped, MasterInv, SlaveInv, PrefixInv
<1>5. EventInv'
  BY <1>1, <1>2 DEF RecoveryInv, EventInv, Carries, IsEvent
<1>6. FirstInv'
  BY <1>1, <1>2 DEF RecoveryInv, FirstInv, Carries, Entered
<1>7. SecondInv'
  BY <1>1, <1>2 DEF RecoveryInv, SecondInv, Carries, Entered
<1>8. ThirdInv'
  BY <1>1, <1>2 DEF RecoveryInv, ThirdInv, Carries
<1>9. OneCycleInv' /\ OneThirdInv'
  BY <1>1 DEF RecoveryInv, OneCycleInv, OneThirdInv
<1>10. AskedInv'
  <2>1. incarnation'[0] + Cardinality(Asked(channel')) <= 2 * faults'
    <3>1. Cardinality(Asked(channel')) \in Nat  BY FS_CardinalityType
    <3> QED BY <3>1, CardAsked
  <2>2. incarnation'[0] \in Nat /\ incarnation[0] <= incarnation'[0]  BY CardAsked
  <2>3. incarnation[m] <= incarnation[0]  BY <1>1, Standing
  <2> QED BY <1>2, <2>1, <2>2, <2>3, AskedStep
<1> QED BY <1>3, <1>4, <1>5, <1>6, <1>7, <1>8, <1>9, <1>10 DEF RecoveryInv

\* One SEND_TO_MASTER more.
LEMMA OneAsked ==
    ASSUME NEW ch \in Channels, NEW k \in Link, NEW c \in 0 .. MaxCheckpoint, NEW i \in Nat,
           OneThird(ch), IsFiniteSet(Asked(ch))
    PROVE  LET x == RestoreCkpt("toMaster", c, i)
               new == AppendTo(ch, {k}, x)
           IN  /\ new \in Channels
               /\ \A l \in Link : \A y \in On(new, l) : y \in On(ch, l) \/ y = x
               /\ Carries(x, "toMaster") /\ x.incarnation = i
               /\ OneCycle(ch) => OneCycle(new)
               /\ OneThird(new)
               /\ IsFiniteSet(Asked(new))
               /\ Cardinality(Asked(new)) <= Cardinality(Asked(ch)) + 1
<1> DEFINE x == RestoreCkpt("toMaster", c, i)
<1>1. x \in MessageType /\ Carries(x, "toMaster") /\ x.incarnation = i
  BY RestoreCkptIs DEF Token
<1>2. ~IsCycle(x) /\ ~Carries(x, "third")  BY <1>1 DEF IsCycle, Carries
<1>3. {k} \in SUBSET Link  OBVIOUS
<1> HIDE DEF x
<1> QED BY <1>1, <1>2, <1>3, AppendTyped, AppendOn, AppendOneCycle, AppendOneThird, AppendNewAsked
        DEF x

\* One FIRST_CYCLE more.
LEMMA OneFirst ==
    ASSUME NEW ch \in Channels, NEW k \in Link, NEW c \in 0 .. MaxCheckpoint, NEW i \in Nat,
           OneThird(ch), IsFiniteSet(Asked(ch))
    PROVE  LET x == RestoreCkpt("first", c, i)
               new == AppendTo(ch, {k}, x)
           IN  /\ new \in Channels
               /\ \A l \in Link : \A y \in On(new, l) : y \in On(ch, l) \/ (l = k /\ y = x)
               /\ Carries(x, "first") /\ x.incarnation = i
               /\ CycleFree(ch) => OneCycle(new)
               /\ OneThird(new)
               /\ IsFiniteSet(Asked(new))
               /\ Cardinality(Asked(new)) <= Cardinality(Asked(ch))
<1> DEFINE x == RestoreCkpt("first", c, i)
<1>1. x \in MessageType /\ Carries(x, "first") /\ x.incarnation = i
  BY RestoreCkptIs DEF Token
<1>2. ~Carries(x, "toMaster") /\ ~Carries(x, "third")  BY <1>1 DEF Carries
<1>3. {k} \in SUBSET Link  OBVIOUS
<1> HIDE DEF x
<1> QED BY <1>1, <1>2, <1>3, AppendTyped, AppendOn, AppendNewCycle, AppendOneThird, AppendAsked
        DEF x

LEMMA StartRecoveryInv ==
    ASSUME RecoveryInv, NEW m \in Manager, NEW c \in 0 .. MaxCheckpoint, StartRecovery(m, c)
    PROVE  RecoveryInv'
<1>1. /\ ~inRecovery[m] /\ faults < MaxFaults /\ faults' = faults + 1
      /\ inRecovery' = [inRecovery EXCEPT ![m] = TRUE]
      /\ UNCHANGED <<last, events, restored, sent>>
      /\ IF m = 0 THEN StartMaster(c) ELSE StartSlave(m, c)
  BY DEF StartRecovery, Fault, Stop
<1>2. channel \in Channels /\ OneThird(channel) /\ IsFiniteSet(Asked(channel))
  BY DEF RecoveryInv, Types, OneThirdInv, AskedInv
<1>3. faults' \in 0 .. MaxFaults  BY <1>1, Numbers DEF RecoveryInv, Types
<1>4. /\ ~recovering[m] /\ incarnation[m] = Done /\ Done \in Nat /\ 0 \in Manager
      /\ incarnation[m] \in Nat
  BY <1>1, Standing
<1>5. CASE m = 0
  <2> DEFINE k == Done + 1
             x == RestoreCkpt("first", c, k)
             new == AppendTo(channel, {<<0, Peer(0)>>}, x)
  <2>1. /\ channel' = Sent(channel, 0, Peer(0), x)
        /\ recovering' = [recovering EXCEPT ![0] = TRUE]
        /\ incarnation' = [incarnation EXCEPT ![0] = k]
        /\ inRecovery' = [inRecovery EXCEPT ![0] = TRUE]
    BY <1>1, <1>4, <1>5 DEF StartMaster
  <2>2. channel' = new /\ <<0, Peer(0)>> \in Link
    BY <1>2, <1>4, <2>1, SentIs, PeerOf
  <2>3. k \in Nat /\ k \in Done + 1 .. k /\ k \in {Done + 1, Done + 2}  BY <1>4
  <2> HIDE DEF k
  <2>4. /\ new \in Channels
        /\ \A l \in Link : \A y \in On(new, l) : y \in On(channel, l) \/ (l = <<0, Peer(0)>> /\ y = x)
        /\ Carries(x, "first") /\ x.incarnation = k
        /\ CycleFree(channel) => OneCycle(new)
        /\ OneThird(new)
        /\ IsFiniteSet(Asked(new))
        /\ Cardinality(Asked(new)) <= Cardinality(Asked(channel))
    BY <1>2, <2>2, <2>3, OneFirst
  <2>5. CycleFree(channel)  BY <1>4, <1>5, IdleCycleFree
  <2> HIDE DEF x, new
  <2>6. k + Cardinality(Asked(channel')) <= 2 * faults'
    <3>1. Cardinality(Asked(channel')) \in Nat  BY <2>2, <2>4, FS_CardinalityType
    <3> QED BY <1>1, <1>4, <1>5, <2>2, <2>4, <3>1, CardAsked DEF k
  <2> QED BY <1>1, <1>3, <1>4, <1>5, <2>1, <2>2, <2>3, <2>4, <2>5, <2>6, MasterStarts
<1>6. CASE m # 0
  <2> DEFINE x == RestoreCkpt("toMaster", c, incarnation[m])
             new == AppendTo(channel, {<<m, 0>>}, x)
  <2>1. channel' = Sent(channel, m, 0, x) /\ UNCHANGED <<recovering, incarnation>>
    BY <1>1, <1>6 DEF StartSlave
  <2>2. channel' = new /\ <<m, 0>> \in Link
    BY <1>2, <1>4, <1>6, <2>1, SentIs, LinkEnds
  <2>3. /\ new \in Channels
        /\ \A l \in Link : \A y \in On(new, l) : y \in On(channel, l) \/ y = x
        /\ Carries(x, "toMaster") /\ x.incarnation = incarnation[m]
        /\ OneCycle(channel) => OneCycle(new)
        /\ OneThird(new)
        /\ IsFiniteSet(Asked(new))
        /\ Cardinality(Asked(new)) <= Cardinality(Asked(channel)) + 1
    BY <1>2, <1>4, <2>2, OneAsked
  <2> HIDE DEF x, new
  <2>4. Cardinality(Asked(channel')) <= Cardinality(Asked(channel)) + 2
    BY <2>2, <2>3, FS_CardinalityType, <1>2
  <2>5. m \in Slave  BY <1>6 DEF Slave
  <2> QED BY <1>1, <2>1, <2>2, <2>3, <2>4, <2>5, SlaveAsks
<1> QED BY <1>5, <1>6

LEMMA StartRecoveryTwiceInv ==
    ASSUME RecoveryInv, NEW m \in Manager, NEW c \in 0 .. MaxCheckpoint, NEW d \in 0 .. MaxCheckpoint,
           StartRecoveryTwice(m, c, d)
    PROVE  RecoveryInv'
<1>1. /\ ~inRecovery[m] /\ faults < MaxFaults /\ faults' = faults + 1
      /\ inRecovery' = [inRecovery EXCEPT ![m] = TRUE]
      /\ UNCHANGED <<last, events, restored, sent>>
  BY DEF StartRecoveryTwice, Fault, Stop
<1>2. channel \in Channels /\ OneThird(channel) /\ IsFiniteSet(Asked(channel))
  BY DEF RecoveryInv, Types, OneThirdInv, AskedInv
<1>3. faults' \in 0 .. MaxFaults  BY <1>1, Numbers DEF RecoveryInv, Types
<1>4. /\ ~recovering[m] /\ incarnation[m] = Done /\ Done \in Nat /\ 0 \in Manager
      /\ incarnation[m] \in Nat
  BY <1>1, Standing
<1>5. CASE m = 0
  <2> DEFINE i == Done + 1
             j == Done + 2
             k == <<0, Peer(0)>>
             x == RestoreCkpt("first", c, i)
             y == RestoreCkpt("first", d, j)
             mid == AppendTo(channel, {k}, x)
             new == AppendTo(mid, {k}, y)
  <2>1. /\ channel' = Sent(Sent(channel, 0, Peer(0), x), 0, Peer(0), y)
        /\ recovering' = [recovering EXCEPT ![0] = TRUE]
        /\ incarnation' = [incarnation EXCEPT ![0] = j]
        /\ inRecovery' = [inRecovery EXCEPT ![0] = TRUE]
    BY <1>1, <1>4, <1>5 DEF StartRecoveryTwice
  <2>2. /\ i \in Nat /\ j \in Nat /\ i \in Done + 1 .. j /\ j \in Done + 1 .. j
        /\ j # Done + 1 /\ j \in {Done + 1, Done + 2}
    BY <1>4
  <2>3. k \in Link /\ Peer(0) \in Manager /\ Peer(0) # 0  BY <1>4, PeerOf
  <2> HIDE DEF i, j, k
  <2>4. /\ mid \in Channels
        /\ \A l \in Link : \A z \in On(mid, l) : z \in On(channel, l) \/ (l = k /\ z = x)
        /\ Carries(x, "first") /\ x.incarnation = i
        /\ OneThird(mid)
        /\ IsFiniteSet(Asked(mid))
        /\ Cardinality(Asked(mid)) <= Cardinality(Asked(channel))
    BY <1>2, <2>2, <2>3, OneFirst
  <2> HIDE DEF mid, x
  <2>5. /\ mid \in Channels /\ OneThird(mid) /\ IsFiniteSet(Asked(mid))
        /\ k \in Link /\ j \in Nat /\ d \in 0 .. MaxCheckpoint
    BY <2>2, <2>3, <2>4
  <2>6. /\ new \in Channels
        /\ \A l \in Link : \A z \in On(new, l) : z \in On(mid, l) \/ (l = k /\ z = y)
        /\ Carries(y, "first") /\ y.incarnation = j
        /\ OneThird(new)
        /\ IsFiniteSet(Asked(new))
        /\ Cardinality(Asked(new)) <= Cardinality(Asked(mid))
    BY ONLY <2>5, OneFirst
  <2>7. channel' = new
    <3>1. Sent(channel, 0, Peer(0), x) = mid  BY <1>2, <1>4, <2>3, SentIs DEF mid, k, x
    <3>2. Sent(mid, 0, Peer(0), y) = new  BY <1>4, <2>3, <2>4, SentIs DEF k
    <3> QED BY <2>1, <3>1, <3>2 DEF x
  <2> HIDE DEF y, new
  <2>8. j + Cardinality(Asked(channel')) <= 2 * faults'
    <3>1. Cardinality(Asked(new)) \in Nat /\ Cardinality(Asked(mid)) \in Nat
      BY <2>4, <2>6, FS_CardinalityType
    <3> QED BY <1>1, <1>4, <1>5, <2>4, <2>6, <2>7, <3>1, CardAsked DEF j
  <2>9. \A l \in Link : \A z \in On(channel', l) :
            z \in On(channel, l) \/ (l = k /\ Carries(z, "first") /\ z.incarnation \in Done + 1 .. j)
    BY <2>2, <2>4, <2>6, <2>7
  <2> QED BY <1>1, <1>3, <1>4, <1>5, <2>1, <2>2, <2>6, <2>7, <2>8, <2>9, MasterStarts DEF k
<1>6. CASE m # 0
  <2> DEFINE k == <<m, 0>>
             x == RestoreCkpt("toMaster", c, incarnation[m])
             y == RestoreCkpt("toMaster", d, incarnation[m])
             mid == AppendTo(channel, {k}, x)
             new == AppendTo(mid, {k}, y)
  <2>1. /\ channel' = Sent(Sent(channel, m, 0, x), m, 0, y)
        /\ UNCHANGED <<recovering, incarnation>>
    BY <1>1, <1>6 DEF StartRecoveryTwice
  <2>2. k \in Link  BY <1>4, <1>6, LinkEnds
  <2>3. /\ mid \in Channels
        /\ \A l \in Link : \A z \in On(mid, l) : z \in On(channel, l) \/ z = x
        /\ Carries(x, "toMaster") /\ x.incarnation = incarnation[m]
        /\ OneCycle(channel) => OneCycle(mid)
        /\ OneThird(mid)
        /\ IsFiniteSet(Asked(mid))
        /\ Cardinality(Asked(mid)) <= Cardinality(Asked(channel)) + 1
    BY <1>2, <1>4, <2>2, OneAsked
  <2> HIDE DEF mid
  <2>4. /\ new \in Channels
        /\ \A l \in Link : \A z \in On(new, l) : z \in On(mid, l) \/ z = y
        /\ Carries(y, "toMaster") /\ y.incarnation = incarnation[m]
        /\ OneCycle(mid) => OneCycle(new)
        /\ OneThird(new)
        /\ IsFiniteSet(Asked(new))
        /\ Cardinality(Asked(new)) <= Cardinality(Asked(mid)) + 1
    BY <1>4, <2>2, <2>3, OneAsked
  <2>5. channel' = new
    <3>1. Sent(channel, m, 0, x) = mid  BY <1>2, <1>4, <1>6, SentIs DEF mid
    <3>2. Sent(mid, m, 0, y) = new  BY <1>4, <1>6, <2>3, SentIs
    <3> QED BY <2>1, <3>1, <3>2
  <2> HIDE DEF x, y, new
  <2>6. Cardinality(Asked(channel')) <= Cardinality(Asked(channel)) + 2
    <3>1. /\ Cardinality(Asked(new)) \in Nat /\ Cardinality(Asked(mid)) \in Nat
          /\ Cardinality(Asked(channel)) \in Nat
      BY <1>2, <2>3, <2>4, FS_CardinalityType
    <3> QED BY <2>3, <2>4, <2>5, <3>1
  <2>7. m \in Slave  BY <1>6 DEF Slave
  <2>8. \A l \in Link : \A z \in On(channel', l) :
            z \in On(channel, l) \/ (Carries(z, "toMaster") /\ z.incarnation = incarnation[m])
    BY <2>3, <2>4, <2>5
  <2> QED BY <1>1, <2>1, <2>3, <2>4, <2>5, <2>6, <2>7, <2>8, SlaveAsks
<1> QED BY <1>5, <1>6

-----------------------------------------------------------------------------
(* Messages that start nothing: an event, and what is thrown away *)

LEMMA TakeInv ==
    ASSUME RecoveryInv, Shorter(channel', channel),
           UNCHANGED <<inRecovery, recovering, incarnation, last, restored, faults, sent>>,
           events' \in [Manager -> SUBSET Nat],
           \A m \in Manager : \A i \in events'[m] : i <= Done
    PROVE  RecoveryInv'
<1>1. Done' = Done  BY DEF Done
<1>2. channel \in Channels /\ channel' \in Channels
  BY DEF RecoveryInv, Types, Shorter
<1>3. \A l \in Link : On(channel', l) \subseteq On(channel, l)
  BY <1>2, ShorterOn
<1>4. Types'
  BY <1>2 DEF RecoveryInv, Types
<1>5. Stopped' /\ MasterInv' /\ SlaveInv' /\ PrefixInv'
  BY <1>1 DEF RecoveryInv, Stopped, MasterInv, SlaveInv, PrefixInv
<1>6. EventInv'
  BY <1>1, <1>3 DEF RecoveryInv, EventInv
<1>7. FirstInv'
  BY <1>1, <1>3 DEF RecoveryInv, FirstInv, Entered
<1>8. SecondInv'
  BY <1>1, <1>3 DEF RecoveryInv, SecondInv, Entered
<1>9. ThirdInv'
  BY <1>1, <1>3 DEF RecoveryInv, ThirdInv
<1>10. OneCycleInv' /\ OneThirdInv'
  <2>1. OneThird(channel') /\ (OneCycle(channel) => OneCycle(channel'))
    BY <1>2, ShorterOneThird, ShorterOneCycle DEF RecoveryInv, OneThirdInv
  <2> QED BY <1>1, <2>1 DEF RecoveryInv, OneCycleInv, OneThirdInv
<1>11. AskedInv'
  <2>1. IsFiniteSet(Asked(channel')) /\ Cardinality(Asked(channel')) <= Cardinality(Asked(channel))
    BY <1>2, CardAsked, ShorterAsked
  <2>2. Cardinality(Asked(channel')) \in Nat  BY <2>1, FS_CardinalityType
  <2>3. incarnation'[0] + Cardinality(Asked(channel')) <= 2 * faults'
    BY <2>1, <2>2, CardAsked
  <2>4. incarnation'[0] \in Nat /\ incarnation[0] <= incarnation'[0]  BY CardAsked
  <2> QED BY <1>2, <1>3, <2>1, <2>3, <2>4, AskedStep
<1> QED BY <1>4, <1>5, <1>6, <1>7, <1>8, <1>9, <1>10, <1>11 DEF RecoveryInv

LEMMA ReceiveEventInv ==
    ASSUME RecoveryInv, NEW m \in Manager, NEW p \in Manager, p # m, ReceiveEvent(m, p),
           UNCHANGED <<faults, sent>>
    PROVE  RecoveryInv'
<1>1. channel \in Channels /\ Arrives(m, p) /\ <<p, m>> \in Link
  BY LinkEnds DEF RecoveryInv, Types, ReceiveEvent, Routed
<1> DEFINE x == Message(m, p)
<1>2. x \in MessageType /\ x \in On(channel, <<p, m>>)  BY <1>1, TakenShorterBy
<1>3. IsEvent(x) /\ events' = [events EXCEPT ![m] = @ \cup {x.incarnation}]
  BY DEF ReceiveEvent, IsEvent
<1>4. x.incarnation \in Nat /\ x.incarnation <= Done
  BY <1>1, <1>2, <1>3, MessageParts DEF RecoveryInv, EventInv
<1> HIDE DEF x
<1>5. events \in [Manager -> SUBSET Nat]  BY DEF RecoveryInv, Types
<1>6. /\ events' \in [Manager -> SUBSET Nat]
      /\ \A q \in Manager : \A i \in events'[q] : i <= Done
  BY <1>3, <1>4, <1>5 DEF RecoveryInv, EventInv
<1>7. Shorter(channel', channel)
  BY <1>1, TakenShorter DEF ReceiveEvent
<1> QED BY <1>6, <1>7, TakeInv DEF ReceiveEvent

LEMMA DiscardInv ==
    ASSUME RecoveryInv, NEW m \in Manager, NEW p \in Manager, p # m, Discard(m, p),
           UNCHANGED <<faults, sent>>
    PROVE  RecoveryInv'
<1>1. Shorter(channel', channel)
  BY TakenShorter DEF RecoveryInv, Types, Discard
<1>2. events' = events /\ events \in [Manager -> SUBSET Nat]
  BY DEF RecoveryInv, Types, Discard
<1> QED BY <1>1, <1>2, TakeInv DEF RecoveryInv, EventInv, Discard

LEMMA ToMasterInv ==
    ASSUME RecoveryInv, NEW p \in Manager, p # 0, Routed(0, p), Carries(Message(0, p), "toMaster"),
           ~recovering[0], ToMaster(Taken(0, p), Message(0, p)), UNCHANGED <<faults, sent>>
    PROVE  RecoveryInv'
<1> DEFINE k == Done + 1
           c == Taken(0, p)
           msg == Message(0, p)
           x == RestoreCkpt("first", msg.checkpoint, k)
           new == AppendTo(c, {<<0, Peer(0)>>}, x)
<1>1. /\ channel \in Channels /\ 0 \in Manager /\ Arrives(0, p)
      /\ incarnation[0] = Done /\ Done \in Nat
      /\ <<0, Peer(0)>> \in Link /\ Peer(0) \in Manager /\ Peer(0) # 0
  BY Standing, PeerOf DEF RecoveryInv, Types, Routed
<1>2. msg \in MessageType /\ msg.checkpoint \in 0 .. MaxCheckpoint
  BY <1>1, TakenShorterBy, MessageParts DEF Carries
<1>3. Shorter(c, channel) /\ c \in Channels
  BY <1>1, TakenShorter DEF Shorter
<1>4. IsFiniteSet(Asked(c)) /\ Cardinality(Asked(c)) + 1 <= Cardinality(Asked(channel))
  BY <1>1, TakenAsked, CardAsked
<1>5. OneThird(c) /\ CycleFree(c)
  <2>1. CycleFree(channel)  BY IdleCycleFree
  <2>2. CycleFree(c)  BY <1>1, <1>3, <2>1, ShorterOn DEF CycleFree
  <2> QED BY <1>1, <1>3, <2>2, ShorterOneThird DEF RecoveryInv, OneThirdInv
<1>6. k \in Nat /\ k \in Done + 1 .. k /\ k \in {Done + 1, Done + 2}  BY <1>1
<1>7. /\ inRecovery' = [inRecovery EXCEPT ![0] = TRUE]
      /\ recovering' = [recovering EXCEPT ![0] = TRUE]
      /\ incarnation' = [incarnation EXCEPT ![0] = k]
      /\ channel' = Sent(c, 0, Peer(0), x)
      /\ UNCHANGED <<last, events, restored>>
  BY <1>1 DEF ToMaster, Stop
<1> HIDE DEF k, c, msg
<1>8. channel' = new  BY <1>1, <1>3, <1>7, SentIs
<1>9. /\ new \in Channels
      /\ \A l \in Link : \A y \in On(new, l) : y \in On(c, l) \/ (l = <<0, Peer(0)>> /\ y = x)
      /\ Carries(x, "first") /\ x.incarnation = k
      /\ CycleFree(c) => OneCycle(new)
      /\ OneThird(new)
      /\ IsFiniteSet(Asked(new))
      /\ Cardinality(Asked(new)) <= Cardinality(Asked(c))
  BY <1>1, <1>2, <1>3, <1>4, <1>5, <1>6, OneFirst
<1> HIDE DEF x, new
<1>10. k + Cardinality(Asked(channel')) <= 2 * faults'
  <2>1. Cardinality(Asked(new)) \in Nat /\ Cardinality(Asked(c)) \in Nat
    BY <1>4, <1>9, FS_CardinalityType
  <2> QED BY <1>1, <1>4, <1>8, <1>9, <2>1, CardAsked DEF k
<1>11. \A l \in Link : \A y \in On(channel', l) :
           y \in On(channel, l) \/ (l = <<0, Peer(0)>> /\ Carries(y, "first") /\ y.incarnation \in Done + 1 .. k)
  BY <1>1, <1>3, <1>6, <1>8, <1>9, ShorterOn
<1>12. faults' \in 0 .. MaxFaults  BY DEF RecoveryInv, Types
<1> QED BY <1>5, <1>6, <1>7, <1>8, <1>9, <1>10, <1>11, <1>12, MasterStarts
-----------------------------------------------------------------------------
(* A token is passed on *)

LEMMA MinOfTwo ==
    ASSUME NEW a \in Nat, NEW b \in Nat
    PROVE  Min({a, b}) \in {a, b} /\ Min({a, b}) <= a /\ Min({a, b}) <= b
<1>1. \E x \in {a, b} : \A y \in {a, b} : x <= y
  <2>1. CASE a <= b  BY <2>1
  <2>2. CASE b <= a  BY <2>2
  <2> QED BY <2>1, <2>2
<1> QED BY <1>1 DEF Min

LEMMA GrownCycle ==
    ASSUME RecoveryInv, NEW c, NEW k \in Link, NEW x, Grown(c, {k}, x), IsCycle(x),
           incarnation[0] = Done + 1 => CycleFree(c)
    PROVE  /\ incarnation[0] = Done + 1 => OneCycle(channel')
           /\ OneThird(channel')
           /\ IsFiniteSet(Asked(channel'))
           /\ Cardinality(Asked(channel')) <= Cardinality(Asked(channel))
<1>1. channel \in Channels /\ c \in Channels  BY GrownIs DEF RecoveryInv, Types
<1>2. ~Carries(x, "third") /\ ~Carries(x, "toMaster")  BY DEF IsCycle, Carries
<1>3. x \in MessageType /\ {k} \in SUBSET Link /\ channel' = AppendTo(c, {k}, x) /\ Shorter(c, channel)
  BY DEF Grown
<1>4. CycleFree(c) => OneCycle(channel')  BY <1>1, <1>3, AppendNewCycle
<1>5. OneThird(channel')
  BY <1>1, <1>2, <1>3, ShorterOneThird, AppendOneThird DEF RecoveryInv, OneThirdInv
<1>6. IsFiniteSet(Asked(c)) /\ Cardinality(Asked(c)) <= Cardinality(Asked(channel))
  BY <1>1, <1>3, ShorterAsked, CardAsked
<1>7. IsFiniteSet(Asked(channel')) /\ Cardinality(Asked(channel')) <= Cardinality(Asked(c))
  BY <1>1, <1>2, <1>3, <1>6, AppendAsked
<1>8. /\ Cardinality(Asked(c)) \in Nat /\ Cardinality(Asked(channel)) \in Nat
      /\ Cardinality(Asked(channel')) \in Nat
  BY <1>6, <1>7, FS_CardinalityType, CardAsked
<1> QED BY <1>4, <1>5, <1>6, <1>7, <1>8

\* What is left after a token of a cycle has been taken and m has drained.
LEMMA DrainedCycle ==
    ASSUME RecoveryInv, NEW m \in Manager, NEW p \in Manager, p # m, Arrives(m, p),
           IsCycle(Message(m, p)), NEW i, NEW d \in Drains(Taken(m, p), m, i)
    PROVE  /\ Shorter(Left(Taken(m, p), m, d), channel)
           /\ Left(Taken(m, p), m, d) \in Channels
           /\ incarnation[0] = Done + 1 => CycleFree(Left(Taken(m, p), m, d))
<1> DEFINE c == Taken(m, p)
           b == Left(c, m, d)
<1>1. channel \in Channels  BY DEF RecoveryInv, Types
<1>2. Shorter(c, channel) /\ c \in Channels  BY <1>1, TakenShorter DEF Shorter
<1>3. Shorter(b, c) /\ b \in Channels  BY <1>2, LeftShorter DEF Shorter
<1>4. Shorter(b, channel)
  <2> HIDE DEF b, c
  <2> QED BY <1>1, <1>2, <1>3, ShorterTrans
<1>5. ASSUME incarnation[0] = Done + 1
      PROVE  CycleFree(b)
  <2>1. CycleFree(c)  BY <1>1, <1>5, TakenCycle DEF RecoveryInv, OneCycleInv
  <2> HIDE DEF b, c
  <2> QED BY <1>2, <1>3, <2>1, ShorterOn DEF CycleFree
<1> QED BY <1>3, <1>4, <1>5

\* The step of a token: the managers stay where they are, except perhaps one
\* that enters the recovery.
LEMMA TokenChannels ==
    ASSUME RecoveryInv, NEW c, NEW k \in Link, NEW x, Grown(c, {k}, x), IsCycle(x),
           incarnation[0] = Done + 1 => CycleFree(c),
           UNCHANGED <<last, restored, faults, sent>>,
           incarnation'[0] = incarnation[0]
    PROVE  OneCycleInv' /\ OneThirdInv' /\ AskedInv'
<1>1. /\ incarnation[0] = Done + 1 => OneCycle(channel')
      /\ OneThird(channel')
      /\ IsFiniteSet(Asked(channel'))
      /\ Cardinality(Asked(channel')) <= Cardinality(Asked(channel))
  BY GrownCycle
<1>2. Done' = Done  BY DEF Done
<1>3. OneCycleInv' /\ OneThirdInv'
  BY <1>1, <1>2 DEF OneCycleInv, OneThirdInv
<1>4. Cardinality(Asked(channel')) \in Nat  BY <1>1, FS_CardinalityType
<1>5. incarnation'[0] + Cardinality(Asked(channel')) <= 2 * faults'
  BY <1>1, <1>4, CardAsked
<1>6. /\ channel' \in Channels
      /\ \A l \in Link : \A y \in On(channel', l) : y \in On(channel, l) \/ ~Carries(y, "toMaster")
  BY GrownIs DEF RecoveryInv, Types, IsCycle, Carries
<1>7. incarnation'[0] \in Nat /\ incarnation[0] <= incarnation'[0]  BY CardAsked
<1>8. AskedInv'  BY <1>1, <1>5, <1>6, <1>7, AskedStep
<1> QED BY <1>3, <1>8

LEMMA FirstAtMasterInv ==
    ASSUME RecoveryInv, NEW p \in Manager, p # 0, Routed(0, p), Carries(Message(0, p), "first"),
           recovering[0], FirstAtMaster(Taken(0, p), Message(0, p)), UNCHANGED <<faults, sent>>
    PROVE  RecoveryInv'
<1> DEFINE msg == Message(0, p)
           k == <<0, Peer(0)>>
           cp == Min({last[0], msg.checkpoint})
           x == RestoreCkpt("second", cp, incarnation[0])
<1>1. /\ channel \in Channels /\ 0 \in Manager /\ Arrives(0, p) /\ ~Dropped(0, msg)
      /\ Done \in Nat /\ incarnation[0] \in Nat
      /\ k \in Link /\ Peer(0) \in Manager /\ Peer(0) # 0 /\ <<p, 0>> \in Link
  BY Standing, PeerOf, LinkEnds DEF RecoveryInv, Types, Routed
<1>2. msg \in MessageType /\ msg.checkpoint \in 0 .. MaxCheckpoint /\ msg.incarnation \in Nat
      /\ msg \in On(channel, <<p, 0>>) /\ IsCycle(msg)
  BY <1>1, TakenShorterBy, MessageParts DEF Carries, IsCycle
<1>3. /\ msg.incarnation = Done + 1 /\ msg.incarnation <= incarnation[0]
      /\ Peer(p) = 0
      /\ \A s \in 1 .. p : Entered(s)
  BY <1>1, <1>2 DEF RecoveryInv, FirstInv
<1>4. incarnation[0] = Done + 1
  <2>1. inRecovery[0]  BY <1>1 DEF RecoveryInv, Stopped
  <2>2. ~(msg.incarnation < incarnation[0])  BY <1>1, <2>1 DEF Dropped
  <2> QED BY <1>1, <1>2, <1>3, <2>2
<1>5. \A s \in Manager : Entered(s)
  <2>1. p = N - 1  BY <1>3, PeerOf
  <2>2. \A s \in Manager : s = 0 \/ s \in 1 .. N - 1  BY Numbers DEF Manager
  <2> QED BY <1>3, <1>4, <2>1, <2>2 DEF Entered
<1>6. cp \in 0 .. MaxCheckpoint /\ cp <= last[0]
  <2>1. last[0] \in 0 .. MaxCheckpoint  BY <1>1 DEF RecoveryInv, Types
  <2>2. last[0] \in Nat /\ msg.checkpoint \in Nat  BY <1>2, <2>1, Numbers
  <2> HIDE DEF msg
  <2>3. cp \in {last[0], msg.checkpoint} /\ cp <= last[0]  BY <2>2, MinOfTwo
  <2> QED BY <1>2, <2>1, <2>3
<1> HIDE DEF cp
<1>7. /\ x \in MessageType /\ Carries(x, "second") /\ x.incarnation = incarnation[0]
      /\ x.checkpoint = cp /\ IsCycle(x) /\ ~IsEvent(x)
  BY <1>1, <1>6, RestoreCkptIs DEF Token
<1>8. PICK d \in Drains(Taken(0, p), 0, incarnation[0]) :
          channel' = Sent(Left(Taken(0, p), 0, d), 0, Peer(0), x)
  BY DEF FirstAtMaster, cp
<1> DEFINE c == Left(Taken(0, p), 0, d)
<1>9. Shorter(c, channel) /\ c \in Channels /\ CycleFree(c)
  BY <1>1, <1>2, <1>4, DrainedCycle
<1>10. /\ UNCHANGED <<inRecovery, recovering, incarnation, last, restored, faults, sent>>
       /\ events' = [events EXCEPT ![0] = {}]
  BY DEF FirstAtMaster, Purged
<1> HIDE DEF c, x, msg
<1>11. Grown(c, {k}, x)
  BY <1>1, <1>7, <1>8, <1>9, SentIs DEF Grown, c
<1>12. /\ channel' \in Channels
       /\ \A l \in Link : \A y \in On(channel', l) : y \in On(channel, l) \/ (l = k /\ y = x)
  BY <1>11, <1>1, GrownIs
<1>13. Done' = Done  BY <1>10 DEF Done
<1>14. Types'
  BY <1>10, <1>12 DEF RecoveryInv, Types
<1>15. Stopped' /\ MasterInv' /\ SlaveInv' /\ PrefixInv'
  BY <1>10, <1>13 DEF RecoveryInv, Stopped, MasterInv, SlaveInv, PrefixInv
<1>16. EventInv'
  <2>1. events \in [Manager -> SUBSET Nat]  BY DEF RecoveryInv, Types
  <2> QED BY <1>7, <1>10, <1>12, <1>13, <2>1 DEF RecoveryInv, EventInv
<1>17. FirstInv'
  BY <1>7, <1>10, <1>12, <1>13 DEF RecoveryInv, FirstInv, Carries, Entered
<1>18. SecondInv'
  <2> SUFFICES ASSUME NEW l \in Link, NEW y \in On(channel', l), Carries(y, "second")
               PROVE  /\ recovering[0]
                      /\ l[2] = Peer(l[1])
                      /\ y.incarnation = incarnation[0]
                      /\ \A s \in Manager : Entered(s)
                      /\ \A s \in 0 .. l[1] : y.checkpoint <= last[s]
    BY <1>10, <1>13 DEF SecondInv, Entered
  <2>1. CASE y \in On(channel, l)
    BY <2>1 DEF RecoveryInv, SecondInv
  <2>2. CASE l = k /\ y = x
    <3>1. l[1] = 0 /\ l[2] = Peer(0)  BY <2>2
    <3>2. \A s \in 0 .. 0 : s = 0  OBVIOUS
    <3> QED BY <1>5, <1>6, <1>7, <2>2, <3>1, <3>2
  <2> QED BY <1>12, <2>1, <2>2
<1>19. ThirdInv'
  BY <1>7, <1>10, <1>12, <1>13 DEF RecoveryInv, ThirdInv, Carries
<1>20. OneCycleInv' /\ OneThirdInv' /\ AskedInv'
  BY <1>1, <1>7, <1>9, <1>10, <1>11, TokenChannels
<1> QED BY <1>14, <1>15, <1>16, <1>17, <1>18, <1>19, <1>20 DEF RecoveryInv

\* What a drain lets through are events of no earlier incarnation than i.
LEMMA AcceptedEvents ==
    ASSUME NEW ch \in Channels, NEW m \in Manager, NEW i \in Nat, NEW d \in Drains(ch, m, i),
           NEW e \in Accepted(ch, m, i, d)
    PROVE  /\ e \in Nat /\ e >= i
           /\ \E l \in Link : \E x \in On(ch, l) : IsEvent(x) /\ x.incarnation = e
<1>1. PICK p \in Others(m) : e \in {ch[<<p, m>>][j].incarnation : j \in 1 .. d[p]}
  BY DEF Accepted
<1>2. PICK j \in 1 .. d[p] : e = ch[<<p, m>>][j].incarnation  BY <1>1
<1>3. e \notin 0 .. i - 1  BY DEF Accepted
<1>4. <<p, m>> \in Link  BY LinkEnds DEF Others
<1>5. d[p] \in Nat /\ d[p] <= Len(ch[<<p, m>>])
  <2> DEFINE b == Max({Len(ch[<<q, m>>]) : q \in Others(m)})
  <2>1. d \in [Others(m) -> 0 .. b] /\ d[p] <= Len(ch[<<p, m>>])  BY DEF Drains
  <2> HIDE DEF b
  <2> QED BY <2>1
<1> DEFINE x == ch[<<p, m>>][j]
<1>6. j \in 1 .. Len(ch[<<p, m>>])
  <2>1. Len(ch[<<p, m>>]) \in Nat  BY <1>4 DEF Channels
  <2> QED BY <1>5, <2>1
<1>7. x \in On(ch, <<p, m>>) /\ x \in MessageType
  <2>1. x \in On(ch, <<p, m>>)  BY <1>6 DEF On
  <2> QED BY <1>4, <2>1, OnTyped
<1>8. e \in Nat  BY <1>2, <1>7, MessageParts
<1>9. x.type = "event" \/ x.incarnation < i  BY DEF Drains
<1>10. e >= i /\ IsEvent(x)
  <2>1. e >= i  BY <1>3, <1>8
  <2> QED BY <1>2, <1>8, <1>9, <2>1 DEF IsEvent
<1> QED BY <1>2, <1>4, <1>7, <1>8, <1>10

LEMMA SecondAtSlaveInv ==
    ASSUME RecoveryInv, NEW m \in Slave, NEW p \in Manager, p # m, Routed(m, p),
           Carries(Message(m, p), "second"), recovering[m],
           SecondAtSlave(m, Taken(m, p), Message(m, p)), UNCHANGED <<faults, sent>>
    PROVE  RecoveryInv'
<1> DEFINE msg == Message(m, p)
           k == <<m, Peer(m)>>
           cp == OwnCheckpoint(m, msg)
           x == RestoreCkpt("second", cp, incarnation[m])
<1>1. /\ channel \in Channels /\ m \in Manager /\ m # 0 /\ Arrives(m, p)
      /\ Done \in Nat /\ incarnation[m] \in Nat
      /\ k \in Link /\ Peer(m) \in Manager /\ Peer(m) # m /\ <<p, m>> \in Link
  BY Standing, PeerOf, LinkEnds DEF RecoveryInv, Types, Routed
<1>2. msg \in MessageType /\ msg.checkpoint \in 0 .. MaxCheckpoint
      /\ msg \in On(channel, <<p, m>>) /\ IsCycle(msg)
  BY <1>1, TakenShorterBy, MessageParts DEF Carries, IsCycle
<1>3. /\ recovering[0] /\ Peer(p) = m
      /\ \A s \in Manager : Entered(s)
      /\ \A s \in 0 .. p : msg.checkpoint <= last[s]
  BY <1>1, <1>2 DEF RecoveryInv, SecondInv
<1>4. incarnation[0] = Done + 1 /\ incarnation[m] = Done + 1
  BY <1>1, <1>3, Standing DEF Entered
<1>5. /\ cp \in 0 .. MaxCheckpoint
      /\ \A s \in 0 .. m : cp <= last[s]
  <2>1. \A s \in Manager : last[s] \in 0 .. MaxCheckpoint  BY DEF RecoveryInv, Types
  <2>2. last[m] \in Nat /\ msg.checkpoint \in Nat  BY <1>1, <1>2, <2>1, Numbers
  <2> HIDE DEF msg
  <2>3. /\ cp \in {last[m], msg.checkpoint} /\ cp <= last[m] /\ cp <= msg.checkpoint
    BY <2>2, MinOfTwo DEF OwnCheckpoint
  <2>4. cp \in 0 .. MaxCheckpoint  BY <1>1, <1>2, <2>1, <2>3
  <2> HIDE DEF cp
  <2>5. m = p + 1 /\ m \in Nat /\ p \in Nat  BY <1>1, <1>3, PeerOf, Numbers DEF Manager
  <2>6. \A s \in 0 .. m : s = m \/ s \in 0 .. p  BY <2>5
  <2>7. \A s \in 0 .. p : s \in Manager  BY Numbers DEF Manager
  <2>8. ASSUME NEW s \in 0 .. p  PROVE cp <= last[s]
    <3>1. msg.checkpoint <= last[s] /\ last[s] \in Nat  BY <1>3, <2>1, <2>7, Numbers
    <3> QED BY <2>2, <2>3, <3>1
  <2> QED BY <2>3, <2>4, <2>6, <2>8
<1> HIDE DEF cp
<1>6. /\ x \in MessageType /\ Carries(x, "second") /\ x.incarnation = incarnation[m]
      /\ x.checkpoint = cp /\ IsCycle(x) /\ ~IsEvent(x)
  BY <1>1, <1>5, RestoreCkptIs DEF Token
<1>7. PICK d \in Drains(Taken(m, p), m, incarnation[m]) :
          /\ channel' = Sent(Left(Taken(m, p), m, d), m, Peer(m), x)
          /\ events' = [events EXCEPT ![m] = @ \cup Accepted(Taken(m, p), m, incarnation[m], d)]
  BY DEF SecondAtSlave, cp
<1> DEFINE c == Left(Taken(m, p), m, d)
<1>8. Shorter(c, channel) /\ c \in Channels /\ CycleFree(c)
  BY <1>1, <1>2, <1>4, DrainedCycle
<1>9. UNCHANGED <<inRecovery, recovering, incarnation, last, restored, faults, sent>>
  BY DEF SecondAtSlave
<1> HIDE DEF c, x, msg
<1>10. Grown(c, {k}, x)
  BY <1>1, <1>6, <1>7, <1>8, SentIs DEF Grown, c
<1>11. /\ channel' \in Channels
       /\ \A l \in Link : \A y \in On(channel', l) : y \in On(channel, l) \/ (l = k /\ y = x)
  BY <1>10, <1>1, GrownIs
<1>12. Done' = Done  BY <1>9 DEF Done
<1>13. /\ events' \in [Manager -> SUBSET Nat]
       /\ \A q \in Manager : \A i \in events'[q] : i <= Done
  <2> DEFINE A == Accepted(Taken(m, p), m, incarnation[m], d)
  <2>1. Shorter(Taken(m, p), channel) /\ Taken(m, p) \in Channels
    BY <1>1, TakenShorter DEF Shorter
  <2>2. ASSUME NEW e \in A  PROVE e \in Nat /\ e <= Done
    <3>1. /\ e \in Nat
          /\ \E l \in Link : \E y \in On(Taken(m, p), l) : IsEvent(y) /\ y.incarnation = e
      BY <1>1, <2>1, AcceptedEvents
    <3>2. \A l \in Link : On(Taken(m, p), l) \subseteq On(channel, l)  BY <1>1, <2>1, ShorterOn
    <3> QED BY <3>1, <3>2 DEF RecoveryInv, EventInv
  <2> HIDE DEF A
  <2>3. events \in [Manager -> SUBSET Nat] /\ \A q \in Manager : \A i \in events[q] : i <= Done
    BY DEF RecoveryInv, Types, EventInv
  <2>4. events' = [events EXCEPT ![m] = @ \cup A]  BY <1>7 DEF A
  <2> QED BY <1>1, <2>2, <2>3, <2>4
<1>14. Types'
  BY <1>9, <1>11, <1>13 DEF RecoveryInv, Types
<1>15. Stopped' /\ MasterInv' /\ SlaveInv' /\ PrefixInv'
  BY <1>9, <1>12 DEF RecoveryInv, Stopped, MasterInv, SlaveInv, PrefixInv
<1>16. EventInv'
  BY <1>6, <1>9, <1>11, <1>12, <1>13 DEF RecoveryInv, EventInv
<1>17. FirstInv'
  BY <1>6, <1>9, <1>11, <1>12 DEF RecoveryInv, FirstInv, Carries, Entered
<1>18. SecondInv'
  <2> SUFFICES ASSUME NEW l \in Link, NEW y \in On(channel', l), Carries(y, "second")
               PROVE  /\ recovering[0]
                      /\ l[2] = Peer(l[1])
                      /\ y.incarnation = incarnation[0]
                      /\ \A s \in Manager : Entered(s)
                      /\ \A s \in 0 .. l[1] : y.checkpoint <= last[s]
    BY <1>9, <1>12 DEF SecondInv, Entered
  <2>1. CASE y \in On(channel, l)
    BY <2>1 DEF RecoveryInv, SecondInv
  <2>2. CASE l = k /\ y = x
    <3>1. l[1] = m /\ l[2] = Peer(m)  BY <2>2
    <3> QED BY <1>3, <1>4, <1>5, <1>6, <2>2, <3>1
  <2> QED BY <1>11, <2>1, <2>2
<1>19. ThirdInv'
  BY <1>6, <1>9, <1>11, <1>12 DEF RecoveryInv, ThirdInv, Carries
<1>20. OneCycleInv' /\ OneThirdInv' /\ AskedInv'
  BY <1>1, <1>6, <1>8, <1>9, <1>10, TokenChannels
<1> QED BY <1>14, <1>15, <1>16, <1>17, <1>18, <1>19, <1>20 DEF RecoveryInv

LEMMA FirstAtSlaveInv ==
    ASSUME RecoveryInv, NEW m \in Slave, NEW p \in Manager, p # m, Routed(m, p),
           Carries(Message(m, p), "first"), ~recovering[m],
           FirstAtSlave(m, Taken(m, p), Message(m, p)), UNCHANGED <<faults, sent>>
    PROVE  RecoveryInv'
<1> DEFINE msg == Message(m, p)
           k == <<m, Peer(m)>>
           i == incarnation[m] + 1
           x == RestoreCkpt("first", msg.checkpoint, i)
<1>1. /\ channel \in Channels /\ m \in Manager /\ m # 0 /\ Arrives(m, p) /\ 0 \in Manager
      /\ Done \in Nat /\ incarnation[m] = Done /\ Len(restored[m]) = Done
      /\ k \in Link /\ Peer(m) \in Manager /\ Peer(m) # m /\ <<p, m>> \in Link
      /\ i = Done + 1
  BY Standing, PeerOf, LinkEnds DEF RecoveryInv, Types, Routed
<1>2. msg \in MessageType /\ msg.checkpoint \in 0 .. MaxCheckpoint
      /\ msg \in On(channel, <<p, m>>) /\ IsCycle(msg)
  BY <1>1, TakenShorterBy, MessageParts DEF Carries, IsCycle
<1>3. /\ recovering[0] /\ Peer(p) = m
      /\ \A s \in 1 .. p : Entered(s)
  BY <1>1, <1>2 DEF RecoveryInv, FirstInv
<1>4. incarnation[0] \in {Done + 1, Done + 2}
  BY <1>3 DEF RecoveryInv, MasterInv
<1> HIDE DEF i
<1>5. /\ x \in MessageType /\ Carries(x, "first") /\ x.incarnation = i
      /\ IsCycle(x) /\ ~IsEvent(x)
  BY <1>1, <1>2, RestoreCkptIs DEF Token
<1>6. PICK d \in Drains(Taken(m, p), m, i) :
          channel' = Sent(Left(Taken(m, p), m, d), m, Peer(m), x)
  BY DEF FirstAtSlave, i
<1> DEFINE c == Left(Taken(m, p), m, d)
<1>7. Shorter(c, channel) /\ c \in Channels /\ (incarnation[0] = Done + 1 => CycleFree(c))
  BY <1>1, <1>2, DrainedCycle
<1>8. /\ UNCHANGED <<last, restored, faults, sent>>
      /\ inRecovery' = [inRecovery EXCEPT ![m] = TRUE]
      /\ recovering' = [recovering EXCEPT ![m] = TRUE]
      /\ incarnation' = [incarnation EXCEPT ![m] = i]
      /\ events' = [events EXCEPT ![m] = {}]
  BY DEF FirstAtSlave, Stop, Purged, i
<1> HIDE DEF c, x, msg
<1>9. Grown(c, {k}, x)
  BY <1>1, <1>5, <1>6, <1>7, SentIs DEF Grown, c
<1>10. /\ channel' \in Channels
       /\ \A l \in Link : \A y \in On(channel', l) : y \in On(channel, l) \/ (l = k /\ y = x)
  BY <1>9, <1>1, GrownIs
<1>11. /\ recovering \in [Manager -> BOOLEAN] /\ inRecovery \in [Manager -> BOOLEAN]
       /\ incarnation \in [Manager -> Nat] /\ events \in [Manager -> SUBSET Nat]
  BY DEF RecoveryInv, Types
<1>12. /\ recovering'[m] = TRUE /\ inRecovery'[m] = TRUE /\ incarnation'[m] = Done + 1
       /\ \A q \in Manager : q # m => /\ recovering'[q] = recovering[q]
                                      /\ inRecovery'[q] = inRecovery[q]
                                      /\ incarnation'[q] = incarnation[q]
       /\ recovering'[0] = recovering[0] /\ incarnation'[0] = incarnation[0]
  BY <1>1, <1>8, <1>11
<1>13. Done' = Done  BY <1>8 DEF Done
<1>14. Types'
  <2>1. i \in Nat  BY <1>1
  <2> QED BY <1>8, <1>10, <1>11, <2>1 DEF RecoveryInv, Types
<1>15. Stopped'
  BY <1>12 DEF RecoveryInv, Stopped
<1>16. MasterInv'
  BY <1>12, <1>13 DEF RecoveryInv, MasterInv
<1>17. SlaveInv'
  <2> SUFFICES ASSUME NEW s \in Slave
               PROVE  /\ recovering'[s] => incarnation'[s] = Len(restored[s]) + 1
                      /\ ~recovering'[s] => incarnation'[s] = Len(restored[s])
                      /\ Len(restored[s]) <= Done
                      /\ incarnation'[s] >= Done
                      /\ ~recovering'[0] => incarnation'[s] = Done
    BY <1>8, <1>13 DEF SlaveInv
  <2>1. CASE s = m  BY <1>1, <1>3, <1>12, <2>1
  <2>2. CASE s # m
    <3>1. s \in Manager  BY Standing
    <3> QED BY <1>12, <2>2, <3>1 DEF RecoveryInv, SlaveInv
  <2> QED BY <2>1, <2>2
<1>18. PrefixInv'
  BY <1>8 DEF RecoveryInv, PrefixInv
<1>19. EventInv'
  BY <1>5, <1>8, <1>10, <1>11, <1>13 DEF RecoveryInv, EventInv
<1>20. \A s \in Manager : Entered(s) => Entered(s)'
  BY <1>12, <1>13 DEF Entered
<1>21. FirstInv'
  <2> SUFFICES ASSUME NEW l \in Link, NEW y \in On(channel', l), Carries(y, "first")
               PROVE  /\ recovering[0]
                      /\ l[2] = Peer(l[1])
                      /\ y.incarnation \in Done + 1 .. incarnation[0]
                      /\ l[1] # 0 => y.incarnation = Done + 1
                      /\ \A s \in 1 .. l[1] : Entered(s)'
    BY <1>12, <1>13 DEF FirstInv
  <2>1. l[1] \in Manager /\ \A s \in 1 .. l[1] : s \in Manager  BY LinkEnds, Numbers DEF Manager
  <2>2. CASE y \in On(channel, l)
    BY <1>20, <2>1, <2>2 DEF RecoveryInv, FirstInv
  <2>3. CASE l = k /\ y = x
    <3>1. l[1] = m /\ l[2] = Peer(m)  BY <2>3
    <3>2. m = p + 1 /\ p \in Nat  BY <1>1, <1>3, PeerOf, Numbers DEF Manager
    <3>3. \A s \in 1 .. m : s = m \/ s \in 1 .. p  BY <3>2
    <3>4. Entered(m)'  BY <1>12, <1>13 DEF Entered
    <3>5. \A s \in 1 .. m : Entered(s)'  BY <1>3, <1>20, <2>1, <3>1, <3>3, <3>4
    <3>6. y.incarnation = Done + 1 /\ Done + 1 \in Done + 1 .. incarnation[0]
      BY <1>1, <1>4, <1>5, <2>3
    <3> QED BY <1>3, <3>1, <3>5, <3>6
  <2> QED BY <1>10, <2>2, <2>3
<1>22. SecondInv'
  <2>1. ~Entered(m)  BY <1>1 DEF Entered
  <2>2. \A l \in Link : \A y \in On(channel, l) : ~Carries(y, "second")
    BY <1>1, <2>1 DEF RecoveryInv, SecondInv
  <2> QED BY <1>5, <1>10, <2>2 DEF SecondInv, Carries
<1>23. ThirdInv'
  <2> SUFFICES ASSUME NEW l \in Link, NEW y \in On(channel', l), Carries(y, "third")
               PROVE  /\ l[1] = 0
                      /\ Done > 0
                      /\ y.incarnation = Done
                      /\ incarnation'[l[2]] = Done
                      /\ recovering'[l[2]]
                      /\ y.checkpoint = restored[0][Done]
                      /\ y.checkpoint <= last[l[2]]
    BY <1>8, <1>13 DEF ThirdInv
  <2>1. y \in On(channel, l)  BY <1>5, <1>10 DEF Carries
  <2>2. /\ l[1] = 0 /\ Done > 0 /\ y.incarnation = Done
        /\ incarnation[l[2]] = Done
        /\ recovering[l[2]]
        /\ y.checkpoint = restored[0][Done]
        /\ y.checkpoint <= last[l[2]]
    BY <2>1 DEF RecoveryInv, ThirdInv
  <2>3. l[2] \in Manager /\ l[2] # m  BY <2>2, LinkEnds
  <2> QED BY <1>12, <2>2, <2>3
<1>24. OneCycleInv' /\ OneThirdInv' /\ AskedInv'
  BY <1>1, <1>5, <1>7, <1>8, <1>9, <1>12, TokenChannels
<1> QED BY <1>14, <1>15, <1>16, <1>17, <1>18, <1>19, <1>21, <1>22, <1>23, <1>24 DEF RecoveryInv
-----------------------------------------------------------------------------
(* A recovery ends *)

LEMMA SecondAtMasterFacts ==
    ASSUME RecoveryInv, NEW p \in Manager, p # 0, Routed(0, p), Carries(Message(0, p), "second")
    PROVE  /\ recovering[0] /\ incarnation[0] = Done + 1
           /\ \A s \in Manager : Entered(s)
           /\ \A s \in Manager : Message(0, p).checkpoint <= last[s]
           /\ Message(0, p).checkpoint \in 0 .. MaxCheckpoint
           /\ CycleFree(Taken(0, p))
           /\ \A l \in Link : \A y \in On(channel, l) : ~Carries(y, "third")
<1> DEFINE msg == Message(0, p)
<1>1. /\ channel \in Channels /\ 0 \in Manager /\ Arrives(0, p)
      /\ Done \in Nat /\ <<p, 0>> \in Link
  BY Standing, LinkEnds DEF RecoveryInv, Types, Routed
<1>2. msg \in MessageType /\ msg.checkpoint \in 0 .. MaxCheckpoint
      /\ msg \in On(channel, <<p, 0>>) /\ IsCycle(msg)
  BY <1>1, TakenShorterBy, MessageParts DEF Carries, IsCycle
<1>3. /\ recovering[0] /\ Peer(p) = 0
      /\ \A s \in Manager : Entered(s)
      /\ \A s \in 0 .. p : msg.checkpoint <= last[s]
  BY <1>1, <1>2 DEF RecoveryInv, SecondInv
<1>4. incarnation[0] = Done + 1  BY <1>1, <1>3 DEF Entered
<1>5. \A s \in Manager : msg.checkpoint <= last[s]
  <2>1. p = N - 1  BY <1>3, PeerOf
  <2>2. \A s \in Manager : s \in 0 .. p  BY <2>1 DEF Manager
  <2> QED BY <1>3, <2>2
<1>6. CycleFree(Taken(0, p))
  BY <1>1, <1>2, <1>4, TakenCycle DEF RecoveryInv, OneCycleInv
<1>7. ASSUME NEW l \in Link, NEW y \in On(channel, l), Carries(y, "third")
      PROVE  FALSE
  <2>1. incarnation[l[2]] = Done  BY <1>7 DEF RecoveryInv, ThirdInv
  <2>2. l[2] \in Manager  BY LinkEnds
  <2>3. incarnation[l[2]] = Done + 1  BY <1>3, <2>2 DEF Entered
  <2> QED BY <1>1, <2>1, <2>3
<1> QED BY <1>2, <1>3, <1>4, <1>5, <1>6, <1>7

LEMMA ThirdIs ==
    ASSUME NEW ch \in Channels, NEW c
    PROVE  Third(ch, c) =
               AppendTo(ch, {l \in Link : l[1] = 0}, RestoreCkpt("third", c, incarnation[0]))
BY DEF Third, AppendTo

\* What restoreCheckpoint() sends, and what the restore sets.
LEMMA RestoreIs ==
    ASSUME NEW m \in Manager, NEW ch \in Channels, NEW c, NEW D \in SUBSET Manager, Restore(m, ch, c, D)
    PROVE  /\ channel' = AppendTo(ch, {l \in Link : l[1] = m /\ l[2] \in D}, EventMessage(incarnation[m]))
           /\ inRecovery' = [inRecovery EXCEPT ![m] = FALSE]
           /\ recovering' = [recovering EXCEPT ![m] = FALSE]
           /\ last' = [last EXCEPT ![m] = c]
           /\ restored' = [restored EXCEPT ![m] = Append(@, c)]
           /\ UNCHANGED <<incarnation, events>>
BY DEF Restore, AppendTo

LEMMA RestoredAppend ==
    ASSUME Types, NEW m \in Manager, NEW c \in 0 .. MaxCheckpoint,
           restored' = [restored EXCEPT ![m] = Append(@, c)]
    PROVE  /\ restored' \in [Manager -> Seq(0 .. MaxCheckpoint)]
           /\ Len(restored[m]) \in Nat
           /\ Len(restored'[m]) = Len(restored[m]) + 1
           /\ restored'[m][Len(restored[m]) + 1] = c
           /\ \A i \in 1 .. Len(restored[m]) : restored'[m][i] = restored[m][i]
           /\ \A q \in Manager : q # m => restored'[q] = restored[q]
           /\ LastRestored(m)' = c
<1>1. restored \in [Manager -> Seq(0 .. MaxCheckpoint)]  BY DEF Types
<1>2. restored[m] \in Seq(0 .. MaxCheckpoint) /\ restored'[m] = Append(restored[m], c)  BY <1>1
<1>3. /\ Len(restored[m]) \in Nat
      /\ Len(restored'[m]) = Len(restored[m]) + 1
      /\ restored'[m][Len(restored[m]) + 1] = c
      /\ \A i \in 1 .. Len(restored[m]) : restored'[m][i] = restored[m][i]
  BY <1>2
<1>4. LastRestored(m)' = c
  <2>1. restored'[m] # <<>>  BY <1>2
  <2> QED BY <1>3, <2>1 DEF LastRestored
<1>5. restored' \in [Manager -> Seq(0 .. MaxCheckpoint)] /\ \A q \in Manager : q # m => restored'[q] = restored[q]
  BY <1>1
<1> QED BY <1>3, <1>4, <1>5

LEMMA SecondAtMasterInv ==
    ASSUME RecoveryInv, NEW p \in Manager, p # 0, Routed(0, p), Carries(Message(0, p), "second"),
           SecondAtMaster(Taken(0, p), Message(0, p)), UNCHANGED <<faults, sent>>
    PROVE  RecoveryInv'
<1> DEFINE msg == Message(0, p)
           cp == msg.checkpoint
           x == RestoreCkpt("third", cp, incarnation[0])
           e == EventMessage(incarnation[0])
           c == Taken(0, p)
           mid == Third(c, cp)
           F == {l \in Link : l[1] = 0}
<1>1. /\ channel \in Channels /\ 0 \in Manager /\ 0 \notin Slave /\ Slave \subseteq Manager
      /\ Arrives(0, p) /\ Done \in Nat /\ incarnation[0] \in Nat
  BY Standing DEF RecoveryInv, Types, Routed
<1>2. /\ recovering[0] /\ incarnation[0] = Done + 1
      /\ \A s \in Manager : Entered(s)
      /\ \A s \in Manager : cp <= last[s]
      /\ cp \in 0 .. MaxCheckpoint
      /\ CycleFree(c)
      /\ \A l \in Link : \A y \in On(channel, l) : ~Carries(y, "third")
  BY SecondAtMasterFacts
<1> HIDE DEF msg, cp
<1>3. /\ x \in MessageType /\ Carries(x, "third") /\ x.incarnation = Done + 1 /\ x.checkpoint = cp
      /\ ~IsCycle(x) /\ ~IsEvent(x) /\ ~Carries(x, "toMaster")
  BY <1>1, <1>2, RestoreCkptIs DEF Token
<1>4. /\ e \in MessageType /\ IsEvent(e) /\ e.incarnation = Done + 1
      /\ ~IsCycle(e) /\ \A t : ~Carries(e, t)
  BY <1>1, <1>2, EventMessageIs
<1>5. PICK D \in SUBSET Slave : Restore(0, mid, cp, D)
  BY DEF SecondAtMaster, cp, msg
<1> DEFINE E == {l \in Link : l[1] = 0 /\ l[2] \in D}
<1>6. Shorter(c, channel) /\ c \in Channels /\ \A l \in Link : On(c, l) \subseteq On(channel, l)
  BY <1>1, TakenShorter, ShorterOn DEF Shorter
<1>7. mid = AppendTo(c, F, x) /\ F \in SUBSET Link /\ E \in SUBSET Link
  BY <1>6, ThirdIs
<1> HIDE DEF c, x, e, mid, F
<1>8. mid \in Channels  BY <1>3, <1>6, <1>7, AppendTyped
<1>9. /\ channel' = AppendTo(mid, E, e)
      /\ inRecovery' = [inRecovery EXCEPT ![0] = FALSE]
      /\ recovering' = [recovering EXCEPT ![0] = FALSE]
      /\ last' = [last EXCEPT ![0] = cp]
      /\ restored' = [restored EXCEPT ![0] = Append(@, cp)]
      /\ UNCHANGED <<incarnation, events, faults, sent>>
  <2>1. D \in SUBSET Manager  BY <1>1
  <2>2. /\ channel' = AppendTo(mid, E, EventMessage(incarnation[0]))
        /\ inRecovery' = [inRecovery EXCEPT ![0] = FALSE]
        /\ recovering' = [recovering EXCEPT ![0] = FALSE]
        /\ last' = [last EXCEPT ![0] = cp]
        /\ restored' = [restored EXCEPT ![0] = Append(@, cp)]
        /\ UNCHANGED <<incarnation, events>>
    BY ONLY <1>1, <1>5, <1>8, <2>1, RestoreIs
  <2> QED BY <2>2 DEF e
<1> HIDE DEF E
<1>10. channel' \in Channels  BY <1>4, <1>7, <1>8, <1>9, AppendTyped
<1>11. \A l \in Link : \A y \in On(channel', l) : y \in On(c, l) \/ (l \in F /\ y = x) \/ y = e
  BY <1>3, <1>4, <1>6, <1>7, <1>8, <1>9, AppendOn
<1>12. /\ restored' \in [Manager -> Seq(0 .. MaxCheckpoint)]
       /\ Done' = Done + 1
       /\ restored'[0][Done + 1] = cp
       /\ \A i \in 1 .. Done : restored'[0][i] = restored[0][i]
       /\ \A q \in Slave : restored'[q] = restored[q]
  BY <1>1, <1>2, <1>9, RestoredAppend DEF RecoveryInv, Done
<1>13. /\ recovering \in [Manager -> BOOLEAN] /\ inRecovery \in [Manager -> BOOLEAN]
       /\ last \in [Manager -> 0 .. MaxCheckpoint]
  BY DEF RecoveryInv, Types
<1>14. /\ recovering'[0] = FALSE
       /\ \A s \in Slave : /\ recovering'[s] = recovering[s] /\ inRecovery'[s] = inRecovery[s]
                           /\ last'[s] = last[s]
  BY <1>1, <1>9, <1>13
<1>15. \A l \in Link : \A y \in On(channel', l) : ~Carries(y, "first") /\ ~Carries(y, "second")
  BY <1>2, <1>3, <1>4, <1>11 DEF CycleFree, IsCycle
<1>16. Types'
  BY <1>2, <1>9, <1>10, <1>12, <1>13 DEF RecoveryInv, Types
<1>17. Stopped'
  BY <1>1, <1>14 DEF RecoveryInv, Stopped, Slave
<1>18. MasterInv'
  BY <1>2, <1>9, <1>12, <1>14 DEF MasterInv
<1>19. SlaveInv'
  <2> SUFFICES ASSUME NEW s \in Slave
               PROVE  /\ recovering'[s] => incarnation'[s] = Len(restored'[s]) + 1
                      /\ ~recovering'[s] => incarnation'[s] = Len(restored'[s])
                      /\ Len(restored'[s]) <= Done'
                      /\ incarnation'[s] >= Done'
                      /\ ~recovering'[0] => incarnation'[s] = Done'
    BY DEF SlaveInv
  <2>1. incarnation'[s] = Done + 1  BY <1>1, <1>2, <1>9 DEF Entered
  <2>2. restored'[s] = restored[s] /\ recovering'[s] = recovering[s]  BY <1>12, <1>14
  <2>3. recovering[s] /\ Len(restored[s]) = Done  BY <1>1, <1>2, Standing
  <2> QED BY <1>1, <1>12, <2>1, <2>2, <2>3
<1>20. PrefixInv'
  <2> SUFFICES ASSUME NEW q \in Manager, NEW i \in 1 .. Len(restored'[q])
               PROVE  restored'[q][i] = restored'[0][i]
    BY DEF PrefixInv
  <2>1. CASE q = 0  BY <2>1
  <2>2. CASE q # 0
    <3>1. q \in Slave  BY <2>2 DEF Slave
    <3>2. restored'[q] = restored[q]  BY <1>12, <3>1
    <3>3. Len(restored[q]) = Done  BY <1>1, <1>2, <3>1, Standing
    <3>4. restored[q][i] = restored[0][i]  BY <3>2 DEF RecoveryInv, PrefixInv
    <3>5. restored'[0][i] = restored[0][i]  BY <1>12, <3>2, <3>3
    <3> QED BY <3>2, <3>4, <3>5
  <2> QED BY <2>1, <2>2
<1>21. EventInv'
  <2>1. ASSUME NEW l \in Link, NEW y \in On(channel', l), IsEvent(y)
        PROVE  y.incarnation <= Done + 1
    <3>1. CASE y \in On(c, l)
      <4>1. y \in On(channel, l) /\ y \in MessageType  BY <1>6, <3>1, OnTyped
      <4>2. y.incarnation \in Nat /\ y.incarnation <= Done
        BY <2>1, <4>1, MessageParts DEF RecoveryInv, EventInv
      <4> QED BY <1>1, <4>2
    <3>2. CASE y = e  BY <1>1, <1>4, <3>2
    <3>3. CASE y = x  BY <1>3, <2>1, <3>3
    <3> QED BY <1>11, <3>1, <3>2, <3>3
  <2>2. ASSUME NEW q \in Manager, NEW i \in events'[q]
        PROVE  i <= Done + 1
    <3>1. i \in Nat /\ i <= Done  BY <1>9 DEF RecoveryInv, EventInv, Types
    <3> QED BY <1>1, <3>1
  <2> QED BY <1>12, <2>1, <2>2 DEF EventInv
<1>22. FirstInv' /\ SecondInv'
  BY <1>15 DEF FirstInv, SecondInv
<1>23. ThirdInv'
  <2> SUFFICES ASSUME NEW l \in Link, NEW y \in On(channel', l), Carries(y, "third")
               PROVE  /\ l[1] = 0
                      /\ Done' > 0
                      /\ y.incarnation = Done'
                      /\ incarnation'[l[2]] = Done'
                      /\ recovering'[l[2]]
                      /\ y.checkpoint = restored'[0][Done']
                      /\ y.checkpoint <= last'[l[2]]
    BY DEF ThirdInv
  <2>1. l \in F /\ y = x  BY <1>2, <1>4, <1>6, <1>11
  <2>2. l[1] = 0 /\ l[2] \in Slave  BY <2>1, LinkEnds DEF F, Slave
  <2>3. recovering[l[2]] /\ incarnation[l[2]] = Done + 1 /\ cp <= last[l[2]]
    BY <1>1, <1>2, <2>2, Standing DEF Entered
  <2>4. recovering'[l[2]] /\ incarnation'[l[2]] = Done + 1 /\ last'[l[2]] = last[l[2]]
    BY <1>9, <1>14, <2>2, <2>3
  <2>5. y.incarnation = Done + 1 /\ y.checkpoint = cp  BY <1>3, <2>1
  <2> QED BY <1>1, <1>12, <2>2, <2>3, <2>4, <2>5
<1>24. OneCycleInv'
  <2>1. \A l \in Link : CycleAt(channel', l) = {}
    BY <1>15 DEF CycleAt, IsCycle, On
  <2>2. OneCycle(channel')  BY <2>1 DEF OneCycle
  <2> QED BY <2>2 DEF OneCycleInv
<1>25. OneThirdInv'
  <2>1. OneThird(c)  BY <1>1, <1>6, ShorterOneThird DEF RecoveryInv, OneThirdInv
  <2>2. \A l \in F : \A y \in On(c, l) : ~Carries(y, "third")  BY <1>2, <1>6, <1>7
  <2>3. OneThird(mid)  BY <1>3, <1>6, <1>7, <2>1, <2>2, AppendOneThird
  <2>4. OneThird(channel')  BY <1>4, <1>7, <1>8, <1>9, <2>3, AppendOneThird
  <2> QED BY <2>4 DEF OneThirdInv
<1>26. AskedInv'
  <2>1. IsFiniteSet(Asked(c)) /\ Cardinality(Asked(c)) <= Cardinality(Asked(channel))
    BY <1>1, <1>6, CardAsked, ShorterAsked
  <2>2. IsFiniteSet(Asked(mid)) /\ Cardinality(Asked(mid)) <= Cardinality(Asked(c))
    BY <1>3, <1>6, <1>7, <2>1, AppendAsked
  <2>3. IsFiniteSet(Asked(channel')) /\ Cardinality(Asked(channel')) <= Cardinality(Asked(mid))
    BY <1>4, <1>7, <1>8, <1>9, <2>2, AppendAsked
  <2>4. /\ Cardinality(Asked(c)) \in Nat /\ Cardinality(Asked(mid)) \in Nat
        /\ Cardinality(Asked(channel')) \in Nat
    BY <2>1, <2>2, <2>3, FS_CardinalityType
  <2>5. incarnation'[0] + Cardinality(Asked(channel')) <= 2 * faults'
    BY <1>9, <2>1, <2>2, <2>3, <2>4, CardAsked
  <2>6. \A l \in Link : \A y \in On(channel', l) : Carries(y, "toMaster") => y \in On(channel, l)
    BY <1>3, <1>4, <1>6, <1>11
  <2>7. incarnation'[0] \in Nat /\ incarnation[0] <= incarnation'[0]  BY <1>1, <1>9
  <2> QED BY <1>10, <2>3, <2>5, <2>6, <2>7, AskedStep
<1> QED BY <1>16, <1>17, <1>18, <1>19, <1>20, <1>21, <1>22, <1>23, <1>24, <1>25, <1>26 DEF RecoveryInv

LEMMA ThirdAtSlaveFacts ==
    ASSUME RecoveryInv, NEW m \in Slave, NEW p \in Manager, p # m, Routed(m, p),
           Carries(Message(m, p), "third")
    PROVE  /\ p = 0 /\ Done > 0
           /\ incarnation[m] = Done /\ recovering[m] /\ Len(restored[m]) + 1 = Done
           /\ Message(m, p).checkpoint = restored[0][Done]
           /\ Message(m, p).checkpoint <= last[m]
           /\ Message(m, p).checkpoint \in 0 .. MaxCheckpoint
<1> DEFINE msg == Message(m, p)
<1>1. /\ channel \in Channels /\ m \in Manager /\ Arrives(m, p) /\ Done \in Nat
      /\ <<p, m>> \in Link /\ Len(restored[m]) \in Nat
  BY Standing, LinkEnds DEF RecoveryInv, Types, Routed
<1>2. msg \in MessageType /\ msg.checkpoint \in 0 .. MaxCheckpoint
      /\ msg \in On(channel, <<p, m>>)
  BY <1>1, TakenShorterBy, MessageParts DEF Carries
<1>3. /\ p = 0 /\ Done > 0
      /\ incarnation[m] = Done /\ recovering[m]
      /\ msg.checkpoint = restored[0][Done]
      /\ msg.checkpoint <= last[m]
  BY <1>1, <1>2 DEF RecoveryInv, ThirdInv
<1>4. ~Entered(m)  BY <1>1, <1>3 DEF Entered
<1> QED BY <1>2, <1>3, <1>4, Standing

LEMMA ThirdAtSlaveInv ==
    ASSUME RecoveryInv, NEW m \in Slave, NEW p \in Manager, p # m, Routed(m, p),
           Carries(Message(m, p), "third"),
           ThirdAtSlave(m, Taken(m, p), Message(m, p)), UNCHANGED <<faults, sent>>
    PROVE  RecoveryInv'
<1> DEFINE cp == Message(m, p).checkpoint
           e == EventMessage(incarnation[m])
           c == Taken(m, p)
<1>1. /\ channel \in Channels /\ 0 \in Manager /\ m \in Manager /\ m # 0
      /\ Arrives(m, p) /\ Done \in Nat /\ Len(restored[m]) \in Nat
  BY Standing DEF RecoveryInv, Types, Routed
<1>2. /\ p = 0 /\ Done > 0
      /\ incarnation[m] = Done /\ recovering[m] /\ Len(restored[m]) + 1 = Done
      /\ cp = restored[0][Done]
      /\ cp \in 0 .. MaxCheckpoint
  BY ThirdAtSlaveFacts
<1>3. /\ e \in MessageType /\ IsEvent(e) /\ e.incarnation = Done
      /\ ~IsCycle(e) /\ \A t : ~Carries(e, t)
  BY <1>1, <1>2, EventMessageIs
<1>4. Shorter(c, channel) /\ c \in Channels /\ \A l \in Link : On(c, l) \subseteq On(channel, l)
  BY <1>1, TakenShorter, ShorterOn DEF Shorter
<1>5. \A y \in On(c, <<p, m>>) : ~Carries(y, "third")
  BY <1>1, TakenThird DEF RecoveryInv, OneThirdInv
<1>6. PICK D \in SUBSET (Manager \ {m}) : Restore(m, c, cp, D)
  BY DEF ThirdAtSlave
<1> DEFINE E == {l \in Link : l[1] = m /\ l[2] \in D}
<1> HIDE DEF c, cp
<1>7. /\ channel' = AppendTo(c, E, e)
      /\ inRecovery' = [inRecovery EXCEPT ![m] = FALSE]
      /\ recovering' = [recovering EXCEPT ![m] = FALSE]
      /\ last' = [last EXCEPT ![m] = cp]
      /\ restored' = [restored EXCEPT ![m] = Append(@, cp)]
      /\ UNCHANGED <<incarnation, events, faults, sent>>
  <2>1. D \in SUBSET Manager  OBVIOUS
  <2>2. /\ channel' = AppendTo(c, E, e)
        /\ inRecovery' = [inRecovery EXCEPT ![m] = FALSE]
        /\ recovering' = [recovering EXCEPT ![m] = FALSE]
        /\ last' = [last EXCEPT ![m] = cp]
        /\ restored' = [restored EXCEPT ![m] = Append(@, cp)]
        /\ UNCHANGED <<incarnation, events>>
    BY ONLY <1>1, <1>4, <1>6, <2>1, RestoreIs
  <2> QED BY <2>2
<1>8. E \in SUBSET Link  OBVIOUS
<1> HIDE DEF e, E
<1>9. Grown(c, E, e)  BY <1>3, <1>4, <1>7, <1>8 DEF Grown
<1>10. /\ channel' \in Channels
       /\ \A l \in Link : \A y \in On(channel', l) : y \in On(c, l) \/ y = e
  BY <1>1, <1>3, <1>4, <1>7, <1>8, <1>9, GrownIs, AppendOn
<1>11. /\ restored' \in [Manager -> Seq(0 .. MaxCheckpoint)]
       /\ Len(restored'[m]) = Done
       /\ restored'[m][Done] = cp
       /\ \A i \in 1 .. Len(restored[m]) : restored'[m][i] = restored[m][i]
       /\ \A q \in Manager : q # m => restored'[q] = restored[q]
  <2>1. Types /\ cp \in 0 .. MaxCheckpoint /\ Len(restored[m]) + 1 = Done  BY <1>2 DEF RecoveryInv
  <2>2. restored' = [restored EXCEPT ![m] = Append(@, cp)]  BY <1>7
  <2>3. /\ restored' \in [Manager -> Seq(0 .. MaxCheckpoint)]
        /\ Len(restored'[m]) = Len(restored[m]) + 1
        /\ restored'[m][Len(restored[m]) + 1] = cp
        /\ \A i \in 1 .. Len(restored[m]) : restored'[m][i] = restored[m][i]
        /\ \A q \in Manager : q # m => restored'[q] = restored[q]
    BY ONLY <1>1, <2>1, <2>2, RestoredAppend
  <2> HIDE DEF Done
  <2> QED BY <2>1, <2>3
<1>12. Done' = Done /\ restored'[0] = restored[0]  BY <1>1, <1>11 DEF Done
<1>13. /\ recovering \in [Manager -> BOOLEAN] /\ inRecovery \in [Manager -> BOOLEAN]
       /\ last \in [Manager -> 0 .. MaxCheckpoint]
  BY DEF RecoveryInv, Types
<1>14. /\ recovering'[m] = FALSE
       /\ \A s \in Manager : s # m => /\ recovering'[s] = recovering[s]
                                      /\ inRecovery'[s] = inRecovery[s]
                                      /\ last'[s] = last[s]
       /\ recovering'[0] = recovering[0]
  BY <1>1, <1>7, <1>13
<1>15. Types'
  BY <1>2, <1>7, <1>10, <1>11, <1>13 DEF RecoveryInv, Types
<1>16. Stopped'
  BY <1>14 DEF RecoveryInv, Stopped
<1>17. MasterInv'
  BY <1>7, <1>12, <1>14 DEF RecoveryInv, MasterInv
<1>18. SlaveInv'
  <2> SUFFICES ASSUME NEW s \in Slave
               PROVE  /\ recovering'[s] => incarnation'[s] = Len(restored'[s]) + 1
                      /\ ~recovering'[s] => incarnation'[s] = Len(restored'[s])
                      /\ Len(restored'[s]) <= Done'
                      /\ incarnation'[s] >= Done'
                      /\ ~recovering'[0] => incarnation'[s] = Done'
    BY DEF SlaveInv
  <2>1. CASE s = m  BY <1>1, <1>2, <1>7, <1>11, <1>12, <1>14, <2>1
  <2>2. CASE s # m
    <3>1. s \in Manager  BY Standing
    <3> QED BY <1>7, <1>11, <1>12, <1>14, <2>2, <3>1 DEF RecoveryInv, SlaveInv
  <2> QED BY <2>1, <2>2
<1>19. PrefixInv'
  <2> SUFFICES ASSUME NEW q \in Manager, NEW i \in 1 .. Len(restored'[q])
               PROVE  restored'[q][i] = restored'[0][i]
    BY DEF PrefixInv
  <2>1. CASE q # m
    <3>1. restored'[q] = restored[q]  BY <1>11, <2>1
    <3> QED BY <1>12, <3>1 DEF RecoveryInv, PrefixInv
  <2>2. CASE q = m
    <3>1. i \in 1 .. Len(restored[m]) \/ i = Done  BY <1>1, <1>2, <1>11, <2>2
    <3>2. CASE i = Done  BY <1>2, <1>11, <1>12, <2>2, <3>2
    <3>3. CASE i \in 1 .. Len(restored[m])
      BY <1>1, <1>11, <1>12, <2>2, <3>3 DEF RecoveryInv, PrefixInv
    <3> QED BY <3>1, <3>2, <3>3
  <2> QED BY <2>1, <2>2
<1>20. EventInv'
  <2>1. e.incarnation <= Done  BY <1>1, <1>3
  <2> QED BY <1>4, <1>7, <1>10, <1>12, <2>1 DEF RecoveryInv, EventInv
<1>21. FirstInv'
  BY <1>3, <1>4, <1>7, <1>10, <1>12, <1>14 DEF RecoveryInv, FirstInv, Entered
<1>22. SecondInv'
  <2>1. ~Entered(m)  BY <1>1, <1>2 DEF Entered
  <2>2. \A l \in Link : \A y \in On(channel, l) : ~Carries(y, "second")
    BY <1>1, <2>1 DEF RecoveryInv, SecondInv
  <2> QED BY <1>3, <1>4, <1>10, <2>2 DEF SecondInv
<1>23. ThirdInv'
  <2> SUFFICES ASSUME NEW l \in Link, NEW y \in On(channel', l), Carries(y, "third")
               PROVE  /\ l[1] = 0
                      /\ Done > 0
                      /\ y.incarnation = Done
                      /\ incarnation[l[2]] = Done
                      /\ recovering'[l[2]]
                      /\ y.checkpoint = restored[0][Done]
                      /\ y.checkpoint <= last'[l[2]]
    BY <1>7, <1>12 DEF ThirdInv
  <2>1. y \in On(c, l) /\ y \in On(channel, l)  BY <1>3, <1>4, <1>10
  <2>2. /\ l[1] = 0 /\ y.incarnation = Done
        /\ incarnation[l[2]] = Done
        /\ recovering[l[2]]
        /\ y.checkpoint = restored[0][Done]
        /\ y.checkpoint <= last[l[2]]
    BY <2>1 DEF RecoveryInv, ThirdInv
  <2>3. l[2] # m
    <3>1. l # <<p, m>>  BY <1>5, <2>1
    <3> QED BY <1>2, <2>2, <3>1, LinkEnds
  <2>4. recovering'[l[2]] = recovering[l[2]] /\ last'[l[2]] = last[l[2]]
    BY <1>14, <2>3, LinkEnds
  <2> QED BY <1>2, <2>2, <2>4
<1>24. OneCycleInv' /\ OneThirdInv'
  <2>1. (OneCycle(channel) => OneCycle(channel')) /\ OneThird(channel')
    BY <1>3, <1>9, GrownPlain
  <2> QED BY <1>7, <1>12, <2>1 DEF RecoveryInv, OneCycleInv, OneThirdInv
<1>25. AskedInv'
  <2>1. IsFiniteSet(Asked(channel')) /\ Cardinality(Asked(channel')) <= Cardinality(Asked(channel))
    BY <1>3, <1>9, GrownPlain
  <2>2. Cardinality(Asked(channel')) \in Nat  BY <2>1, FS_CardinalityType
  <2>3. incarnation'[0] + Cardinality(Asked(channel')) <= 2 * faults'
    BY <1>7, <2>1, <2>2, CardAsked
  <2>4. incarnation'[0] \in Nat /\ incarnation[0] <= incarnation'[0]  BY <1>7, CardAsked
  <2> QED BY <1>3, <1>4, <1>10, <2>1, <2>3, <2>4, AskedStep
<1> QED BY <1>15, <1>16, <1>17, <1>18, <1>19, <1>20, <1>21, <1>22, <1>23, <1>24, <1>25 DEF RecoveryInv

-----------------------------------------------------------------------------
(* The invariant *)

LEMMA ReceiveRestoreCases ==
    ASSUME NEW m \in Manager, NEW p \in Manager, ReceiveRestore(m, p)
    PROVE  /\ Routed(m, p)
           /\ \/ /\ m = 0 /\ Carries(Message(0, p), "toMaster") /\ ~recovering[0]
                 /\ ToMaster(Taken(0, p), Message(0, p))
              \/ /\ m = 0 /\ Carries(Message(0, p), "first") /\ recovering[0]
                 /\ FirstAtMaster(Taken(0, p), Message(0, p))
              \/ /\ m = 0 /\ Carries(Message(0, p), "second")
                 /\ SecondAtMaster(Taken(0, p), Message(0, p))
              \/ /\ m \in Slave /\ Carries(Message(m, p), "first") /\ ~recovering[m]
                 /\ FirstAtSlave(m, Taken(m, p), Message(m, p))
              \/ /\ m \in Slave /\ Carries(Message(m, p), "second") /\ recovering[m]
                 /\ SecondAtSlave(m, Taken(m, p), Message(m, p))
              \/ /\ m \in Slave /\ Carries(Message(m, p), "third")
                 /\ ThirdAtSlave(m, Taken(m, p), Message(m, p))
BY DEF ReceiveRestore, ActsOn, Carries, Slave

LEMMA ReceiveInv ==
    ASSUME RecoveryInv, NEW m \in Manager, NEW p \in Manager, p # m, Receive(m, p)
    PROVE  RecoveryInv'
<1>1. UNCHANGED <<faults, sent>>  BY DEF Receive
<1>2. CASE ReceiveEvent(m, p)  BY <1>1, <1>2, ReceiveEventInv
<1>3. CASE Discard(m, p)  BY <1>1, <1>3, DiscardInv
<1>4. CASE ReceiveRestore(m, p)
  BY <1>1, <1>4, ReceiveRestoreCases, ToMasterInv, FirstAtMasterInv, SecondAtMasterInv,
     FirstAtSlaveInv, SecondAtSlaveInv, ThirdAtSlaveInv
<1> QED BY <1>2, <1>3, <1>4 DEF Receive

LEMMA InitRecoveryInv == Init => RecoveryInv
<1> SUFFICES ASSUME Init PROVE RecoveryInv
  OBVIOUS
<1>1. \A l \in Link : channel[l] = <<>> /\ Len(channel[l]) = 0  BY DEF Init
<1>2. \A l \in Link : On(channel, l) = {} /\ CycleAt(channel, l) = {} /\ ThirdAt(channel, l) = {}
  BY <1>1 DEF On, CycleAt, ThirdAt
<1>3. 0 \in Manager /\ Slave \subseteq Manager  BY Numbers DEF Manager, Slave
<1>4. \A m \in Manager : restored[m] = <<>> /\ Len(restored[m]) = 0  BY DEF Init
<1>5. Done = 0  BY <1>3, <1>4 DEF Done
<1>6. Types
  <2>1. channel \in Channels
    <3>1. <<>> \in Seq(MessageType)  OBVIOUS
    <3> QED BY <3>1 DEF Init, Channels
  <2>2. restored \in [Manager -> Seq(0 .. MaxCheckpoint)]
    <3>1. <<>> \in Seq(0 .. MaxCheckpoint)  OBVIOUS
    <3> QED BY <3>1 DEF Init
  <2> QED BY <2>1, <2>2, Numbers DEF Init, Types
<1>7. Stopped /\ MasterInv /\ SlaveInv
  BY <1>3, <1>4, <1>5 DEF Init, Stopped, MasterInv, SlaveInv
<1>8. PrefixInv  BY <1>4 DEF PrefixInv
<1>9. EventInv /\ FirstInv /\ SecondInv /\ ThirdInv
  BY <1>2 DEF Init, EventInv, FirstInv, SecondInv, ThirdInv
<1>10. OneCycleInv /\ OneThirdInv
  BY <1>2 DEF OneCycleInv, OneThirdInv, OneCycle, OneThird
<1>11. AskedInv
  <2>1. Asked(channel) = {}
    <3> SUFFICES ASSUME NEW a \in Asked(channel)  PROVE FALSE
      OBVIOUS
    <3>1. a[1] \in Link /\ a[2] \in 1 .. Len(channel[a[1]])  BY DEF Asked
    <3> QED BY <1>1, <3>1
  <2>2. incarnation[0] = 0 /\ faults = 0  BY <1>3 DEF Init
  <2> QED BY <1>2, <2>1, <2>2, FS_EmptySet DEF AskedInv
<1> QED BY <1>6, <1>7, <1>8, <1>9, <1>10, <1>11 DEF RecoveryInv

LEMMA StutterInv ==
    ASSUME RecoveryInv, UNCHANGED vars
    PROVE  RecoveryInv'
<1>1. channel \in Channels /\ events \in [Manager -> SUBSET Nat]  BY DEF RecoveryInv, Types
<1>2. channel' = channel /\ events' = events  BY DEF vars
<1>3. Shorter(channel', channel)  BY <1>1, <1>2, ShorterSelf
<1> QED BY <1>1, <1>2, <1>3, TakeInv DEF RecoveryInv, EventInv, vars

LEMMA NextRecoveryInv == RecoveryInv /\ [Next]_vars => RecoveryInv'
<1> SUFFICES ASSUME RecoveryInv, [Next]_vars PROVE RecoveryInv'
  OBVIOUS
<1>1. CASE \E m \in Manager : Advance(m) \/ StepBack(m)  BY <1>1, MovesInv
<1>2. CASE \E m \in Manager, c \in 0 .. MaxCheckpoint : StartRecovery(m, c)
  BY <1>2, StartRecoveryInv
<1>3. CASE \E m \in Manager, c, d \in 0 .. MaxCheckpoint : StartRecoveryTwice(m, c, d)
  BY <1>3, StartRecoveryTwiceInv
<1>4. CASE \E l \in Link : SendEvent(l[1], l[2])  BY <1>4, LinkEnds, SendEventInv
<1>5. CASE \E l \in Link : Receive(l[2], l[1])  BY <1>5, LinkEnds, ReceiveInv
<1>6. CASE UNCHANGED vars  BY <1>6, StutterInv
<1> QED BY <1>1, <1>2, <1>3, <1>4, <1>5, <1>6 DEF Next

LEMMA RecoveryInvariant == Spec => []RecoveryInv
BY InitRecoveryInv, NextRecoveryInv, PTL DEF Spec
-----------------------------------------------------------------------------
(* What follows from it *)

LEMMA IncarnationBound ==
    ASSUME RecoveryInv
    PROVE  /\ incarnation[0] <= 2 * MaxFaults
           /\ \A m \in Manager : incarnation[m] \in Incarnation
           /\ Done <= 2 * MaxFaults
<1>1. incarnation[0] <= 2 * MaxFaults /\ incarnation[0] \in Nat
  <2>1. faults \in Nat /\ faults <= MaxFaults  BY Numbers DEF RecoveryInv, Types
  <2> QED BY <2>1, CardAsked, Numbers
<1>2. \A m \in Manager : incarnation[m] \in Nat /\ Done <= incarnation[m] /\ incarnation[m] <= incarnation[0]
  BY Standing
<1>3. Done \in Nat /\ 0 \in Manager  BY Standing
<1> HIDE DEF Done
<1> QED BY <1>1, <1>2, <1>3, Numbers DEF Incarnation

LEMMA InvTypeOK == RecoveryInv => TypeOK
<1> SUFFICES ASSUME RecoveryInv PROVE TypeOK
  OBVIOUS
<1>1. ASSUME NEW l \in Link, NEW i \in 1 .. Len(channel[l])
      PROVE  \/ channel[l][i] \in [type : {"event"}, incarnation : Incarnation]
             \/ channel[l][i] \in [type : {"restore"}, token : Token,
                                   checkpoint : 0 .. MaxCheckpoint, incarnation : Incarnation]
  <2> DEFINE x == channel[l][i]
  <2>1. x \in On(channel, l)  BY DEF On
  <2>2. x \in MessageType  BY <2>1, OnTyped DEF RecoveryInv, Types
  <2> HIDE DEF x
  <2>3. x.incarnation \in Nat /\ x.incarnation <= 2 * MaxFaults
    <3>1. x.incarnation \in Nat  BY <2>2, MessageParts
    <3>2. CASE IsEvent(x)
      <4>1. x.incarnation <= Done  BY <2>1, <3>2 DEF RecoveryInv, EventInv
      <4> QED BY <3>1, <4>1, Standing, IncarnationBound, Numbers
    <3>3. CASE ~IsEvent(x)
      <4>1. \E t \in Token : Carries(x, t)  BY <2>2, <3>3, MessageParts DEF Carries
      <4>2. CASE Carries(x, "third")
        <5>1. x.incarnation = Done  BY <2>1, <4>2 DEF RecoveryInv, ThirdInv
        <5> QED BY <3>1, <5>1, IncarnationBound
      <4>3. CASE ~Carries(x, "third")
        <5>1. x.incarnation <= incarnation[0]
          <6>1. CASE Carries(x, "toMaster")  BY <2>1, <6>1 DEF RecoveryInv, AskedInv
          <6>2. CASE Carries(x, "first")
            <7>1. x.incarnation \in Done + 1 .. incarnation[0]
              BY <2>1, <6>2 DEF RecoveryInv, FirstInv
            <7> QED BY <7>1
          <6>3. CASE Carries(x, "second")
            <7>1. x.incarnation = incarnation[0]  BY <2>1, <6>3 DEF RecoveryInv, SecondInv
            <7> QED BY <7>1, CardAsked
          <6> QED BY <4>1, <4>3, <6>1, <6>2, <6>3 DEF Token
        <5> QED BY <3>1, <5>1, CardAsked, IncarnationBound, Numbers
      <4> QED BY <4>2, <4>3
    <3> QED BY <3>1, <3>2, <3>3
  <2>4. x.incarnation \in Incarnation  BY <2>3, Numbers DEF Incarnation
  <2>5. \/ x \in [type : {"event"}, incarnation : Nat]
        \/ x \in [type : {"restore"}, token : Token, checkpoint : 0 .. MaxCheckpoint,
                  incarnation : Nat]
    BY <2>2 DEF MessageType
  <2>6. \/ x \in [type : {"event"}, incarnation : Incarnation]
        \/ x \in [type : {"restore"}, token : Token, checkpoint : 0 .. MaxCheckpoint,
                  incarnation : Incarnation]
    BY <2>4, <2>5
  <2> QED BY <2>6 DEF x
<1>2. incarnation \in [Manager -> Incarnation]
  BY IncarnationBound DEF RecoveryInv, Types
<1>3. events \in [Manager -> SUBSET Incarnation]
  <2>1. events \in [Manager -> SUBSET Nat]  BY DEF RecoveryInv, Types
  <2>2. ASSUME NEW m \in Manager, NEW i \in events[m]  PROVE i \in Incarnation
    <3>1. i \in Nat /\ i <= Done  BY <2>1 DEF RecoveryInv, EventInv
    <3>2. Done \in Nat /\ Done <= 2 * MaxFaults  BY Standing, IncarnationBound
    <3> HIDE DEF Done
    <3> QED BY <3>1, <3>2, Numbers DEF Incarnation
  <2> QED BY <2>1, <2>2
<1> QED BY <1>1, <1>2, <1>3 DEF RecoveryInv, Types, Stopped, TypeOK

\* Types: the state variables of CheckpointRecovery keep their types, a manager
\* that takes part in a recovery has stopped, and no incarnation number exceeds
\* two for each fault, whoever has had them and however the requests overlap.
THEOREM RecoveryTypes == Spec => []TypeOK
BY RecoveryInvariant, InvTypeOK, PTL

\* What a restore finds: the master is told what all managers have, a slave what
\* the master and the others have restored.
LEMMA RestoreStep ==
    ASSUME RecoveryInv, NEW m \in Manager, NEW c \in 0 .. MaxCheckpoint,
           NEW q \in Manager, restored'[q] # restored[q],
           restored' = [restored EXCEPT ![m] = Append(@, c)],
           c <= last[m],
           \A p \in Manager : Len(restored[m]) + 1 <= Len(restored[p]) =>
               restored[p][Len(restored[m]) + 1] = c
    PROVE  /\ LastRestored(q)' <= last[q]
           /\ \A p \in Manager : Len(restored'[q]) <= Len(restored[p]) =>
                  restored[p][Len(restored'[q])] = LastRestored(q)'
<1>1. /\ Len(restored'[m]) = Len(restored[m]) + 1
      /\ \A s \in Manager : s # m => restored'[s] = restored[s]
      /\ LastRestored(m)' = c
  BY RestoredAppend DEF RecoveryInv
<1>2. q = m  BY <1>1
<1> QED BY <1>1, <1>2

LEMMA CommonCheckpointStep ==
    ASSUME RecoveryInv, Next, NEW q \in Manager, restored'[q] # restored[q]
    PROVE  /\ LastRestored(q)' <= last[q]
           /\ \A p \in Manager : Len(restored'[q]) <= Len(restored[p]) =>
                  restored[p][Len(restored'[q])] = LastRestored(q)'
<1>1. PICK m \in Manager, p \in Manager : p # m /\ ReceiveRestore(m, p)
  <2>1. restored' # restored  OBVIOUS
  <2>2. CASE \E m \in Manager : Advance(m) \/ StepBack(m)
    BY <2>1, <2>2 DEF Advance, StepBack
  <2>3. CASE \E m \in Manager, c \in 0 .. MaxCheckpoint : StartRecovery(m, c)
    BY <2>1, <2>3 DEF StartRecovery, Fault
  <2>4. CASE \E m \in Manager, c, d \in 0 .. MaxCheckpoint : StartRecoveryTwice(m, c, d)
    BY <2>1, <2>4 DEF StartRecoveryTwice, Fault
  <2>5. CASE \E l \in Link : SendEvent(l[1], l[2])
    BY <2>1, <2>5 DEF SendEvent
  <2>6. CASE \E l \in Link : Receive(l[2], l[1])
    BY <2>1, <2>6, LinkEnds DEF Receive, ReceiveEvent, Discard
  <2> QED BY <2>2, <2>3, <2>4, <2>5, <2>6 DEF Next
<1> DEFINE cp == Message(m, p).checkpoint
<1>2. Routed(m, p) /\ channel \in Channels /\ Arrives(m, p)
  BY <1>1, ReceiveRestoreCases DEF RecoveryInv, Types, Routed
<1>3. CASE m = 0 /\ Carries(Message(0, p), "second") /\ SecondAtMaster(Taken(0, p), Message(0, p))
  <2>1. /\ cp \in 0 .. MaxCheckpoint /\ cp <= last[m]
        /\ \A s \in Manager : Entered(s)
    BY <1>1, <1>2, <1>3, SecondAtMasterFacts
  <2>2. restored' = [restored EXCEPT ![m] = Append(@, cp)]
    BY <1>3 DEF SecondAtMaster, Restore
  <2>3. ASSUME NEW s \in Manager  PROVE ~(Len(restored[m]) + 1 <= Len(restored[s]))
    <3>1. Len(restored[s]) <= Done /\ Len(restored[s]) \in Nat /\ Done \in Nat /\ Len(restored[m]) = Done
      BY <1>3, Standing DEF RecoveryInv, SlaveInv, Done, Slave
    <3> HIDE DEF Done
    <3> QED BY <3>1
  <2> HIDE DEF cp
  <2> QED BY <2>1, <2>2, <2>3, RestoreStep
<1>4. CASE m \in Slave /\ Carries(Message(m, p), "third") /\ ThirdAtSlave(m, Taken(m, p), Message(m, p))
  <2>1. /\ cp \in 0 .. MaxCheckpoint /\ cp <= last[m]
        /\ Len(restored[m]) + 1 = Done /\ cp = restored[0][Done] /\ Done > 0
    BY <1>1, <1>2, <1>4, ThirdAtSlaveFacts
  <2>2. restored' = [restored EXCEPT ![m] = Append(@, cp)]
    BY <1>4 DEF ThirdAtSlave, Restore
  <2>3. ASSUME NEW s \in Manager, Len(restored[m]) + 1 <= Len(restored[s])
        PROVE  restored[s][Len(restored[m]) + 1] = cp
    <3>1. Done \in 1 .. Len(restored[s])
      <4>1. Len(restored[s]) \in Nat /\ Done \in Nat  BY Standing
      <4> HIDE DEF Done
      <4> QED BY <2>1, <2>3, <4>1
    <3>2. restored[s][Done] = restored[0][Done]  BY <3>1 DEF RecoveryInv, PrefixInv
    <3> QED BY <2>1, <3>2
  <2> HIDE DEF cp
  <2> QED BY <2>1, <2>2, <2>3, RestoreStep, ZenonT(60)
<1>5. \/ m = 0 /\ Carries(Message(0, p), "second") /\ SecondAtMaster(Taken(0, p), Message(0, p))
      \/ m \in Slave /\ Carries(Message(m, p), "third") /\ ThirdAtSlave(m, Taken(m, p), Message(m, p))
  <2>1. restored' # restored  OBVIOUS
  <2> QED BY <1>1, <2>1, ReceiveRestoreCases
          DEF ToMaster, FirstAtMaster, FirstAtSlave, SecondAtSlave
<1> QED BY <1>3, <1>4, <1>5

\* CommonCheckpoint: for any number of managers, whichever of them faults, also
\* while another recovery is asked for, the managers restore one sequence of
\* checkpoints, and restoreCheckpoint() is never told a checkpoint that the
\* manager has not made.
THEOREM RecoveryIsCommon == Spec => CommonCheckpoint
<1>1. RecoveryInv /\ [Next]_vars =>
          [\A m \in Manager : restored'[m] # restored[m] =>
              /\ LastRestored(m)' <= last[m]
              /\ \A p \in Manager : Len(restored'[m]) <= Len(restored[p]) =>
                     restored[p][Len(restored'[m])] = LastRestored(m)']_vars
  BY CommonCheckpointStep
<1> QED BY <1>1, RecoveryInvariant, PTL DEF Spec, CommonCheckpoint

LEMMA PurgesOnlyOldStep ==
    ASSUME RecoveryInv, Next, NEW m \in Slave, incarnation'[m] # incarnation[m]
    PROVE  /\ \A i \in events[m] : i < incarnation'[m]
           /\ \A p \in Manager \ {m} : \A i \in 1 .. Len(channel[<<p, m>>]) :
                  channel[<<p, m>>][i].type = "event" =>
                      channel[<<p, m>>][i].incarnation < incarnation'[m]
<1>1. incarnation' # incarnation /\ m # 0 /\ m \in Manager /\ Done \in Nat
      /\ incarnation \in [Manager -> Nat]
  BY Standing DEF RecoveryInv, Types
<1>2. incarnation' = [incarnation EXCEPT ![m] = @ + 1] /\ ~recovering[m]
  <2>1. CASE \E q \in Manager : Advance(q) \/ StepBack(q)
    BY <1>1, <2>1 DEF Advance, StepBack
  <2>2. CASE \E q \in Manager, c \in 0 .. MaxCheckpoint : StartRecovery(q, c)
    BY <1>1, <2>2 DEF StartRecovery, StartMaster, StartSlave
  <2>3. CASE \E q \in Manager, c, d \in 0 .. MaxCheckpoint : StartRecoveryTwice(q, c, d)
    BY <1>1, <2>3 DEF StartRecoveryTwice
  <2>4. CASE \E l \in Link : SendEvent(l[1], l[2])
    BY <1>1, <2>4 DEF SendEvent
  <2>5. CASE \E l \in Link : Receive(l[2], l[1])
    <3>1. PICK q \in Manager, p \in Manager : Receive(q, p)  BY <2>5, LinkEnds
    <3>2. CASE ReceiveEvent(q, p) \/ Discard(q, p)
      BY <1>1, <3>2 DEF ReceiveEvent, Discard
    <3>3. CASE ReceiveRestore(q, p)
      <4>1. CASE ToMaster(Taken(0, p), Message(0, p))  BY <1>1, <4>1 DEF ToMaster
      <4>2. CASE FirstAtMaster(Taken(0, p), Message(0, p))  BY <1>1, <4>2 DEF FirstAtMaster
      <4>3. CASE SecondAtMaster(Taken(0, p), Message(0, p))
        BY <1>1, <4>3 DEF SecondAtMaster, Restore
      <4>4. CASE ~recovering[q] /\ FirstAtSlave(q, Taken(q, p), Message(q, p))
        BY <1>1, <4>4 DEF FirstAtSlave
      <4>5. CASE SecondAtSlave(q, Taken(q, p), Message(q, p))  BY <1>1, <4>5 DEF SecondAtSlave
      <4>6. CASE ThirdAtSlave(q, Taken(q, p), Message(q, p))
        BY <1>1, <4>6 DEF ThirdAtSlave, Restore
      <4> QED BY <3>3, <4>1, <4>2, <4>3, <4>4, <4>5, <4>6, ReceiveRestoreCases
    <3> QED BY <3>1, <3>2, <3>3 DEF Receive
  <2> QED BY <2>1, <2>2, <2>3, <2>4, <2>5 DEF Next
<1>3. incarnation'[m] = Done + 1  BY <1>1, <1>2, Standing
<1>4. ASSUME NEW i \in events[m]  PROVE i < incarnation'[m]
  <2>1. i \in Nat /\ i <= Done  BY <1>1 DEF RecoveryInv, Types, EventInv
  <2> QED BY <1>1, <1>3, <2>1
<1>5. ASSUME NEW p \in Manager \ {m}, NEW i \in 1 .. Len(channel[<<p, m>>]),
             channel[<<p, m>>][i].type = "event"
      PROVE  channel[<<p, m>>][i].incarnation < incarnation'[m]
  <2> DEFINE x == channel[<<p, m>>][i]
  <2>1. <<p, m>> \in Link  BY <1>1, LinkEnds
  <2>2. x \in On(channel, <<p, m>>) /\ IsEvent(x)  BY <1>5 DEF On, IsEvent
  <2>3. x \in MessageType  BY <2>1, <2>2, OnTyped DEF RecoveryInv, Types
  <2>4. x.incarnation \in Nat /\ x.incarnation <= Done
    BY <2>1, <2>2, <2>3, MessageParts DEF RecoveryInv, EventInv
  <2> QED BY <1>1, <1>3, <2>4
<1> QED BY <1>4, <1>5

\* PurgesOnlyOld: for any number of managers, what ofcPurge() and the drain of
\* FIRST_CYCLE at a slave destroy was sent before the incarnation it enters.
THEOREM RecoveryPurgesOld == Spec => PurgesOnlyOld
<1>1. RecoveryInv /\ [Next]_vars =>
          [\A m \in Slave : incarnation'[m] # incarnation[m] =>
              /\ \A i \in events[m] : i < incarnation'[m]
              /\ \A p \in Manager \ {m} : \A i \in 1 .. Len(channel[<<p, m>>]) :
                     channel[<<p, m>>][i].type = "event" =>
                         channel[<<p, m>>][i].incarnation < incarnation'[m]]_vars
  BY PurgesOnlyOldStep
<1> QED BY <1>1, RecoveryInvariant, PTL DEF Spec, PurgesOnlyOld
-----------------------------------------------------------------------------
(* Two managers.  The ring is then one channel there and one back, and a token  *)
(* pushes out what was sent before it: when SECOND_CYCLE arrives at the master  *)
(* no event is behind it, and before THIRD_CYCLE arrives at the slave nothing   *)
(* that is left is received.                                                    *)

Up == <<1, 0>>
Down == <<0, 1>>

\* Of a channel: the events behind each token of a kind are all in A.
Behind(ch, l, token, A) ==
    \A i, j \in 1 .. Len(ch[l]) :
        i < j /\ Carries(ch[l][i], token) /\ IsEvent(ch[l][j]) => ch[l][j].incarnation \in A

UpInv ==
    /\ ~recovering[0] => \A x \in On(channel, Up) : IsEvent(x) => x.incarnation = Done
    /\ Behind(channel, Up, "second", {})

DownInv ==
    /\ ~recovering[1] => \A x \in On(channel, Down) : IsEvent(x) => x.incarnation = Done
    /\ Behind(channel, Down, "third", {Done})

QueueInv ==
    /\ ~recovering[0] => events[0] \subseteq {Done}
    /\ events[1] \subseteq {incarnation[1]}
    /\ \A l \in Link : \A x \in On(channel, l) : Carries(x, "second") => events[0] = {}

TwoInv == RecoveryInv /\ UpInv /\ DownInv /\ QueueInv

LEMMA ShorterBehind ==
    ASSUME NEW ch \in Channels, NEW c, Shorter(c, ch), NEW l \in Link, NEW t, NEW A,
           Behind(ch, l, t, A)
    PROVE  Behind(c, l, t, A)
<1>1. PICK k \in [Link -> Nat] : ShorterBy(c, ch, k)  BY DEF Shorter
<1>2. c \in Channels  BY DEF Shorter
<1> SUFFICES ASSUME NEW i \in 1 .. Len(c[l]), NEW j \in 1 .. Len(c[l]),
                    i < j, Carries(c[l][i], t), IsEvent(c[l][j])
             PROVE  c[l][j].incarnation \in A
  BY DEF Behind
<1>3. /\ i + k[l] \in 1 .. Len(ch[l]) /\ c[l][i] = ch[l][i + k[l]] /\ i \in Nat /\ k[l] \in Nat
      /\ j + k[l] \in 1 .. Len(ch[l]) /\ c[l][j] = ch[l][j + k[l]] /\ j \in Nat
  BY <1>1, <1>2, ShorterPlaces
<1>4. i + k[l] < j + k[l]  BY <1>3
<1> QED BY <1>3, <1>4 DEF Behind

LEMMA AppendBehind ==
    ASSUME NEW ch \in Channels, NEW L \in SUBSET Link, NEW x \in MessageType, NEW l \in Link,
           NEW t, NEW A, Behind(ch, l, t, A),
           \/ ~IsEvent(x)
           \/ l \notin L
           \/ x.incarnation \in A
           \/ \A y \in On(ch, l) : ~Carries(y, t)
    PROVE  Behind(AppendTo(ch, L, x), l, t, A)
<1> DEFINE c == AppendTo(ch, L, x)
<1> SUFFICES ASSUME NEW i \in 1 .. Len(c[l]), NEW j \in 1 .. Len(c[l]),
                    i < j, Carries(c[l][i], t), IsEvent(c[l][j])
             PROVE  c[l][j].incarnation \in A
  BY DEF Behind
<1>1. \/ i \in 1 .. Len(ch[l]) /\ c[l][i] = ch[l][i]
      \/ l \in L /\ i = Len(ch[l]) + 1
  BY AppendOldPlaces
<1>2. \/ j \in 1 .. Len(ch[l]) /\ c[l][j] = ch[l][j]
      \/ l \in L /\ j = Len(ch[l]) + 1 /\ c[l][j] = x
  BY AppendOldPlaces
<1>3. Len(ch[l]) \in Nat  BY DEF Channels
<1> HIDE DEF c
<1>4. CASE j \in 1 .. Len(ch[l]) /\ c[l][j] = ch[l][j]
  <2>1. i \in 1 .. Len(ch[l]) /\ c[l][i] = ch[l][i]  BY <1>1, <1>3, <1>4
  <2> QED BY <1>4, <2>1 DEF Behind
<1>5. CASE l \in L /\ j = Len(ch[l]) + 1 /\ c[l][j] = x
  <2>1. i \in 1 .. Len(ch[l]) /\ c[l][i] = ch[l][i]  BY <1>1, <1>3, <1>5
  <2>2. c[l][i] \in On(ch, l)  BY <2>1 DEF On
  <2> QED BY <1>5, <2>2
<1> QED BY <1>2, <1>4, <1>5

\* The events left when a token is taken were behind it.
LEMMA TakenBehind ==
    ASSUME channel \in Channels, NEW m \in Manager, NEW p \in Manager, p # m, Arrives(m, p),
           NEW t, NEW A, Carries(Message(m, p), t), Behind(channel, <<p, m>>, t, A),
           NEW x \in On(Taken(m, p), <<p, m>>), IsEvent(x)
    PROVE  x.incarnation \in A
<1> DEFINE a == <<p, m>>
           c == Taken(m, p)
           k == [l \in Link |-> IF l = <<p, m>> THEN 1 ELSE 0]
<1>1. k \in [Link -> Nat] /\ a \in Link /\ k[a] = 1  BY LinkEnds
<1>2. /\ c \in Channels /\ ShorterBy(c, channel, k)
      /\ 1 \in 1 .. Len(channel[a]) /\ Carries(channel[a][1], t)
  BY TakenShorterBy
<1> HIDE DEF k, c
<1>3. PICK i \in 1 .. Len(c[a]) : x = c[a][i]  BY DEF On, c
<1>4. i + k[a] \in 1 .. Len(channel[a]) /\ c[a][i] = channel[a][i + k[a]] /\ i \in Nat
  BY <1>1, <1>2, <1>3, ShorterPlaces
<1>5. i + 1 \in 1 .. Len(channel[a]) /\ x = channel[a][i + 1]  BY <1>1, <1>3, <1>4
<1>6. 1 < i + 1
  <2>1. Len(c[a]) \in Nat  BY <1>1, <1>2 DEF Channels
  <2> QED BY <2>1
<1> QED BY <1>2, <1>5, <1>6 DEF Behind

LEMMA TwoManagers ==
    ASSUME N = 2
    PROVE  /\ Manager = {0, 1} /\ Slave = {1}
           /\ Link = {Up, Down} /\ Up # Down
           /\ Peer(0) = 1 /\ Peer(1) = 0
<1>1. Manager = {0, 1}  BY DEF Manager
<1>2. Slave = {1}  BY <1>1 DEF Slave
<1>3. Link = {Up, Down}
  <2>1. Up \in Link /\ Down \in Link  BY <1>1, LinkEnds DEF Up, Down
  <2>2. ASSUME NEW l \in Link  PROVE l \in {Up, Down}
    BY <1>1, LinkEnds DEF Up, Down
  <2> QED BY <2>1, <2>2
<1>4. Peer(0) = 1 /\ Peer(1) = 0  BY DEF Peer
<1> QED BY <1>1, <1>2, <1>3, <1>4 DEF Up, Down

\* Where a step only takes messages, sends tokens other than SECOND_CYCLE and
\* lets the master start a recovery.
LEMMA TwoQuiet ==
    ASSUME TwoInv, N = 2,
           UNCHANGED events, Done' = Done, incarnation'[1] = incarnation[1],
           recovering'[1] = recovering[1], recovering'[0] \/ recovering'[0] = recovering[0],
           \A l \in Link : \A y \in On(channel', l) :
               IsEvent(y) \/ Carries(y, "second") => y \in On(channel, l),
           Behind(channel', Up, "second", {}), Behind(channel', Down, "third", {Done})
    PROVE  UpInv' /\ DownInv' /\ QueueInv'
<1>1. Up \in Link /\ Down \in Link /\ Up' = Up /\ Down' = Down  BY TwoManagers DEF Up, Down
<1>2. UpInv'  BY <1>1 DEF TwoInv, UpInv
<1>3. DownInv'  BY <1>1 DEF TwoInv, DownInv
<1>4. QueueInv'
  BY DEF TwoInv, QueueInv
<1> QED BY <1>2, <1>3, <1>4

LEMMA TwoMoves ==
    ASSUME TwoInv, N = 2, NEW m \in Manager, Advance(m) \/ StepBack(m)
    PROVE  UpInv' /\ DownInv' /\ QueueInv'
<1>1. UNCHANGED <<channel, recovering, incarnation, events, restored>>
  BY DEF Advance, StepBack
<1>2. Done' = Done  BY <1>1 DEF Done
<1>3. Behind(channel', Up, "second", {}) /\ Behind(channel', Down, "third", {Done})
  BY <1>1 DEF TwoInv, UpInv, DownInv
<1>4. \A l \in Link : On(channel', l) = On(channel, l)  BY <1>1
<1> QED BY <1>1, <1>2, <1>3, <1>4, TwoQuiet

\* A restore message other than SECOND_CYCLE is sent.
LEMMA QuietSent ==
    ASSUME NEW ch \in Channels, NEW q \in Manager, NEW r \in Manager, NEW t \in Token,
           NEW c \in 0 .. MaxCheckpoint, NEW i \in Nat, NEW A, q # r, t # "second",
           Behind(ch, Up, "second", {}), Behind(ch, Down, "third", A), N = 2
    PROVE  \E new \in Channels :
               /\ new = Sent(ch, q, r, RestoreCkpt(t, c, i))
               /\ Behind(new, Up, "second", {})
               /\ Behind(new, Down, "third", A)
               /\ \A l \in Link : \A y \in On(new, l) :
                      IsEvent(y) \/ Carries(y, "second") => y \in On(ch, l)
<1> DEFINE x == RestoreCkpt(t, c, i)
           L == {<<q, r>>}
<1>1. x \in MessageType /\ ~IsEvent(x) /\ ~Carries(x, "second")  BY RestoreCkptIs
<1>2. L \in SUBSET Link /\ Up \in Link /\ Down \in Link  BY TwoManagers, LinkEnds
<1> HIDE DEF x
<1>3. Sent(ch, q, r, x) = AppendTo(ch, L, x)  BY SentIs
<1> HIDE DEF L
<1>4. AppendTo(ch, L, x) \in Channels  BY <1>1, <1>2, AppendTyped
<1>5. /\ Behind(AppendTo(ch, L, x), Up, "second", {})
      /\ Behind(AppendTo(ch, L, x), Down, "third", A)
  BY <1>1, <1>2, AppendBehind
<1>6. \A l \in Link : \A y \in On(AppendTo(ch, L, x), l) :
          IsEvent(y) \/ Carries(y, "second") => y \in On(ch, l)
  BY <1>1, <1>2, AppendOn
<1> QED BY <1>3, <1>4, <1>5, <1>6 DEF x

LEMMA TwoStart ==
    ASSUME TwoInv, N = 2, NEW m \in Manager, NEW c \in 0 .. MaxCheckpoint, StartRecovery(m, c)
    PROVE  UpInv' /\ DownInv' /\ QueueInv'
<1>1. /\ channel \in Channels /\ incarnation \in [Manager -> Nat]
      /\ recovering \in [Manager -> BOOLEAN]
      /\ Behind(channel, Up, "second", {}) /\ Behind(channel, Down, "third", {Done})
  BY DEF TwoInv, RecoveryInv, Types, UpInv, DownInv
<1>2. 0 \in Manager /\ 1 \in Manager /\ Peer(0) = 1 /\ Up \in Link /\ Down \in Link
  BY TwoManagers
<1>3. UNCHANGED <<events, restored>> /\ Done' = Done
  BY DEF StartRecovery, Fault, Done
<1>4. CASE m = 0
  <2> DEFINE i == incarnation[0] + 1
  <2>1. /\ channel' = Sent(channel, 0, 1, RestoreCkpt("first", c, i))
        /\ recovering' = [recovering EXCEPT ![0] = TRUE]
        /\ incarnation' = [incarnation EXCEPT ![0] = i]
    BY <1>2, <1>4 DEF StartRecovery, StartMaster
  <2>3. i \in Nat  BY <1>1, <1>2
  <2> HIDE DEF i
  <2>4. "first" \in Token /\ "first" # "second" /\ 0 # 1  BY DEF Token
  <2>5. PICK new \in Channels :
        /\ new = Sent(channel, 0, 1, RestoreCkpt("first", c, i))
        /\ Behind(new, Up, "second", {})
        /\ Behind(new, Down, "third", {Done})
        /\ \A l \in Link : \A y \in On(new, l) :
               IsEvent(y) \/ Carries(y, "second") => y \in On(channel, l)
    BY <1>1, <1>2, <2>3, <2>4, QuietSent
  <2>6. /\ recovering'[0] /\ recovering'[1] = recovering[1] /\ incarnation'[1] = incarnation[1]
    BY <1>1, <1>2, <2>1
  <2> QED BY <1>3, <2>1, <2>5, <2>6, TwoQuiet
<1>5. CASE m # 0
  <2> DEFINE i == incarnation[1]
  <2>1. m = 1  BY <1>5, TwoManagers
  <2>2. /\ channel' = Sent(channel, 1, 0, RestoreCkpt("toMaster", c, i))
        /\ UNCHANGED <<recovering, incarnation>>
    BY <2>1 DEF StartRecovery, StartSlave
  <2>3. i \in Nat  BY <1>1, <1>2
  <2> HIDE DEF i
  <2>4. "toMaster" \in Token /\ "toMaster" # "second" /\ 0 # 1  BY DEF Token
  <2>5. PICK new \in Channels :
        /\ new = Sent(channel, 1, 0, RestoreCkpt("toMaster", c, i))
        /\ Behind(new, Up, "second", {})
        /\ Behind(new, Down, "third", {Done})
        /\ \A l \in Link : \A y \in On(new, l) :
               IsEvent(y) \/ Carries(y, "second") => y \in On(channel, l)
    BY <1>1, <1>2, <2>3, <2>4, QuietSent
  <2> QED BY <1>3, <2>2, <2>5, TwoQuiet
<1> QED BY <1>4, <1>5

LEMMA TwoStartTwice ==
    ASSUME TwoInv, N = 2, NEW m \in Manager, NEW c \in 0 .. MaxCheckpoint,
           NEW d \in 0 .. MaxCheckpoint, StartRecoveryTwice(m, c, d)
    PROVE  UpInv' /\ DownInv' /\ QueueInv'
<1>1. /\ channel \in Channels /\ incarnation \in [Manager -> Nat]
      /\ recovering \in [Manager -> BOOLEAN]
      /\ Behind(channel, Up, "second", {}) /\ Behind(channel, Down, "third", {Done})
  BY DEF TwoInv, RecoveryInv, Types, UpInv, DownInv
<1>2. 0 \in Manager /\ 1 \in Manager /\ Peer(0) = 1 /\ Up \in Link /\ Down \in Link
  BY TwoManagers
<1>3. UNCHANGED <<events, restored>> /\ Done' = Done
  BY DEF StartRecoveryTwice, Fault, Done
<1>4. PICK q \in Manager, r \in Manager, t \in Token, i \in Nat, j \in Nat :
          /\ q # r /\ t # "second"
          /\ channel' = Sent(Sent(channel, q, r, RestoreCkpt(t, c, i)), q, r, RestoreCkpt(t, d, j))
          /\ recovering'[1] = recovering[1] /\ incarnation'[1] = incarnation[1]
          /\ recovering'[0] \/ recovering'[0] = recovering[0]
  <2>1. CASE m = 0
    <3>1. /\ channel' = Sent(Sent(channel, 0, 1, RestoreCkpt("first", c, incarnation[0] + 1)),
                             0, 1, RestoreCkpt("first", d, incarnation[0] + 2))
          /\ recovering'[1] = recovering[1] /\ incarnation'[1] = incarnation[1] /\ recovering'[0]
      BY <1>1, <1>2, <2>1 DEF StartRecoveryTwice
    <3>2. incarnation[0] + 1 \in Nat /\ incarnation[0] + 2 \in Nat  BY <1>1, <1>2
    <3>3. "first" \in Token /\ "first" # "second" /\ 0 # 1  BY DEF Token
    <3> QED BY <1>2, <3>1, <3>2, <3>3
  <2>2. CASE m # 0
    <3>1. m = 1  BY <2>2, TwoManagers
    <3>2. /\ channel' = Sent(Sent(channel, 1, 0, RestoreCkpt("toMaster", c, incarnation[1])),
                             1, 0, RestoreCkpt("toMaster", d, incarnation[1]))
          /\ UNCHANGED <<recovering, incarnation>>
      BY <3>1 DEF StartRecoveryTwice
    <3>3. "toMaster" \in Token /\ "toMaster" # "second" /\ 0 # 1  BY DEF Token
    <3>4. incarnation[1] \in Nat  BY <1>1, <1>2
    <3> QED BY <1>2, <3>2, <3>3, <3>4
  <2> QED BY <2>1, <2>2
<1>5. <<q, r>> \in Link /\ q # r /\ t # "second"  BY <1>4, LinkEnds
<1>6. \E mid \in Channels :
          /\ mid = Sent(channel, q, r, RestoreCkpt(t, c, i))
          /\ Behind(mid, Up, "second", {})
          /\ Behind(mid, Down, "third", {Done})
          /\ \A l \in Link : \A y \in On(mid, l) :
                 IsEvent(y) \/ Carries(y, "second") => y \in On(channel, l)
  BY <1>1, <1>5, QuietSent
<1>7. PICK mid \in Channels :
          /\ mid = Sent(channel, q, r, RestoreCkpt(t, c, i))
          /\ Behind(mid, Up, "second", {})
          /\ Behind(mid, Down, "third", {Done})
          /\ \A l \in Link : \A y \in On(mid, l) :
                 IsEvent(y) \/ Carries(y, "second") => y \in On(channel, l)
  BY <1>6
<1>8. Behind(mid, Up, "second", {}) /\ Behind(mid, Down, "third", {Done})  BY <1>7
<1>9. PICK new \in Channels :
          /\ new = Sent(mid, q, r, RestoreCkpt(t, d, j))
          /\ Behind(new, Up, "second", {})
          /\ Behind(new, Down, "third", {Done})
          /\ \A l \in Link : \A y \in On(new, l) :
                 IsEvent(y) \/ Carries(y, "second") => y \in On(mid, l)
  BY <1>5, <1>8, QuietSent
<1>10. channel' = new  BY <1>4, <1>7, <1>9
<1> QED BY <1>3, <1>4, <1>7, <1>9, <1>10, TwoQuiet

LEMMA BehindNone ==
    ASSUME NEW ch, NEW l, NEW t, NEW A, \A y \in On(ch, l) : ~Carries(y, t)
    PROVE  Behind(ch, l, t, A)
BY DEF Behind, On

\* Messages are taken.
LEMMA TwoShorter ==
    ASSUME TwoInv, N = 2, NEW c, Shorter(c, channel)
    PROVE  /\ c \in Channels
           /\ Behind(c, Up, "second", {}) /\ Behind(c, Down, "third", {Done})
           /\ \A l \in Link : \A y \in On(c, l) : y \in On(channel, l)
<1>1. channel \in Channels /\ Up \in Link /\ Down \in Link
  BY TwoManagers DEF TwoInv, RecoveryInv, Types
<1>2. Behind(channel, Up, "second", {}) /\ Behind(channel, Down, "third", {Done})
  BY DEF TwoInv, UpInv, DownInv
<1>3. Behind(c, Up, "second", {}) /\ Behind(c, Down, "third", {Done})
  BY <1>1, <1>2, ShorterBehind
<1>4. \A l \in Link : On(c, l) \subseteq On(channel, l)  BY <1>1, ShorterOn
<1>5. c \in Channels  BY DEF Shorter
<1> QED BY <1>3, <1>4, <1>5

LEMMA TwoSend ==
    ASSUME TwoInv, N = 2, NEW m \in Manager, NEW d \in Manager, m # d, SendEvent(m, d)
    PROVE  UpInv' /\ DownInv' /\ QueueInv'
<1> DEFINE x == EventMessage(incarnation[m])
           L == {<<m, d>>}
<1>1. /\ UNCHANGED <<recovering, incarnation, events, restored>>
      /\ ~inRecovery[m]
      /\ channel' = Sent(channel, m, d, x)
      /\ channel \in Channels
      /\ Up \in Link /\ Down \in Link
  BY TwoManagers DEF SendEvent, TwoInv, RecoveryInv, Types
<1>2. incarnation[m] = Done /\ Done \in Nat  BY <1>1, Standing DEF TwoInv
<1>3. x \in MessageType /\ IsEvent(x) /\ x.incarnation = Done /\ \A t : ~Carries(x, t)
  BY <1>2, EventMessageIs
<1>4. Done' = Done  BY <1>1 DEF Done
<1> HIDE DEF x
<1>5. channel' = AppendTo(channel, L, x) /\ L \in SUBSET Link  BY <1>1, SentIs
<1> HIDE DEF L
<1>6. \A l \in Link : \A y \in On(channel', l) : y \in On(channel, l) \/ y = x
  BY <1>1, <1>3, <1>5, AppendOn
<1>7. \A l \in Link : \A y \in On(channel, l) : ~Carries(y, "second")
  BY <1>2 DEF TwoInv, RecoveryInv, SecondInv, Entered
<1>8. Behind(channel', Up, "second", {})
  BY <1>1, <1>3, <1>6, <1>7, BehindNone
<1>9. Behind(channel', Down, "third", {Done})
  BY <1>1, <1>3, <1>5, AppendBehind DEF TwoInv, DownInv
<1>10. UpInv'
  <2>1. ~recovering[0] => \A y \in On(channel', Up) : IsEvent(y) => y.incarnation = Done
    BY <1>1, <1>3, <1>6 DEF TwoInv, UpInv
  <2> QED BY <1>1, <1>4, <1>8, <2>1 DEF UpInv, Up
<1>11. DownInv'
  <2>1. ~recovering[1] => \A y \in On(channel', Down) : IsEvent(y) => y.incarnation = Done
    BY <1>1, <1>3, <1>6 DEF TwoInv, DownInv
  <2> QED BY <1>1, <1>4, <1>9, <2>1 DEF DownInv, Down
<1>12. QueueInv'
  BY <1>1, <1>3, <1>4, <1>6, <1>7 DEF TwoInv, QueueInv
<1> QED BY <1>10, <1>11, <1>12

LEMMA TwoDiscard ==
    ASSUME TwoInv, N = 2, Shorter(channel', channel),
           UNCHANGED <<recovering, incarnation, events, restored>>
    PROVE  UpInv' /\ DownInv' /\ QueueInv'
<1>1. Done' = Done  BY DEF Done
<1>2. /\ Behind(channel', Up, "second", {}) /\ Behind(channel', Down, "third", {Done})
      /\ \A l \in Link : \A y \in On(channel', l) : y \in On(channel, l)
  BY TwoShorter
<1> QED BY <1>1, <1>2, TwoQuiet

LEMMA TwoToMaster ==
    ASSUME TwoInv, N = 2, NEW p \in Manager, p # 0, Routed(0, p), Carries(Message(0, p), "toMaster"),
           ToMaster(Taken(0, p), Message(0, p))
    PROVE  UpInv' /\ DownInv' /\ QueueInv'
<1> DEFINE c == Taken(0, p)
           cp == Message(0, p).checkpoint
           i == incarnation[0] + 1
<1>1. /\ channel \in Channels /\ incarnation \in [Manager -> Nat]
      /\ recovering \in [Manager -> BOOLEAN]
      /\ 0 \in Manager /\ 1 \in Manager /\ Peer(0) = 1 /\ Arrives(0, p) /\ 0 # 1
  BY TwoManagers DEF TwoInv, RecoveryInv, Types, Routed
<1>2. cp \in 0 .. MaxCheckpoint /\ i \in Nat
  <2>1. Message(0, p) \in MessageType  BY <1>1, TakenShorterBy
  <2>2. Message(0, p).type = "restore"  BY DEF Carries
  <2>3. cp \in 0 .. MaxCheckpoint  BY <2>1, <2>2, MessageParts
  <2>4. i \in Nat  BY <1>1
  <2> QED BY <2>3, <2>4
<1>3. /\ c \in Channels /\ Behind(c, Up, "second", {}) /\ Behind(c, Down, "third", {Done})
      /\ \A l \in Link : \A y \in On(c, l) : y \in On(channel, l)
  BY <1>1, TakenShorter, TwoShorter
<1>4. /\ channel' = Sent(c, 0, 1, RestoreCkpt("first", cp, i))
      /\ recovering' = [recovering EXCEPT ![0] = TRUE]
      /\ incarnation' = [incarnation EXCEPT ![0] = i]
      /\ UNCHANGED <<events, restored>>
  BY <1>1 DEF ToMaster
<1> HIDE DEF c, cp, i
<1>5. "first" \in Token /\ "first" # "second"  BY DEF Token
<1>6. PICK new \in Channels :
          /\ new = Sent(c, 0, 1, RestoreCkpt("first", cp, i))
          /\ Behind(new, Up, "second", {})
          /\ Behind(new, Down, "third", {Done})
          /\ \A l \in Link : \A y \in On(new, l) :
                 IsEvent(y) \/ Carries(y, "second") => y \in On(c, l)
  BY <1>1, <1>2, <1>3, <1>5, QuietSent
<1>7. recovering'[0] /\ recovering'[1] = recovering[1] /\ incarnation'[1] = incarnation[1]
  BY <1>1, <1>4
<1>8. Done' = Done  BY <1>4 DEF Done
<1> QED BY <1>3, <1>4, <1>6, <1>7, <1>8, TwoQuiet

LEMMA TwoReceiveEvent ==
    ASSUME TwoInv, N = 2, NEW m \in Manager, NEW p \in Manager, p # m, ReceiveEvent(m, p)
    PROVE  UpInv' /\ DownInv' /\ QueueInv'
<1> DEFINE i == Message(m, p).incarnation
<1>1. /\ RecoveryInv /\ channel \in Channels /\ events \in [Manager -> SUBSET Nat]
      /\ Arrives(m, p) /\ ~Dropped(m, Message(m, p)) /\ <<p, m>> \in Link
      /\ IsEvent(Message(m, p))
  BY LinkEnds DEF TwoInv, RecoveryInv, Types, ReceiveEvent, Routed, IsEvent
<1>2. /\ UNCHANGED <<recovering, incarnation, restored>>
      /\ events' = [events EXCEPT ![m] = @ \cup {i}]
      /\ channel' = Taken(m, p)
  BY DEF ReceiveEvent
<1>3. Message(m, p) \in On(channel, <<p, m>>) /\ Message(m, p) \in MessageType
  BY <1>1, TakenShorterBy
<1>4. i \in Nat /\ i <= Done  BY <1>1, <1>3, MessageParts DEF RecoveryInv, EventInv
<1>5. inRecovery[m] => i >= incarnation[m]
  BY <1>1, <1>4, Standing DEF Dropped
<1> HIDE DEF i
<1>6. Done' = Done  BY <1>2 DEF Done
<1>7. /\ Behind(channel', Up, "second", {}) /\ Behind(channel', Down, "third", {Done})
      /\ \A l \in Link : \A y \in On(channel', l) : y \in On(channel, l)
  BY <1>1, <1>2, TakenShorter, TwoShorter
<1>8. Up \in Link /\ Down \in Link  BY TwoManagers
<1>9. UpInv'  BY <1>2, <1>6, <1>7, <1>8 DEF TwoInv, UpInv, Up
<1>10. DownInv'  BY <1>2, <1>6, <1>7, <1>8 DEF TwoInv, DownInv, Down
<1>11. /\ m = 0 => \A l \in Link : \A y \in On(channel, l) : ~Carries(y, "second")
       /\ m = 0 /\ ~recovering[0] => i = Done
       /\ m = 1 => i = incarnation[1]
  <2>1. CASE m = 0
    <3>1. <<p, m>> = Up  BY <1>1, <2>1, TwoManagers DEF Up, Down
    <3>2. ~recovering[0] => i = Done
      BY <1>1, <1>3, <3>1 DEF TwoInv, UpInv, i
    <3>3. ASSUME NEW l \in Link, NEW y \in On(channel, l), Carries(y, "second")  PROVE FALSE
      <4>1. recovering[0] /\ Entered(0)  BY <1>1, <3>3, Standing DEF RecoveryInv, SecondInv
      <4>2. inRecovery[0]  BY <1>1, <4>1, Standing
      <4>3. incarnation[0] = Done + 1  BY <4>1 DEF Entered
      <4> QED BY <1>1, <1>4, <1>5, <2>1, <4>2, <4>3, Standing
    <3> QED BY <2>1, <3>2, <3>3
  <2>2. CASE m # 0
    <3>1. m = 1 /\ <<p, m>> = Down  BY <1>1, <2>2, TwoManagers DEF Up, Down
    <3>2. CASE recovering[1]
      <4>1. inRecovery[1] /\ Done <= incarnation[1] /\ incarnation[1] \in Nat
        BY <1>1, <3>1, <3>2, Standing
      <4> QED BY <1>1, <1>4, <1>5, <2>2, <3>1, <4>1, Standing
    <3>3. CASE ~recovering[1]
      <4>1. i = Done  BY <1>1, <1>3, <3>1, <3>3 DEF TwoInv, DownInv, i
      <4>2. incarnation[1] = Done  BY <1>1, <3>1, <3>3, Standing
      <4> QED BY <2>2, <4>1, <4>2
    <3> QED BY <3>2, <3>3
  <2> QED BY <2>1, <2>2
<1>12. QueueInv'
  <2>1. 0 \in Manager /\ 1 \in Manager /\ m \in {0, 1}  BY TwoManagers
  <2>2. m = 0 => events'[0] = events[0] \cup {i} /\ events'[1] = events[1]
    BY <1>1, <1>2, <2>1
  <2>3. m = 1 => events'[1] = events[1] \cup {i} /\ events'[0] = events[0]
    BY <1>1, <1>2, <2>1
  <2> QED BY <1>2, <1>6, <1>7, <1>11, <2>1, <2>2, <2>3 DEF TwoInv, QueueInv
<1> QED BY <1>9, <1>10, <1>12

LEMMA TwoFirstAtMaster ==
    ASSUME TwoInv, N = 2, NEW p \in Manager, p # 0, Routed(0, p), Carries(Message(0, p), "first"),
           recovering[0], FirstAtMaster(Taken(0, p), Message(0, p))
    PROVE  UpInv' /\ DownInv' /\ QueueInv'
<1> DEFINE cp == Min({last[0], Message(0, p).checkpoint})
           x == RestoreCkpt("second", cp, incarnation[0])
<1>1. /\ channel \in Channels /\ incarnation \in [Manager -> Nat]
      /\ last \in [Manager -> 0 .. MaxCheckpoint] /\ events \in [Manager -> SUBSET Nat]
      /\ Arrives(0, p)
      /\ 0 \in Manager /\ 1 \in Manager /\ Peer(0) = 1 /\ 0 # 1
      /\ Up \in Link /\ Down \in Link /\ Up # Down
  BY TwoManagers DEF TwoInv, RecoveryInv, Types, Routed
<1>2. cp \in 0 .. MaxCheckpoint
  <2>1. Message(0, p) \in MessageType  BY <1>1, TakenShorterBy
  <2>2. Message(0, p).type = "restore"  BY DEF Carries
  <2>3. Message(0, p).checkpoint \in 0 .. MaxCheckpoint  BY <2>1, <2>2, MessageParts
  <2>4. last[0] \in 0 .. MaxCheckpoint  BY <1>1
  <2>5. last[0] \in Nat /\ Message(0, p).checkpoint \in Nat  BY <2>3, <2>4, Numbers
  <2>6. cp \in {last[0], Message(0, p).checkpoint}  BY <2>5, MinOfTwo
  <2> QED BY <2>3, <2>4, <2>6
<1> HIDE DEF cp
<1>3. x \in MessageType /\ ~IsEvent(x)
  <2>1. incarnation[0] \in Nat /\ "second" \in Token  BY <1>1 DEF Token
  <2> QED BY <1>2, <2>1, RestoreCkptIs
<1>4. PICK d \in Drains(Taken(0, p), 0, incarnation[0]) :
          channel' = Sent(Left(Taken(0, p), 0, d), 0, 1, x)
  BY <1>1 DEF FirstAtMaster, cp
<1>5. /\ events' = [events EXCEPT ![0] = {}]
      /\ UNCHANGED <<recovering, incarnation, restored>>
  BY DEF FirstAtMaster, Purged
<1> DEFINE c == Left(Taken(0, p), 0, d)
<1>6. Shorter(c, channel)
  <2>1. Shorter(Taken(0, p), channel)  BY <1>1, TakenShorter
  <2>2. Taken(0, p) \in Channels  BY <2>1 DEF Shorter
  <2>3. Shorter(c, Taken(0, p))  BY <1>1, <2>2, LeftShorter
  <2> QED BY <1>1, <2>1, <2>3, ShorterTrans
<1> HIDE DEF c, x
<1>7. /\ c \in Channels /\ Behind(c, Up, "second", {}) /\ Behind(c, Down, "third", {Done})
      /\ \A l \in Link : \A y \in On(c, l) : y \in On(channel, l)
  BY <1>6, TwoShorter
<1>8. channel' = AppendTo(c, {<<0, 1>>}, x) /\ {<<0, 1>>} \in SUBSET Link
  BY <1>1, <1>4, <1>7, SentIs DEF c
<1>9. /\ Behind(channel', Up, "second", {}) /\ Behind(channel', Down, "third", {Done})
      /\ \A l \in Link : \A y \in On(channel', l) : IsEvent(y) => y \in On(channel, l)
  BY <1>1, <1>3, <1>7, <1>8, AppendBehind, AppendOn
<1>10. Done' = Done  BY <1>5 DEF Done
<1>11. UpInv'  BY <1>1, <1>5, <1>9, <1>10 DEF TwoInv, UpInv, Up
<1>12. DownInv'  BY <1>1, <1>5, <1>9, <1>10 DEF TwoInv, DownInv, Down
<1>13. QueueInv'
  <2>1. events'[0] = {} /\ events'[1] = events[1]  BY <1>1, <1>5
  <2> QED BY <1>5, <2>1 DEF TwoInv, QueueInv
<1> QED BY <1>11, <1>12, <1>13

\* SECOND_CYCLE has pushed out the events of the slave before it.
LEMMA TwoSecondAtMaster ==
    ASSUME TwoInv, N = 2, NEW p \in Manager, p # 0, Routed(0, p), Carries(Message(0, p), "second"),
           SecondAtMaster(Taken(0, p), Message(0, p))
    PROVE  UpInv' /\ DownInv' /\ QueueInv'
<1> DEFINE cp == Message(0, p).checkpoint
           x == RestoreCkpt("third", cp, incarnation[0])
           e == EventMessage(incarnation[0])
           c == Taken(0, p)
           mid == Third(c, cp)
           F == {l \in Link : l[1] = 0}
<1>1. /\ RecoveryInv /\ channel \in Channels /\ recovering \in [Manager -> BOOLEAN]
      /\ Arrives(0, p) /\ p = 1 /\ <<p, 0>> = Up
      /\ 0 \in Manager /\ 1 \in Manager /\ 0 # 1 /\ Slave \subseteq Manager /\ 1 \in Slave
      /\ Up \in Link /\ Down \in Link
  BY TwoManagers DEF TwoInv, RecoveryInv, Types, Routed, Up
<1>2. /\ incarnation[0] = Done + 1 /\ Done \in Nat
      /\ \A s \in Manager : Entered(s)
      /\ cp \in 0 .. MaxCheckpoint
      /\ CycleFree(c)
      /\ \A l \in Link : \A y \in On(channel, l) : ~Carries(y, "third")
  BY <1>1, SecondAtMasterFacts, Standing
<1>3. \A y \in On(c, Up) : ~IsEvent(y)
  <2>1. Behind(channel, <<p, 0>>, "second", {})  BY <1>1 DEF TwoInv, UpInv
  <2>2. \A y \in On(Taken(0, p), <<p, 0>>) : IsEvent(y) => y.incarnation \in {}
    BY <1>1, <2>1, TakenBehind
  <2> QED BY <1>1, <2>2
<1>4. events[0] = {}
  <2>1. Message(0, p) \in On(channel, <<p, 0>>)  BY <1>1, TakenShorterBy
  <2> QED BY <1>1, <2>1 DEF TwoInv, QueueInv
<1>5. /\ c \in Channels /\ \A l \in Link : \A y \in On(c, l) : y \in On(channel, l)
  BY <1>1, TakenShorter, TwoShorter
<1>6. PICK D \in SUBSET Slave : Restore(0, mid, cp, D)  BY DEF SecondAtMaster
<1> DEFINE E == {l \in Link : l[1] = 0 /\ l[2] \in D}
<1> HIDE DEF cp
<1>7. /\ x \in MessageType /\ ~IsEvent(x) /\ ~Carries(x, "second")
  <2>1. incarnation[0] \in Nat /\ "third" \in Token /\ "third" # "second"  BY <1>2 DEF Token
  <2> QED BY <1>2, <2>1, RestoreCkptIs
<1>8. e \in MessageType /\ e.incarnation = Done + 1 /\ ~Carries(e, "second")
  BY <1>2, EventMessageIs
<1>9. mid = AppendTo(c, F, x) /\ F \in SUBSET Link /\ E \in SUBSET Link /\ Up \notin F /\ Up \notin E
  BY <1>1, <1>5, ThirdIs DEF Up
<1> HIDE DEF x, e, c, mid, F
<1>10. mid \in Channels  BY <1>5, <1>7, <1>9, AppendTyped
<1>11. /\ channel' = AppendTo(mid, E, e)
       /\ recovering' = [recovering EXCEPT ![0] = FALSE]
       /\ restored' = [restored EXCEPT ![0] = Append(@, cp)]
       /\ UNCHANGED <<incarnation, events>>
  <2>1. D \in SUBSET Manager  BY <1>1
  <2>2. /\ channel' = AppendTo(mid, {l \in Link : l[1] = 0 /\ l[2] \in D}, EventMessage(incarnation[0]))
        /\ inRecovery' = [inRecovery EXCEPT ![0] = FALSE]
        /\ recovering' = [recovering EXCEPT ![0] = FALSE]
        /\ last' = [last EXCEPT ![0] = cp]
        /\ restored' = [restored EXCEPT ![0] = Append(@, cp)]
        /\ UNCHANGED <<incarnation, events>>
    BY ONLY <1>1, <1>6, <1>10, <2>1, RestoreIs
  <2> QED BY <2>2 DEF e
<1> HIDE DEF E
<1>12. Done' = Done + 1
  BY <1>1, <1>2, <1>11, RestoredAppend DEF RecoveryInv, Done
<1>13. \A l \in Link : \A y \in On(mid, l) : y \in On(c, l) \/ (l \in F /\ y = x)
  BY <1>5, <1>7, <1>9, AppendOn
<1>14. \A l \in Link : \A y \in On(channel', l) : y \in On(mid, l) \/ (l \in E /\ y = e)
  BY <1>8, <1>9, <1>10, <1>11, AppendOn
<1>15. \A l \in Link : \A y \in On(channel', l) : ~Carries(y, "second")
  BY <1>2, <1>7, <1>8, <1>13, <1>14 DEF CycleFree, IsCycle
<1>16. UpInv'
  <2>1. \A y \in On(channel', Up) : ~IsEvent(y)  BY <1>1, <1>3, <1>9, <1>13, <1>14
  <2>2. Behind(channel', Up, "second", {})  BY <1>1, <1>15, BehindNone
  <2> QED BY <2>1, <2>2 DEF UpInv, Up
<1>17. DownInv'
  <2>1. recovering'[1]
    <3>1. recovering[1]  BY <1>1, <1>2, Standing
    <3> QED BY <1>1, <1>11, <3>1
  <2>2. \A y \in On(c, Down) : ~Carries(y, "third")  BY <1>1, <1>2, <1>5
  <2>3. Behind(c, Down, "third", {Done + 1})  BY <2>2, BehindNone
  <2>4. Behind(mid, Down, "third", {Done + 1})
    BY <1>1, <1>5, <1>7, <1>9, <2>3, AppendBehind
  <2>5. e.incarnation \in {Done + 1}  BY <1>8
  <2>6. Behind(channel', Down, "third", {Done + 1})
    BY <1>1, <1>8, <1>9, <1>10, <1>11, <2>4, <2>5, AppendBehind
  <2> QED BY <1>12, <2>1, <2>6 DEF DownInv, Down
<1>18. QueueInv'  BY <1>4, <1>11, <1>15 DEF TwoInv, QueueInv
<1> QED BY <1>16, <1>17, <1>18

LEMMA TwoFirstAtSlave ==
    ASSUME TwoInv, N = 2, NEW m \in Slave, NEW p \in Manager, p # m, Routed(m, p),
           Carries(Message(m, p), "first"), FirstAtSlave(m, Taken(m, p), Message(m, p))
    PROVE  UpInv' /\ DownInv' /\ QueueInv'
<1> DEFINE cp == Message(m, p).checkpoint
           i == incarnation[1] + 1
<1>1. /\ RecoveryInv /\ channel \in Channels /\ incarnation \in [Manager -> Nat]
      /\ recovering \in [Manager -> BOOLEAN] /\ events \in [Manager -> SUBSET Nat]
      /\ m = 1 /\ m \in Manager /\ Arrives(m, p) /\ <<p, m>> \in Link
      /\ 0 \in Manager /\ 1 \in Manager /\ Peer(1) = 0 /\ 0 # 1
      /\ Up \in Link /\ Down \in Link
  BY TwoManagers, LinkEnds DEF TwoInv, RecoveryInv, Types, Routed
<1>2. Message(m, p) \in MessageType /\ Message(m, p) \in On(channel, <<p, m>>)
  BY <1>1, TakenShorterBy
<1>3. cp \in 0 .. MaxCheckpoint
  <2>1. Message(m, p).type = "restore"  BY DEF Carries
  <2> QED BY <1>2, <2>1, MessageParts
<1>4. recovering[0]  BY <1>1, <1>2 DEF RecoveryInv, FirstInv
<1>5. PICK d \in Drains(Taken(m, p), m, i) :
          channel' = Sent(Left(Taken(m, p), m, d), 1, 0, RestoreCkpt("first", cp, i))
  BY <1>1 DEF FirstAtSlave
<1>6. /\ recovering' = [recovering EXCEPT ![1] = TRUE]
      /\ events' = [events EXCEPT ![1] = {}]
      /\ UNCHANGED restored
  BY <1>1 DEF FirstAtSlave, Purged
<1>7. i \in Nat /\ "first" \in Token /\ "first" # "second"  BY <1>1 DEF Token
<1> DEFINE c == Left(Taken(m, p), m, d)
<1> HIDE DEF cp, i
<1>8. Shorter(c, channel)
  <2>1. Shorter(Taken(m, p), channel)  BY <1>1, TakenShorter
  <2>2. Taken(m, p) \in Channels  BY <2>1 DEF Shorter
  <2>3. Shorter(c, Taken(m, p))  BY <1>1, <2>2, LeftShorter
  <2> QED BY <1>1, <2>1, <2>3, ShorterTrans
<1> HIDE DEF c
<1>9. /\ c \in Channels /\ Behind(c, Up, "second", {}) /\ Behind(c, Down, "third", {Done})
      /\ \A l \in Link : \A y \in On(c, l) : y \in On(channel, l)
  BY <1>8, TwoShorter
<1>10. PICK new \in Channels :
          /\ new = Sent(c, 1, 0, RestoreCkpt("first", cp, i))
          /\ Behind(new, Up, "second", {})
          /\ Behind(new, Down, "third", {Done})
          /\ \A l \in Link : \A y \in On(new, l) :
                 IsEvent(y) \/ Carries(y, "second") => y \in On(c, l)
  BY <1>1, <1>3, <1>7, <1>9, QuietSent
<1>11. channel' = new  BY <1>5, <1>10 DEF c
<1>12. recovering'[0] /\ recovering'[1] /\ events'[1] = {} /\ events'[0] = events[0]
  BY <1>1, <1>4, <1>6
<1>13. Done' = Done  BY <1>6 DEF Done
<1>14. UpInv' /\ DownInv'  BY <1>10, <1>11, <1>12, <1>13 DEF UpInv, DownInv, Up, Down
<1>15. QueueInv'
  <2>1. \A l \in Link : \A y \in On(channel', l) : Carries(y, "second") => y \in On(channel, l)
    BY <1>9, <1>10, <1>11
  <2> QED BY <1>12, <2>1 DEF TwoInv, QueueInv
<1> QED BY <1>14, <1>15

LEMMA TwoSecondAtSlave ==
    ASSUME TwoInv, N = 2, NEW m \in Slave, NEW p \in Manager, p # m, Routed(m, p),
           Carries(Message(m, p), "second"), SecondAtSlave(m, Taken(m, p), Message(m, p))
    PROVE  UpInv' /\ DownInv' /\ QueueInv'
<1> DEFINE cp == OwnCheckpoint(m, Message(m, p))
           i == incarnation[1]
           x == RestoreCkpt("second", cp, i)
<1>1. /\ RecoveryInv /\ channel \in Channels /\ incarnation \in [Manager -> Nat]
      /\ last \in [Manager -> 0 .. MaxCheckpoint] /\ events \in [Manager -> SUBSET Nat]
      /\ m = 1 /\ m \in Manager /\ Arrives(m, p) /\ <<p, m>> \in Link
      /\ 0 \in Manager /\ 1 \in Manager /\ Peer(1) = 0 /\ 0 # 1
      /\ Up \in Link /\ Down \in Link /\ i \in Nat
  BY TwoManagers, LinkEnds DEF TwoInv, RecoveryInv, Types, Routed
<1>2. Message(m, p) \in MessageType /\ Message(m, p) \in On(channel, <<p, m>>)
  BY <1>1, TakenShorterBy
<1>3. cp \in 0 .. MaxCheckpoint
  <2>1. Message(m, p).type = "restore"  BY DEF Carries
  <2>2. Message(m, p).checkpoint \in 0 .. MaxCheckpoint  BY <1>2, <2>1, MessageParts
  <2>3. last[m] \in 0 .. MaxCheckpoint  BY <1>1
  <2>4. last[m] \in Nat /\ Message(m, p).checkpoint \in Nat  BY <2>2, <2>3, Numbers
  <2>5. cp \in {last[m], Message(m, p).checkpoint}  BY <2>4, MinOfTwo DEF OwnCheckpoint
  <2> QED BY <2>2, <2>3, <2>5
<1>4. recovering[0] /\ recovering[1] /\ i = Done + 1 /\ Done \in Nat
  <2>1. recovering[0] /\ Entered(1)  BY <1>1, <1>2 DEF RecoveryInv, SecondInv
  <2> QED BY <1>1, <2>1, Standing DEF Entered
<1>5. events[0] = {}
  BY <1>1, <1>2 DEF TwoInv, QueueInv
<1>6. PICK d \in Drains(Taken(m, p), m, i) :
          /\ channel' = Sent(Left(Taken(m, p), m, d), 1, 0, x)
          /\ events' = [events EXCEPT ![1] = @ \cup Accepted(Taken(m, p), m, i, d)]
  BY <1>1 DEF SecondAtSlave
<1>7. UNCHANGED <<recovering, incarnation, restored>>  BY DEF SecondAtSlave
<1> HIDE DEF cp
<1>8. x \in MessageType /\ ~IsEvent(x)
  <2>1. "second" \in Token  BY DEF Token
  <2> QED BY <1>1, <1>3, <2>1, RestoreCkptIs
<1> DEFINE c == Left(Taken(m, p), m, d)
<1> HIDE DEF i, x
<1>9. /\ Taken(m, p) \in Channels
      /\ \A l \in Link : \A y \in On(Taken(m, p), l) : y \in On(channel, l)
      /\ Shorter(c, channel)
  <2>1. Shorter(Taken(m, p), channel)  BY <1>1, TakenShorter
  <2>2. Taken(m, p) \in Channels  BY <2>1 DEF Shorter
  <2>3. Shorter(c, Taken(m, p))  BY <1>1, <2>2, LeftShorter
  <2> QED BY <1>1, <2>1, <2>2, <2>3, ShorterTrans, TwoShorter
<1>10. Accepted(Taken(m, p), m, i, d) = {}
  <2> SUFFICES ASSUME NEW e \in Accepted(Taken(m, p), m, i, d)  PROVE FALSE
    OBVIOUS
  <2>1. /\ e \in Nat /\ e >= i
        /\ \E l \in Link : \E y \in On(Taken(m, p), l) : IsEvent(y) /\ y.incarnation = e
    BY <1>1, <1>9, AcceptedEvents
  <2>2. e <= Done  BY <1>1, <1>9, <2>1 DEF RecoveryInv, EventInv
  <2> QED BY <1>4, <2>1, <2>2
<1> HIDE DEF c
<1>11. /\ c \in Channels /\ Behind(c, Up, "second", {}) /\ Behind(c, Down, "third", {Done})
       /\ \A l \in Link : \A y \in On(c, l) : y \in On(channel, l)
  BY <1>9, TwoShorter
<1>12. channel' = AppendTo(c, {<<1, 0>>}, x) /\ {<<1, 0>>} \in SUBSET Link
  BY <1>1, <1>6, <1>11, SentIs DEF c
<1>13. Behind(channel', Up, "second", {}) /\ Behind(channel', Down, "third", {Done})
  BY <1>1, <1>8, <1>11, <1>12, AppendBehind
<1>14. Done' = Done  BY <1>7 DEF Done
<1>15. UpInv' /\ DownInv'
  BY <1>4, <1>7, <1>13, <1>14 DEF UpInv, DownInv, Up, Down
<1>16. QueueInv'
  <2>1. events'[0] = {} /\ events'[1] = events[1]  BY <1>1, <1>5, <1>6, <1>10
  <2> QED BY <1>7, <2>1 DEF TwoInv, QueueInv
<1> QED BY <1>15, <1>16

\* What is left on the way to the slave is behind THIRD_CYCLE.
LEMMA TwoThirdAtSlave ==
    ASSUME TwoInv, N = 2, NEW m \in Slave, NEW p \in Manager, p # m, Routed(m, p),
           Carries(Message(m, p), "third"), ThirdAtSlave(m, Taken(m, p), Message(m, p))
    PROVE  UpInv' /\ DownInv' /\ QueueInv'
<1> DEFINE cp == Message(m, p).checkpoint
           e == EventMessage(incarnation[m])
           c == Taken(m, p)
<1>1. /\ RecoveryInv /\ channel \in Channels /\ recovering \in [Manager -> BOOLEAN]
      /\ m = 1 /\ m \in Manager /\ Arrives(m, p) /\ Done \in Nat
      /\ 0 \in Manager /\ 1 \in Manager /\ 0 # 1
      /\ Up \in Link /\ Down \in Link
  BY TwoManagers, Standing DEF TwoInv, RecoveryInv, Types, Routed
<1>2. /\ p = 0 /\ incarnation[m] = Done /\ <<p, m>> = Down
      /\ cp \in 0 .. MaxCheckpoint
  BY <1>1, ThirdAtSlaveFacts DEF Down
<1>3. \A l \in Link : \A y \in On(channel, l) : ~Carries(y, "second")
  <2>1. ~Entered(1)  BY <1>1, <1>2 DEF Entered
  <2> QED BY <1>1, <2>1 DEF RecoveryInv, SecondInv
<1>4. \A y \in On(c, Down) : IsEvent(y) => y.incarnation = Done
  <2>1. Behind(channel, <<p, m>>, "third", {Done})  BY <1>2 DEF TwoInv, DownInv
  <2>2. \A y \in On(c, <<p, m>>) : IsEvent(y) => y.incarnation \in {Done}
    BY <1>1, <2>1, TakenBehind
  <2> QED BY <1>2, <2>2
<1>5. /\ e \in MessageType /\ IsEvent(e) /\ e.incarnation = Done /\ \A t : ~Carries(e, t)
  BY <1>1, <1>2, EventMessageIs
<1>6. /\ c \in Channels /\ Behind(c, Up, "second", {}) /\ Behind(c, Down, "third", {Done})
      /\ \A l \in Link : \A y \in On(c, l) : y \in On(channel, l)
  BY <1>1, TakenShorter, TwoShorter
<1>7. PICK D \in SUBSET (Manager \ {m}) : Restore(m, c, cp, D)  BY DEF ThirdAtSlave
<1> DEFINE E == {l \in Link : l[1] = m /\ l[2] \in D}
<1> HIDE DEF c, cp
<1>8. /\ channel' = AppendTo(c, E, e)
      /\ recovering' = [recovering EXCEPT ![m] = FALSE]
      /\ restored' = [restored EXCEPT ![m] = Append(@, cp)]
      /\ UNCHANGED <<incarnation, events>>
  <2>1. D \in SUBSET Manager  OBVIOUS
  <2>2. /\ channel' = AppendTo(c, {l \in Link : l[1] = m /\ l[2] \in D}, EventMessage(incarnation[m]))
        /\ inRecovery' = [inRecovery EXCEPT ![m] = FALSE]
        /\ recovering' = [recovering EXCEPT ![m] = FALSE]
        /\ last' = [last EXCEPT ![m] = cp]
        /\ restored' = [restored EXCEPT ![m] = Append(@, cp)]
        /\ UNCHANGED <<incarnation, events>>
    BY ONLY <1>1, <1>6, <1>7, <2>1, RestoreIs, SMTT(30)
  <2> QED BY <2>2 DEF e
<1>9. E \in SUBSET Link /\ Down \notin E  BY <1>1 DEF Down
<1> HIDE DEF e, E
<1>10. Done' = Done /\ recovering'[0] = recovering[0]  BY <1>1, <1>8 DEF Done
<1>11. \A l \in Link : \A y \in On(channel', l) : y \in On(c, l) \/ (l \in E /\ y = e)
  BY <1>5, <1>6, <1>8, <1>9, AppendOn
<1>12. \A l \in Link : \A y \in On(channel', l) : ~Carries(y, "second")
  BY <1>3, <1>5, <1>6, <1>11
<1>13. UpInv'
  <2>1. Behind(channel', Up, "second", {})  BY <1>1, <1>12, BehindNone
  <2>2. ~recovering[0] => \A y \in On(channel', Up) : IsEvent(y) => y.incarnation = Done
    BY <1>1, <1>5, <1>6, <1>11 DEF TwoInv, UpInv
  <2> QED BY <1>10, <2>1, <2>2 DEF UpInv, Up
<1>14. DownInv'
  <2>1. \A y \in On(channel', Down) : IsEvent(y) => y.incarnation = Done
    BY <1>1, <1>4, <1>9, <1>11
  <2>2. e.incarnation \in {Done}  BY <1>5
  <2>3. Behind(channel', Down, "third", {Done})
    BY <1>1, <1>5, <1>6, <1>8, <1>9, <2>2, AppendBehind
  <2> QED BY <1>10, <2>1, <2>3 DEF DownInv, Down
<1>15. QueueInv'
  BY <1>8, <1>10, <1>12 DEF TwoInv, QueueInv
<1> QED BY <1>13, <1>14, <1>15

LEMMA NextTwoInv == N = 2 /\ TwoInv /\ [Next]_vars => TwoInv'
<1> SUFFICES ASSUME N = 2, TwoInv, [Next]_vars PROVE TwoInv'
  OBVIOUS
<1>1. RecoveryInv'  BY NextRecoveryInv DEF TwoInv
<1>2. UpInv' /\ DownInv' /\ QueueInv'
  <2>1. CASE \E m \in Manager : Advance(m) \/ StepBack(m)  BY <2>1, TwoMoves
  <2>2. CASE \E m \in Manager, c \in 0 .. MaxCheckpoint : StartRecovery(m, c)
    BY <2>2, TwoStart
  <2>3. CASE \E m \in Manager, c, d \in 0 .. MaxCheckpoint : StartRecoveryTwice(m, c, d)
    BY <2>3, TwoStartTwice
  <2>4. CASE \E l \in Link : SendEvent(l[1], l[2])  BY <2>4, LinkEnds, TwoSend
  <2>5. CASE \E l \in Link : Receive(l[2], l[1])
    <3>1. PICK l \in Link : Receive(l[2], l[1])  BY <2>5
    <3>2. PICK m \in Manager, p \in Manager : p # m /\ Receive(m, p)  BY <3>1, LinkEnds
    <3>3. CASE ReceiveEvent(m, p)  BY <3>2, <3>3, TwoReceiveEvent
    <3>4. CASE Discard(m, p)
      <4>1. channel \in Channels  BY DEF TwoInv, RecoveryInv, Types
      <4>2. Shorter(channel', channel)  BY <3>2, <3>4, <4>1, TakenShorter DEF Discard
      <4> QED BY <3>4, <4>2, TwoDiscard DEF Discard
    <3>5. CASE ReceiveRestore(m, p)
      BY <3>2, <3>5, ReceiveRestoreCases, TwoToMaster, TwoFirstAtMaster, TwoSecondAtMaster,
         TwoFirstAtSlave, TwoSecondAtSlave, TwoThirdAtSlave
    <3> QED BY <3>2, <3>3, <3>4, <3>5 DEF Receive
  <2>6. CASE UNCHANGED vars
    <3>1. channel \in Channels /\ channel' = channel
      BY <2>6 DEF TwoInv, RecoveryInv, Types, vars
    <3>2. Shorter(channel', channel)  BY <3>1, ShorterSelf
    <3> QED BY <2>6, <3>2, TwoDiscard DEF vars
  <2> QED BY <2>1, <2>2, <2>3, <2>4, <2>5, <2>6 DEF Next
<1> QED BY <1>1, <1>2 DEF TwoInv

LEMMA InitTwoInv == N = 2 /\ Init => TwoInv
<1> SUFFICES ASSUME N = 2, Init PROVE TwoInv
  OBVIOUS
<1>1. RecoveryInv  BY InitRecoveryInv
<1>2. 0 \in Manager /\ 1 \in Manager /\ Up \in Link /\ Down \in Link  BY TwoManagers
<1>3. \A l \in Link : On(channel, l) = {}
  <2>1. \A l \in Link : channel[l] = <<>> /\ Len(channel[l]) = 0  BY DEF Init
  <2> QED BY <2>1 DEF On
<1>4. events[0] = {} /\ events[1] = {}  BY <1>2 DEF Init
<1>5. Behind(channel, Up, "second", {}) /\ Behind(channel, Down, "third", {Done})
  BY <1>2, <1>3, BehindNone
<1> QED BY <1>1, <1>2, <1>3, <1>4, <1>5 DEF TwoInv, UpInv, DownInv, QueueInv

\* With two managers no event of an earlier incarnation is left in the queues of
\* a manager after a recovery: the drains and the incarnation filter of
\* routeMessage() catch all of them, because the channel on which a token returns
\* is the one on which the other manager has sent its events.  (With three
\* managers an event can overtake the token by another channel.)
THEOREM TwoManagersKeepNoOldEvents ==
    ASSUME N = 2
    PROVE  Spec => []NoOldEvents
<1>1. Init => TwoInv  BY InitTwoInv
<1>2. TwoInv /\ [Next]_vars => TwoInv'  BY NextTwoInv
<1>3. TwoInv => NoOldEvents
  <2> SUFFICES ASSUME TwoInv, NEW m \in Manager, ~recovering[m]
               PROVE  events[m] \subseteq {incarnation[m]}
    BY DEF NoOldEvents
  <2>1. RecoveryInv  BY DEF TwoInv
  <2>2. incarnation[m] = Done  BY <2>1, Standing
  <2>3. m \in {0, 1}  BY TwoManagers
  <2> QED BY <2>2, <2>3 DEF TwoInv, QueueInv
<1> QED BY <1>1, <1>2, <1>3, PTL DEF Spec
=============================================================================
