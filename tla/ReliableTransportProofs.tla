----------------------- MODULE ReliableTransportProofs -----------------------
(* The UDPSelect layer implements FIFO channels, for every number of            *)
(* communicators and messages and every behaviour of the network, as long as no *)
(* sequence number reaches the modulus of the datagrams.                        *)
EXTENDS ReliableTransport, SequenceTheorems, TLAPS

\* No number leaves the 32 bits it has in a datagram.
NoWrap == \A i, j \in Id : Quota[i][j] < WireModulus

Matrix(T) == [Id -> [Id -> T]]

\* The types of the variables, their domains included.
Types ==
    /\ nextSendSequenceNumber \in Matrix(Nat)
    /\ acknowledgedSequenceNumberReceived \in Matrix(Nat)
    /\ acknowledgedSequenceNumberSent \in Matrix(Nat)
    /\ highestInSequenceNumberReceived \in Matrix(Nat)
    /\ sendQs \in Matrix(Seq(Nat))
    /\ outOfOrderMessageQs \in Matrix(Seq(Nat \X Nat))
    /\ inOrderMessageQ \in [Id -> Seq(Id \X Nat)]
    /\ DOMAIN reading = Id
    /\ \A n \in Id : reading[n] \in [src : Peers(n) \cup {None}, left : SUBSET Peers(n),
                                     req : BOOLEAN, dup : BOOLEAN, moving : BOOLEAN]
    /\ delivered \in Matrix(Seq(Nat))
    /\ losses \in 0..MaxLoss /\ dups \in 0..MaxDup

\* What the ends of the channel from i to j know of each other's numbers.
Numbers ==
    \A i, j \in Id :
      /\ nextSendSequenceNumber[i][j] \in 1..(Quota[i][j] + 1)
      /\ highestInSequenceNumberReceived[j][i] < nextSendSequenceNumber[i][j]
      /\ acknowledgedSequenceNumberReceived[i][j] <= highestInSequenceNumberReceived[j][i]
      /\ acknowledgedSequenceNumberSent[j][i] <= highestInSequenceNumberReceived[j][i]

\* A datagram carries a message that was sent, under its own number, and an
\* acknowledgement its sender could still give.
DatagramOK(d) ==
    /\ d.from \in Id /\ d.to \in Peers(d.from)
    /\ d.ack \in Nat /\ d.ack <= highestInSequenceNumberReceived[d.from][d.to]
    /\ d.user => /\ d.seq = d.data
                 /\ d.seq \in 1..(nextSendSequenceNumber[d.from][d.to] - 1)

NetOK == \A d \in net : DatagramOK(d)

\* So does an entry of an out of order queue.
OutQueueOK(q, next) ==
    /\ Len(q) <= MaxOutOfOrder
    /\ \A k \in 1..Len(q) : q[k][1] = q[k][2] /\ q[k][1] \in 1..(next - 1)

OutOK == \A i, j \in Id : OutQueueOK(outOfOrderMessageQs[j][i], nextSendSequenceNumber[i][j])

\* A send queue holds messages that were sent, and all that are not acknowledged.
SendQueueOK(q, next, acked) ==
    /\ \A k \in 1..Len(q) : q[k] \in 1..(next - 1)
    /\ \A x \in 1..(next - 1) : x <= acked \/ \E k \in 1..Len(q) : q[k] = x

SendOK ==
    \A i, j \in Id : SendQueueOK(sendQs[i][j], nextSendSequenceNumber[i][j],
                                 acknowledgedSequenceNumberReceived[i][j])

\* What was handed over of a channel is 1, 2, 3, ...
HandedOverOK(del, highest) ==
    /\ Len(del) <= highest
    /\ \A k \in 1..Len(del) : del[k] = k

DeliveredOK ==
    \A i, j \in Id : HandedOverOK(delivered[j][i], highestInSequenceNumberReceived[j][i])

\* The messages of each source in the in order queue go on from there, up to the
\* highest number received.
InOrder(q, del, highest) ==
    /\ \A k \in 1..Len(q) : Len(del[q[k][1]]) < q[k][2] /\ q[k][2] <= highest[q[k][1]]
    /\ \A k, l \in 1..Len(q) : k < l /\ q[k][1] = q[l][1] => q[k][2] < q[l][2]
    /\ \A i \in Id : \A x \in Nat :
         Len(del[i]) < x /\ x <= highest[i] => \E k \in 1..Len(q) : q[k] = <<i, x>>

OrderOK ==
    \A j \in Id : InOrder(inOrderMessageQ[j], delivered[j], highestInSequenceNumberReceived[j])

\* The inductive invariant.
TransportInv == Types /\ Numbers /\ NetOK /\ OutOK /\ SendOK /\ DeliveredOK /\ OrderOK

-----------------------------------------------------------------------------
(* Numbers, updates and sequences *)

LEMMA WireSame ==
  ASSUME NoWrap, NEW i \in Id, NEW j \in Id, NEW x \in Nat, x <= Quota[i][j]
  PROVE  Wire(x) = x
<1>1. WireModulus \in Nat /\ x < WireModulus
  BY TransportAssumption DEF NoWrap
<1> QED
  BY <1>1 DEF Wire

LEMMA MatrixType ==
  ASSUME NEW T, NEW f \in Matrix(T), NEW i \in Id, NEW j \in Id
  PROVE  f[i][j] \in T
BY DEF Matrix

LEMMA NumberTypes ==
  ASSUME Types, NEW i \in Id, NEW j \in Id
  PROVE  /\ nextSendSequenceNumber[i][j] \in Nat /\ acknowledgedSequenceNumberReceived[i][j] \in Nat
         /\ acknowledgedSequenceNumberSent[i][j] \in Nat /\ highestInSequenceNumberReceived[i][j] \in Nat
         /\ Quota[i][j] \in Nat
<1>1. Quota[i][j] \in Nat
  BY TransportAssumption
<1> QED
  BY <1>1, MatrixType DEF Types

LEMMA AppendedTo ==
  ASSUME NEW T, NEW s \in Seq(T), NEW x \in T
  PROVE  /\ Append(s, x) \in Seq(T) /\ Len(s) \in Nat /\ Len(Append(s, x)) = Len(s) + 1
         /\ \A k \in 1..Len(s) : Append(s, x)[k] = s[k]
         /\ Append(s, x)[Len(s) + 1] = x
OBVIOUS

LEMMA TailOf ==
  ASSUME NEW T, NEW s \in Seq(T), s # <<>>
  PROVE  /\ Tail(s) \in Seq(T) /\ Len(s) \in Nat /\ Len(s) > 0 /\ Len(Tail(s)) = Len(s) - 1
         /\ \A k \in 1..Len(Tail(s)) : Tail(s)[k] = s[k + 1]
         /\ Head(s) = s[1] /\ Head(s) \in T
OBVIOUS

LEMMA SuffixOf ==
  ASSUME NEW T, NEW s \in Seq(T), NEW k \in 0..Len(s)
  PROVE  /\ SubSeq(s, k + 1, Len(s)) \in Seq(T)
         /\ Len(SubSeq(s, k + 1, Len(s))) = Len(s) - k
         /\ \A x \in 1..(Len(s) - k) : SubSeq(s, k + 1, Len(s))[x] = s[k + x]
OBVIOUS

\* Datagrams stay good while the numbers grow.
LEMMA DatagramsStay ==
  ASSUME Types, NEW d, DatagramOK(d),
         nextSendSequenceNumber' \in Matrix(Nat), highestInSequenceNumberReceived' \in Matrix(Nat),
         \A i, j \in Id : /\ nextSendSequenceNumber[i][j] <= nextSendSequenceNumber'[i][j]
                          /\ highestInSequenceNumberReceived[i][j] <= highestInSequenceNumberReceived'[i][j]
  PROVE  DatagramOK(d)'
<1>1. d.from \in Id /\ d.to \in Id
  BY DEF DatagramOK, Peers
<1>2. /\ nextSendSequenceNumber[d.from][d.to] \in Nat /\ nextSendSequenceNumber'[d.from][d.to] \in Nat
      /\ highestInSequenceNumberReceived[d.from][d.to] \in Nat
      /\ highestInSequenceNumberReceived'[d.from][d.to] \in Nat
  BY <1>1, MatrixType DEF Types
<1> QED
  BY <1>1, <1>2 DEF DatagramOK

\* What a user datagram that is sent now carries.
LEMMA UserDatagramFields ==
  ASSUME NoWrap, Types, Numbers, NEW n \in Id, NEW dest \in Peers(n), NEW seq \in Nat, seq <= Quota[n][dest]
  PROVE  LET d == UserDatagram(n, dest, seq) IN
         /\ d.from = n /\ d.to = dest /\ d.user
         /\ d.ack = highestInSequenceNumberReceived[n][dest] /\ d.ack \in Nat
         /\ d.seq = seq /\ d.data = seq
<1>1. dest \in Id
  BY DEF Peers
<1>2. /\ highestInSequenceNumberReceived[n][dest] \in Nat
      /\ nextSendSequenceNumber[dest][n] \in Nat
      /\ Quota[dest][n] \in Nat
  BY <1>1, MatrixType, TransportAssumption, SMTT(60) DEF Types
<1>3. highestInSequenceNumberReceived[n][dest] <= Quota[dest][n]
  BY <1>1, <1>2 DEF Numbers
<1>4. Wire(highestInSequenceNumberReceived[n][dest]) = highestInSequenceNumberReceived[n][dest]
  BY <1>1, <1>2, <1>3, WireSame
<1>5. Wire(seq) = seq
  BY <1>1, WireSame
<1> QED
  BY <1>2, <1>4, <1>5 DEF UserDatagram, Datagram

\* A user datagram with a number that was sent is a good one.
LEMMA UserDatagramOK ==
  ASSUME NoWrap, Types, Numbers, NEW n \in Id, NEW dest \in Peers(n), NEW seq \in Nat,
         seq <= Quota[n][dest],
         highestInSequenceNumberReceived' \in Matrix(Nat), nextSendSequenceNumber' \in Matrix(Nat),
         highestInSequenceNumberReceived[n][dest] <= highestInSequenceNumberReceived'[n][dest],
         seq \in 1..(nextSendSequenceNumber'[n][dest] - 1),
         NEW d, d = UserDatagram(n, dest, seq)
  PROVE  DatagramOK(d)'
<1>1. /\ d.from = n /\ d.to = dest
      /\ d.ack = highestInSequenceNumberReceived[n][dest] /\ d.ack \in Nat
      /\ d.seq = seq /\ d.data = seq
  BY UserDatagramFields
<1>2. dest \in Id
  BY DEF Peers
<1>3. highestInSequenceNumberReceived'[n][dest] \in Nat
  BY <1>2, MatrixType
<1> QED
  BY <1>1, <1>2, <1>3 DEF DatagramOK

\* processNwMsgInfo(): no acknowledgement takes away a message the other end
\* does not have.
LEMMA Processed ==
  ASSUME NoWrap, Types, Numbers, NetOK, SendOK,
         NEW n \in Id, NEW d \in net, d.to = n, NEW rest \in SUBSET net, ProcessNwMsgInfo(n, d, rest),
         UNCHANGED nextSendSequenceNumber,
         highestInSequenceNumberReceived' \in Matrix(Nat),
         \A i, j \in Id :
            highestInSequenceNumberReceived[i][j] <= highestInSequenceNumberReceived'[i][j]
  PROVE  /\ acknowledgedSequenceNumberReceived' \in Matrix(Nat)
         /\ \A i, j \in Id :
               acknowledgedSequenceNumberReceived'[i][j] <= highestInSequenceNumberReceived'[j][i]
         /\ sendQs' \in Matrix(Seq(Nat))
         /\ SendOK' /\ NetOK'
<1> DEFINE s == d.from
           q == sendQs[n][s]
           acked == IF d.ack > acknowledgedSequenceNumberReceived[n][s]
                      THEN d.ack ELSE acknowledgedSequenceNumberReceived[n][s]
<1>1. s \in Id /\ n \in Peers(s) /\ s \in Peers(n) /\ d.ack \in Nat /\ d.ack <= highestInSequenceNumberReceived[s][n]
  BY DEF NetOK, DatagramOK, Peers
<1>2. /\ acknowledgedSequenceNumberReceived[n][s] \in Nat /\ q \in Seq(Nat) /\ Len(q) \in Nat
      /\ acknowledgedSequenceNumberReceived[n][s] <= highestInSequenceNumberReceived[s][n]
      /\ highestInSequenceNumberReceived[s][n] \in Nat
      /\ highestInSequenceNumberReceived'[s][n] \in Nat
  <2>1. acknowledgedSequenceNumberReceived[n][s] <= highestInSequenceNumberReceived[s][n]
    BY <1>1 DEF Numbers
  <2>2. acknowledgedSequenceNumberReceived[n][s] \in Nat /\ highestInSequenceNumberReceived[s][n] \in Nat
    BY <1>1, NumberTypes
  <2>3. q \in Seq(Nat) /\ highestInSequenceNumberReceived'[s][n] \in Nat
    BY <1>1, MatrixType DEF Types
  <2> QED
    BY <2>1, <2>2, <2>3
<1>3. /\ acked \in Nat /\ acked <= highestInSequenceNumberReceived[s][n]
      /\ acknowledgedSequenceNumberReceived[n][s] <= acked
  BY <1>1, <1>2
<1>4. PICK k \in 0..Len(q) :
        /\ \A i \in 1..k : q[i] <= acked
        /\ sendQs' = [sendQs EXCEPT ![n][s] = SubSeq(q, k + 1, Len(q))]
        /\ net' = rest \cup {UserDatagram(n, s, q[i]) :
                               i \in {x \in (k + 1)..Len(q) : d.ack <= q[x] /\ q[x] < d.hole}}
  BY DEF ProcessNwMsgInfo
<1>5. acknowledgedSequenceNumberReceived' = [acknowledgedSequenceNumberReceived EXCEPT ![n][s] = acked]
  BY DEF ProcessNwMsgInfo
<1> HIDE DEF acked
<1>6. /\ acknowledgedSequenceNumberReceived' \in Matrix(Nat)
      /\ \A i, j \in Id : acknowledgedSequenceNumberReceived'[i][j] =
            IF i = n /\ j = s THEN acked ELSE acknowledgedSequenceNumberReceived[i][j]
  <2>1. acknowledgedSequenceNumberReceived \in Matrix(Nat)
    BY DEF Types
  <2> QED
    BY <1>1, <1>3, <1>5, <2>1 DEF Matrix
<1>7. /\ SubSeq(q, k + 1, Len(q)) \in Seq(Nat)
      /\ Len(SubSeq(q, k + 1, Len(q))) = Len(q) - k
      /\ \A x \in 1..(Len(q) - k) : SubSeq(q, k + 1, Len(q))[x] = q[k + x]
  BY <1>2, SuffixOf
<1> DEFINE new == SubSeq(q, k + 1, Len(q))
<1> HIDE DEF new
<1>8. /\ sendQs' \in Matrix(Seq(Nat))
      /\ \A i, j \in Id : sendQs'[i][j] = IF i = n /\ j = s THEN new ELSE sendQs[i][j]
  <2>1. sendQs \in Matrix(Seq(Nat)) /\ new \in Seq(Nat) /\ sendQs' = [sendQs EXCEPT ![n][s] = new]
    BY <1>4, <1>7 DEF Types, new
  <2> HIDE DEF q
  <2> QED
    BY <1>1, <2>1 DEF Matrix
<1>9. ASSUME NEW i \in Id, NEW j \in Id
      PROVE  acknowledgedSequenceNumberReceived'[i][j] <= highestInSequenceNumberReceived'[j][i]
  <2>1. /\ highestInSequenceNumberReceived[j][i] \in Nat
        /\ highestInSequenceNumberReceived'[j][i] \in Nat
        /\ acknowledgedSequenceNumberReceived[i][j] \in Nat
        /\ acknowledgedSequenceNumberReceived[i][j] <= highestInSequenceNumberReceived[j][i]
        /\ highestInSequenceNumberReceived[j][i] <= highestInSequenceNumberReceived'[j][i]
    BY MatrixType DEF Types, Numbers
  <2> QED
    BY <1>3, <1>6, <2>1
<1>10. SendOK'
  <2> SUFFICES ASSUME NEW i \in Id, NEW j \in Id
               PROVE  SendQueueOK(sendQs'[i][j], nextSendSequenceNumber[i][j],
                                  acknowledgedSequenceNumberReceived'[i][j])
    BY DEF SendOK
  <2>1. CASE ~(i = n /\ j = s)
    BY <1>6, <1>8, <2>1 DEF SendOK
  <2>2. CASE i = n /\ j = s
    <3>1. sendQs'[i][j] = new /\ acknowledgedSequenceNumberReceived'[i][j] = acked
      BY <1>6, <1>8, <2>2
    <3>2. SendQueueOK(q, nextSendSequenceNumber[i][j], acknowledgedSequenceNumberReceived[n][s])
      BY <1>1, <2>2 DEF SendOK
    <3>3. nextSendSequenceNumber[i][j] \in Nat
      BY NumberTypes
    <3> HIDE DEF q, s
    <3>4. ASSUME NEW l \in 1..Len(new) PROVE new[l] \in 1..(nextSendSequenceNumber[i][j] - 1)
      <4>1. k + l \in 1..Len(q) /\ new[l] = q[k + l]
        BY <1>2, <1>7 DEF new
      <4> QED
        BY <3>2, <4>1 DEF SendQueueOK
    <3>5. ASSUME NEW x \in 1..(nextSendSequenceNumber[i][j] - 1), ~(x <= acked)
          PROVE  \E l \in 1..Len(new) : new[l] = x
      <4>1. ~(x <= acknowledgedSequenceNumberReceived[n][s])
        BY <1>2, <1>3, <3>3, <3>5
      <4>2. PICK l \in 1..Len(q) : q[l] = x
        BY <3>2, <4>1 DEF SendQueueOK
      <4>3. l > k
        BY <1>4, <3>5, <4>2
      <4>4. l - k \in 1..Len(new) /\ k + (l - k) = l
        BY <1>2, <1>7, <4>2, <4>3 DEF new
      <4>5. new[l - k] = q[l]
        BY <1>7, <4>4 DEF new
      <4> QED
        BY <4>2, <4>4, <4>5
    <3> QED
      BY <3>1, <3>4, <3>5 DEF SendQueueOK
  <2> QED
    BY <2>1, <2>2
<1>11. NetOK'
  <2> SUFFICES ASSUME NEW e \in net' PROVE DatagramOK(e)'
    BY DEF NetOK
  <2>0. /\ nextSendSequenceNumber' \in Matrix(Nat)
        /\ \A i, j \in Id : nextSendSequenceNumber[i][j] <= nextSendSequenceNumber'[i][j]
    BY NumberTypes DEF Types
  <2>1. CASE e \in rest
    BY <2>0, <2>1, DatagramsStay DEF NetOK
  <2>2. CASE e \notin rest
    <3>1. PICK x \in (k + 1)..Len(q) : e = UserDatagram(n, s, q[x])
      BY <1>4, <2>2
    <3>2. x \in 1..Len(q)
      BY <1>2, <3>1
    <3>3. q[x] \in 1..(nextSendSequenceNumber[n][s] - 1)
      BY <1>1, <3>2 DEF SendOK, SendQueueOK
    <3>4. q[x] \in Nat /\ q[x] <= Quota[n][s]
      <4>1. nextSendSequenceNumber[n][s] \in 1..(Quota[n][s] + 1) /\ Quota[n][s] \in Nat
        BY <1>1, NumberTypes DEF Numbers
      <4>2. PICK y, next, quota : y = q[x] /\ next = nextSendSequenceNumber[n][s] /\ quota = Quota[n][s]
        OBVIOUS
      <4>3. y \in 1..(next - 1) /\ next \in 1..(quota + 1) /\ quota \in Nat
        BY ONLY <3>3, <4>1, <4>2
      <4>4. y \in Nat /\ y <= quota
        BY ONLY <4>3
      <4> QED
        BY ONLY <4>2, <4>4
    <3>5. highestInSequenceNumberReceived[n][s] <= highestInSequenceNumberReceived'[n][s]
      BY <1>1
    <3> QED
      BY <1>1, <2>0, <3>1, <3>3, <3>4, <3>5, UserDatagramOK
  <2> QED
    BY <2>1, <2>2
<1> QED
  BY <1>6, <1>8, <1>9, <1>10, <1>11

-----------------------------------------------------------------------------
(* Sending and the network *)

LEMMA PhysicalSendStep ==
  ASSUME NoWrap, TransportInv, NEW n \in Id, NEW dest \in Id, PhysicalSend(n, dest)
  PROVE  TransportInv'
<1> USE DEF TransportInv
<1> DEFINE seq == nextSendSequenceNumber[n][dest]
<1>1. dest \in Peers(n) /\ seq \in Nat /\ seq >= 1 /\ seq <= Quota[n][dest]
  BY MatrixType DEF PhysicalSend, Peers, Types, Numbers
<1>2. /\ nextSendSequenceNumber' \in Matrix(Nat)
      /\ \A i, j \in Id : nextSendSequenceNumber'[i][j] =
            IF i = n /\ j = dest THEN seq + 1 ELSE nextSendSequenceNumber[i][j]
  <2>1. nextSendSequenceNumber \in Matrix(Nat) /\ nextSendSequenceNumber' = [nextSendSequenceNumber EXCEPT ![n][dest] = @ + 1]
    BY DEF PhysicalSend, Types
  <2> QED
    BY <1>1, <2>1 DEF Matrix
<1>3. /\ sendQs[n][dest] \in Seq(Nat) /\ Append(sendQs[n][dest], seq) \in Seq(Nat)
      /\ Len(sendQs[n][dest]) \in Nat
      /\ Len(Append(sendQs[n][dest], seq)) = Len(sendQs[n][dest]) + 1
      /\ \A k \in 1..Len(sendQs[n][dest]) : Append(sendQs[n][dest], seq)[k] = sendQs[n][dest][k]
      /\ Append(sendQs[n][dest], seq)[Len(sendQs[n][dest]) + 1] = seq
  <2>1. sendQs[n][dest] \in Seq(Nat)
    BY MatrixType DEF Types
  <2> QED
    BY <1>1, <2>1, AppendedTo
<1> DEFINE new == Append(sendQs[n][dest], seq)
<1> HIDE DEF new
<1>4. /\ sendQs' \in Matrix(Seq(Nat))
      /\ \A i, j \in Id : sendQs'[i][j] = IF i = n /\ j = dest THEN new ELSE sendQs[i][j]
  <2>1. sendQs \in Matrix(Seq(Nat)) /\ new \in Seq(Nat) /\ sendQs' = [sendQs EXCEPT ![n][dest] = new]
    BY <1>3 DEF PhysicalSend, Types, new
  <2> QED
    BY <2>1 DEF Matrix
<1>5. /\ acknowledgedSequenceNumberSent' \in Matrix(Nat)
      /\ \A i, j \in Id : acknowledgedSequenceNumberSent'[i][j] =
            IF i = n /\ j = dest THEN highestInSequenceNumberReceived[n][dest]
                                 ELSE acknowledgedSequenceNumberSent[i][j]
  <2>1. /\ acknowledgedSequenceNumberSent \in Matrix(Nat) /\ highestInSequenceNumberReceived \in Matrix(Nat)
        /\ acknowledgedSequenceNumberSent' =
             [acknowledgedSequenceNumberSent EXCEPT ![n][dest] = highestInSequenceNumberReceived[n][dest]]
    BY DEF PhysicalSend, Types
  <2> QED
    BY <2>1 DEF Matrix
<1>6. /\ UNCHANGED <<acknowledgedSequenceNumberReceived, highestInSequenceNumberReceived,
                     outOfOrderMessageQs, inOrderMessageQ, reading, losses, dups, delivered>>
      /\ net' = net \cup {UserDatagram(n, dest, seq)}
  BY DEF PhysicalSend
<1>7. \A i, j \in Id : /\ nextSendSequenceNumber[i][j] \in Nat
                       /\ highestInSequenceNumberReceived[i][j] \in Nat
                       /\ Quota[i][j] \in Nat
  BY NumberTypes
<1>8. \A i, j \in Id : nextSendSequenceNumber[i][j] <= nextSendSequenceNumber'[i][j]
  BY <1>2, <1>7
<1> HIDE DEF seq
<1>9. Types'
  BY <1>2, <1>4, <1>5, <1>6 DEF Types
<1>10. Numbers'
  <2> SUFFICES ASSUME NEW i \in Id, NEW j \in Id
               PROVE  /\ nextSendSequenceNumber'[i][j] \in 1..(Quota[i][j] + 1)
                      /\ highestInSequenceNumberReceived[j][i] < nextSendSequenceNumber'[i][j]
                      /\ acknowledgedSequenceNumberReceived[i][j] <= highestInSequenceNumberReceived[j][i]
                      /\ acknowledgedSequenceNumberSent'[j][i] <= highestInSequenceNumberReceived[j][i]
    BY <1>6 DEF Numbers
  <2>1. nextSendSequenceNumber'[i][j] \in 1..(Quota[i][j] + 1)
    BY <1>1, <1>2, <1>7 DEF Numbers
  <2>2. highestInSequenceNumberReceived[j][i] < nextSendSequenceNumber'[i][j]
    <3>1. highestInSequenceNumberReceived[j][i] < nextSendSequenceNumber[i][j]
      BY DEF Numbers
    <3>2. nextSendSequenceNumber'[i][j] \in Nat
      BY <2>1, <1>7
    <3> QED
      BY <1>7, <1>8, <3>1, <3>2
  <2>3. acknowledgedSequenceNumberSent'[j][i] <= highestInSequenceNumberReceived[j][i]
    BY <1>5, <1>7 DEF Numbers
  <2> QED
    BY <2>1, <2>2, <2>3 DEF Numbers
<1>11. NetOK'
  <2> SUFFICES ASSUME NEW e \in net' PROVE DatagramOK(e)'
    BY DEF NetOK
  <2>0. /\ highestInSequenceNumberReceived' \in Matrix(Nat)
        /\ \A i, j \in Id : highestInSequenceNumberReceived[i][j] <= highestInSequenceNumberReceived'[i][j]
    BY <1>6, <1>7 DEF Types
  <2>1. CASE e \in net
    BY <1>2, <1>8, <2>0, <2>1, DatagramsStay DEF NetOK
  <2>2. CASE e = UserDatagram(n, dest, seq)
    <3>1. seq \in 1..(nextSendSequenceNumber'[n][dest] - 1)
      BY <1>1, <1>2
    <3> QED
      BY <1>1, <1>2, <2>0, <2>2, <3>1, UserDatagramOK
  <2> QED
    BY <1>6, <2>1, <2>2
<1>12. OutOK'
  <2> SUFFICES ASSUME NEW i \in Id, NEW j \in Id
               PROVE  OutQueueOK(outOfOrderMessageQs[j][i], nextSendSequenceNumber'[i][j])
    BY <1>6 DEF OutOK
  <2>1. /\ nextSendSequenceNumber'[i][j] \in Nat /\ nextSendSequenceNumber[i][j] \in Nat
        /\ nextSendSequenceNumber[i][j] <= nextSendSequenceNumber'[i][j]
        /\ OutQueueOK(outOfOrderMessageQs[j][i], nextSendSequenceNumber[i][j])
    BY <1>2, <1>7, <1>8, MatrixType DEF OutOK
  <2> DEFINE o == outOfOrderMessageQs[j][i]
  <2>2. ASSUME NEW k \in 1..Len(o)
        PROVE  o[k][1] = o[k][2] /\ o[k][1] \in 1..(nextSendSequenceNumber'[i][j] - 1)
    <3>1. o[k][1] = o[k][2] /\ o[k][1] \in 1..(nextSendSequenceNumber[i][j] - 1)
      BY <2>1 DEF OutQueueOK
    <3>2. nextSendSequenceNumber[i][j] - 1 <= nextSendSequenceNumber'[i][j] - 1
      BY <2>1
    <3> HIDE DEF o
    <3> QED
      BY <2>1, <3>1, <3>2, SMTT(60)
  <2> QED
    BY <2>1, <2>2 DEF OutQueueOK
<1>13. SendOK'
  <2> SUFFICES ASSUME NEW i \in Id, NEW j \in Id
               PROVE  SendQueueOK(sendQs'[i][j], nextSendSequenceNumber'[i][j],
                                  acknowledgedSequenceNumberReceived[i][j])
    BY <1>6 DEF SendOK
  <2>1. CASE ~(i = n /\ j = dest)
    BY <1>2, <1>4, <2>1 DEF SendOK
  <2>2. CASE i = n /\ j = dest
    <3>1. sendQs'[i][j] = new /\ nextSendSequenceNumber'[i][j] = seq + 1
      BY <1>2, <1>4, <2>2
    <3>2. SendQueueOK(sendQs[n][dest], seq, acknowledgedSequenceNumberReceived[i][j])
      BY <2>2 DEF SendOK, seq
    <3>3. ASSUME NEW k \in 1..Len(new) PROVE new[k] \in 1..seq
      <4>1. CASE k = Len(sendQs[n][dest]) + 1
        BY <1>1, <1>3, <4>1 DEF new
      <4>2. CASE k # Len(sendQs[n][dest]) + 1
        <5>1. k \in 1..Len(sendQs[n][dest])
          BY <1>3, <4>2 DEF new
        <5>2. new[k] = sendQs[n][dest][k] /\ sendQs[n][dest][k] \in 1..(seq - 1)
          BY <1>3, <3>2, <5>1 DEF new, SendQueueOK
        <5> QED
          BY <1>1, <5>2
      <4> QED
        BY <4>1, <4>2
    <3>4. ASSUME NEW x \in 1..seq, ~(x <= acknowledgedSequenceNumberReceived[i][j])
          PROVE  \E k \in 1..Len(new) : new[k] = x
      <4>1. CASE x = seq
        BY <1>3, <4>1 DEF new
      <4>2. CASE x # seq
        <5>1. x \in 1..(seq - 1)
          BY <1>1, <4>2
        <5>2. PICK k \in 1..Len(sendQs[n][dest]) : sendQs[n][dest][k] = x
          BY <3>2, <3>4, <5>1 DEF SendQueueOK
        <5>3. k \in 1..Len(new) /\ new[k] = x
          BY <1>3, <5>2 DEF new
        <5> QED
          BY <5>3
      <4> QED
        BY <4>1, <4>2
    <3> QED
      BY <1>1, <3>1, <3>3, <3>4 DEF SendQueueOK
  <2> QED
    BY <2>1, <2>2
<1>14. DeliveredOK' /\ OrderOK'
  BY <1>6 DEF DeliveredOK, OrderOK
<1> QED
  BY <1>9, <1>10, <1>11, <1>12, <1>13, <1>14

\* A step that only changes the network.
LEMMA NetChanged ==
  ASSUME TransportInv, UNCHANGED <<node, delivered>>, losses' \in 0..MaxLoss, dups' \in 0..MaxDup, NetOK'
  PROVE  TransportInv'
<1> USE DEF TransportInv, node
<1>1. Types'
  BY DEF Types
<1>2. Numbers' /\ OutOK'
  BY DEF Numbers, OutOK
<1>3. SendOK'
  BY DEF SendOK
<1>4. DeliveredOK' /\ OrderOK'
  BY DEF DeliveredOK, OrderOK
<1> QED
  BY <1>1, <1>2, <1>3, <1>4

LEMMA RetransmissionTimeoutStep ==
  ASSUME NoWrap, TransportInv, NEW n \in Id, NEW dest \in Id, RetransmissionTimeout(n, dest)
  PROVE  TransportInv'
<1> USE DEF TransportInv
<1>1. dest \in Peers(n) /\ UNCHANGED <<node, losses, dups, delivered>>
  BY DEF RetransmissionTimeout, Peers
<1>2. PICK k \in 1..Len(sendQs[n][dest]) :
         net' = net \cup {UserDatagram(n, dest, sendQs[n][dest][i]) : i \in 1..k}
  BY DEF RetransmissionTimeout
<1>3. \A i, j \in Id : nextSendSequenceNumber[i][j] \in Nat /\ highestInSequenceNumberReceived[i][j] \in Nat
  BY MatrixType DEF Types
<1>4. NetOK'
  <2> SUFFICES ASSUME NEW e \in net' PROVE DatagramOK(e)'
    BY DEF NetOK
  <2>0. /\ UNCHANGED <<nextSendSequenceNumber, highestInSequenceNumberReceived>>
        /\ highestInSequenceNumberReceived' \in Matrix(Nat) /\ nextSendSequenceNumber' \in Matrix(Nat)
        /\ \A i, j \in Id : /\ highestInSequenceNumberReceived[i][j] <= highestInSequenceNumberReceived'[i][j]
                             /\ nextSendSequenceNumber[i][j] <= nextSendSequenceNumber'[i][j]
    BY <1>1, <1>3 DEF Types, node
  <2>1. CASE e \in net
    BY <2>0, <2>1, DatagramsStay DEF NetOK
  <2>2. CASE e \notin net
    <3>1. PICK x \in 1..k : e = UserDatagram(n, dest, sendQs[n][dest][x])
      BY <1>2, <2>2
    <3>2. x \in 1..Len(sendQs[n][dest])
      BY <1>2, <3>1
    <3>3. sendQs[n][dest][x] \in 1..(nextSendSequenceNumber[n][dest] - 1)
      BY <3>2 DEF SendOK, SendQueueOK
    <3>4. sendQs[n][dest][x] \in Nat /\ sendQs[n][dest][x] <= Quota[n][dest]
      BY <3>3, NumberTypes, SMTT(60) DEF Numbers
    <3> QED
      BY <1>1, <2>0, <3>1, <3>3, <3>4, UserDatagramOK DEF Peers
  <2> QED
    BY <2>1, <2>2
<1> QED
  BY <1>1, <1>4, NetChanged DEF Types

LEMMA LoseStep ==
  ASSUME TransportInv, NEW d, Lose(d)
  PROVE  TransportInv'
<1>1. UNCHANGED <<node, dups, delivered>> /\ net' \subseteq net /\ losses' \in 0..MaxLoss
  BY TransportAssumption DEF Lose, TransportInv, Types
<1>2. NetOK'
  BY <1>1 DEF NetOK, DatagramOK, TransportInv, node
<1> QED
  BY <1>1, <1>2, NetChanged DEF TransportInv, Types
-----------------------------------------------------------------------------
(* Reading a socket *)

\* The types of a communicator's in order queue and of its row in the matrices.
RowTypes(q, del, highest) ==
    q \in Seq(Id \X Nat) /\ del \in [Id -> Seq(Nat)] /\ highest \in [Id -> Nat]

LEMMA RowTypesFacts ==
  ASSUME NEW q, NEW del, NEW highest, RowTypes(q, del, highest)
  PROVE  /\ Len(q) \in Nat
         /\ \A k \in 1..Len(q) : q[k] = <<q[k][1], q[k][2]>> /\ q[k][1] \in Id /\ q[k][2] \in Nat
         /\ \A i \in Id : Len(del[i]) \in Nat /\ highest[i] \in Nat
<1>1. \A k \in 1..Len(q) : q[k] \in Id \X Nat
  BY DEF RowTypes
<1>2. \A k \in 1..Len(q) : q[k] = <<q[k][1], q[k][2]>> /\ q[k][1] \in Id /\ q[k][2] \in Nat
  BY <1>1
<1> QED
  BY <1>2 DEF RowTypes

\* The queue p is q with the message x of source s at its end.
Extended(q, p, s, x) ==
    /\ Len(p) = Len(q) + 1
    /\ \A k \in 1..Len(q) : p[k] = q[k]
    /\ p[Len(q) + 1] = <<s, x>>

\* The next message of a channel goes to the end of the in order queue.
LEMMA InOrderGrows ==
  ASSUME NEW q, NEW p, NEW del, NEW highest, NEW new, NEW s \in Id,
         RowTypes(q, del, highest), RowTypes(p, del, new), Extended(q, p, s, highest[s] + 1),
         new[s] = highest[s] + 1, \A i \in Id \ {s} : new[i] = highest[i],
         Len(del[s]) <= highest[s], InOrder(q, del, highest)
  PROVE  InOrder(p, del, new)
<1>1. /\ Len(q) \in Nat /\ Len(p) \in Nat
      /\ \A k \in 1..Len(q) : q[k] = <<q[k][1], q[k][2]>> /\ q[k][1] \in Id /\ q[k][2] \in Nat
      /\ \A i \in Id : highest[i] \in Nat /\ new[i] \in Nat /\ Len(del[i]) \in Nat
  BY RowTypesFacts
<1>2. \A i \in Id : highest[i] <= new[i]
  BY <1>1
<1>3. \A k \in 1..Len(p) :
         \/ k \in 1..Len(q) /\ p[k] = q[k]
         \/ k = Len(q) + 1 /\ p[k][1] = s /\ p[k][2] = highest[s] + 1
  BY <1>1 DEF Extended
<1>4. ASSUME NEW k \in 1..Len(p)
      PROVE  Len(del[p[k][1]]) < p[k][2] /\ p[k][2] <= new[p[k][1]]
  <2>1. CASE k \in 1..Len(q) /\ p[k] = q[k]
    <3>1. Len(del[q[k][1]]) < q[k][2] /\ q[k][2] <= highest[q[k][1]]
      BY <2>1 DEF InOrder
    <3>2. q[k][1] \in Id /\ q[k][2] \in Nat
      BY <1>1, <2>1
    <3>3. q[k][2] <= new[q[k][1]]
      BY <1>1, <1>2, <3>1, <3>2
    <3> QED
      BY <2>1, <3>1, <3>3
  <2>2. CASE p[k][1] = s /\ p[k][2] = highest[s] + 1
    BY <1>1, <2>2
  <2> QED
    BY <1>3, <2>1, <2>2
<1>5. ASSUME NEW k \in 1..Len(p), NEW l \in 1..Len(p), k < l, p[k][1] = p[l][1]
      PROVE  p[k][2] < p[l][2]
  <2>0. Len(p) = Len(q) + 1
    BY DEF Extended
  <2>1. k \in 1..Len(q) /\ p[k] = q[k]
    BY <1>1, <1>3, <1>5, <2>0
  <2>2. CASE l \in 1..Len(q) /\ p[l] = q[l]
    BY <1>5, <2>1, <2>2 DEF InOrder
  <2>3. CASE p[l][1] = s /\ p[l][2] = highest[s] + 1
    <3>1. q[k][1] = s /\ q[k][2] <= highest[s] /\ q[k][2] \in Nat
      BY <1>1, <1>5, <2>1, <2>3 DEF InOrder
    <3> QED
      BY <1>1, <2>1, <2>3, <3>1
  <2> QED
    BY <1>3, <2>2, <2>3
<1>6. ASSUME NEW i \in Id, NEW x \in Nat, Len(del[i]) < x, x <= new[i]
      PROVE  \E k \in 1..Len(p) : p[k] = <<i, x>>
  <2>1. CASE i = s /\ x = highest[s] + 1
    <3>1. Len(q) + 1 \in 1..Len(p) /\ p[Len(q) + 1] = <<i, x>>
      BY <1>1, <2>1 DEF Extended
    <3> QED
      BY <3>1
  <2>2. CASE ~(i = s /\ x = highest[s] + 1)
    <3>1. x <= highest[i]
      BY <1>1, <1>6, <2>2
    <3>2. PICK k \in 1..Len(q) : q[k] = <<i, x>>
      BY <1>6, <3>1 DEF InOrder
    <3>3. k \in 1..Len(p) /\ p[k] = q[k]
      BY <1>1, <3>2 DEF Extended
    <3> QED
      BY <3>2, <3>3
  <2> QED
    BY <2>1, <2>2
<1> QED
  BY <1>4, <1>5, <1>6 DEF InOrder

\* insertInOrderMessage() of the next message of channel <<s, n>>.
Inserts(n, s) ==
    /\ inOrderMessageQ' = [inOrderMessageQ EXCEPT ![n] =
         Append(@, <<s, highestInSequenceNumberReceived[n][s] + 1>>)]
    /\ highestInSequenceNumberReceived' = [highestInSequenceNumberReceived EXCEPT ![n][s] = @ + 1]

\* The number after the highest of a channel is received in sequence and put into
\* the in order queue.
LEMMA InsertedInOrder ==
  ASSUME Types, Numbers, DeliveredOK, OrderOK, NEW n \in Id, NEW s \in Id,
         highestInSequenceNumberReceived[n][s] + 1 < nextSendSequenceNumber[s][n],
         Inserts(n, s), UNCHANGED <<nextSendSequenceNumber, delivered>>
  PROVE  /\ highestInSequenceNumberReceived' \in Matrix(Nat)
         /\ inOrderMessageQ' \in [Id -> Seq(Id \X Nat)]
         /\ \A i, j \in Id :
              /\ highestInSequenceNumberReceived[i][j] <= highestInSequenceNumberReceived'[i][j]
              /\ highestInSequenceNumberReceived'[j][i] < nextSendSequenceNumber[i][j]
         /\ DeliveredOK' /\ OrderOK'
<1> DEFINE h == highestInSequenceNumberReceived
           m == <<s, h[n][s] + 1>>
<1>0. h \in Matrix(Nat) /\ inOrderMessageQ \in [Id -> Seq(Id \X Nat)] /\ delivered \in Matrix(Seq(Nat))
  BY DEF Types
<1>1. /\ h' \in Matrix(Nat)
      /\ \A i, j \in Id : h'[i][j] = IF i = n /\ j = s THEN h[n][s] + 1 ELSE h[i][j]
  <2>1. h \in Matrix(Nat) /\ h[n][s] \in Nat
    BY <1>0, MatrixType
  <2>2. h' = [h EXCEPT ![n][s] = h[n][s] + 1]
    BY DEF Inserts
  <2> QED
    BY <2>1, <2>2 DEF Matrix
<1>2. \A i, j \in Id : h[i][j] \in Nat /\ h'[i][j] \in Nat /\ h[i][j] <= h'[i][j]
  <2>1. \A i, j \in Id : h[i][j] \in Nat /\ h'[i][j] \in Nat
    BY <1>0, <1>1, MatrixType
  <2> QED
    BY <1>1, <2>1
<1>3. m \in Id \X Nat
  BY <1>2
<1>4. inOrderMessageQ' \in [Id -> Seq(Id \X Nat)]
  <2>1. inOrderMessageQ[n] \in Seq(Id \X Nat)
    BY <1>0
  <2>2. Append(inOrderMessageQ[n], m) \in Seq(Id \X Nat)
    BY <1>3, <2>1, AppendedTo
  <2> HIDE DEF m
  <2>3. inOrderMessageQ' = [inOrderMessageQ EXCEPT ![n] = Append(inOrderMessageQ[n], m)]
    BY DEF m, Inserts
  <2> QED
    BY <1>0, <2>2, <2>3
<1>5. \A i, j \in Id : h'[j][i] < nextSendSequenceNumber[i][j]
  BY <1>1, <1>2 DEF Numbers
<1>6. DeliveredOK'
  <2> SUFFICES ASSUME NEW i \in Id, NEW j \in Id PROVE HandedOverOK(delivered[j][i], h'[j][i])
    BY DEF DeliveredOK
  <2>1. HandedOverOK(delivered[j][i], h[j][i]) /\ delivered[j][i] \in Seq(Nat)
    BY <1>0, MatrixType DEF DeliveredOK
  <2>2. h[j][i] \in Nat /\ h'[j][i] \in Nat /\ h[j][i] <= h'[j][i] /\ Len(delivered[j][i]) \in Nat
    BY <1>2, <2>1
  <2> HIDE DEF h
  <2> QED
    BY <2>1, <2>2 DEF HandedOverOK
<1>7. OrderOK'
  <2> SUFFICES ASSUME NEW j \in Id PROVE InOrder(inOrderMessageQ'[j], delivered[j], h'[j])
    BY DEF OrderOK
  <2>1. InOrder(inOrderMessageQ[j], delivered[j], h[j])
    BY DEF OrderOK
  <2>2. CASE j # n
    <3>1. h'[j] = h[j] /\ inOrderMessageQ'[j] = inOrderMessageQ[j]
      BY <1>0, <2>2 DEF Matrix, Inserts
    <3> QED
      BY <2>1, <3>1
  <2>3. CASE j = n
    <3>1. PICK p, q, hn, hm, del :
             /\ q = inOrderMessageQ[n] /\ p = inOrderMessageQ'[n]
             /\ hn = h[n] /\ hm = h'[n] /\ del = delivered[n]
      OBVIOUS
    <3>2. p = Append(q, m) /\ q \in Seq(Id \X Nat)
      BY <1>0, <3>1 DEF Inserts
    <3>3. Extended(q, p, s, hn[s] + 1)
      BY <1>3, <3>1, <3>2, AppendedTo DEF Extended
    <3>4. RowTypes(q, del, hn) /\ RowTypes(p, del, hm)
      BY <1>0, <1>1, <1>4, <3>1 DEF Matrix, RowTypes
    <3>5. hm[s] = hn[s] + 1 /\ \A i \in Id \ {s} : hm[i] = hn[i]
      BY <1>1, <3>1
    <3>6. Len(del[s]) <= hn[s]
      BY <3>1 DEF DeliveredOK, HandedOverOK
    <3>7. InOrder(q, del, hn)
      BY <2>1, <2>3, <3>1
    <3> HIDE DEF h, m
    <3>8. InOrder(p, del, hm)
      BY <3>3, <3>4, <3>5, <3>6, <3>7, InOrderGrows
    <3> QED
      BY <2>3, <3>1, <3>8 DEF h
  <2> QED
    BY <2>2, <2>3
<1> QED
  BY <1>1, <1>2, <1>4, <1>5, <1>6, <1>7

\* The parts of the invariant that a read does not touch.
ReadKeeps ==
    /\ UNCHANGED <<nextSendSequenceNumber, acknowledgedSequenceNumberSent, losses, delivered>>
    /\ dups' \in 0..MaxDup

\* The types of the local variables of a read.
Locals(n) == [src : Peers(n) \cup {None}, left : SUBSET Peers(n),
              req : BOOLEAN, dup : BOOLEAN, moving : BOOLEAN]

LEMMA ReadingChanged ==
  ASSUME Types, NEW n \in Id, NEW r \in Locals(n), reading' = [reading EXCEPT ![n] = r]
  PROVE  DOMAIN reading' = Id /\ \A k \in Id : reading'[k] \in Locals(k)
BY DEF Types, Locals

\* Numbers' from the parts that can change.
LEMMA NumbersKept ==
  ASSUME Types, Numbers, UNCHANGED <<nextSendSequenceNumber, acknowledgedSequenceNumberSent>>,
         highestInSequenceNumberReceived' \in Matrix(Nat),
         \A i, j \in Id :
            /\ highestInSequenceNumberReceived[i][j] <= highestInSequenceNumberReceived'[i][j]
            /\ highestInSequenceNumberReceived'[j][i] < nextSendSequenceNumber[i][j]
            /\ acknowledgedSequenceNumberReceived'[i][j] <= highestInSequenceNumberReceived'[j][i]
  PROVE  Numbers'
<1> SUFFICES ASSUME NEW i \in Id, NEW j \in Id
             PROVE  acknowledgedSequenceNumberSent[j][i] <= highestInSequenceNumberReceived'[j][i]
  BY DEF Numbers
<1>1. /\ acknowledgedSequenceNumberSent[j][i] \in Nat
      /\ highestInSequenceNumberReceived[j][i] \in Nat
      /\ highestInSequenceNumberReceived'[j][i] \in Nat
  BY NumberTypes, MatrixType
<1>2. acknowledgedSequenceNumberSent[j][i] <= highestInSequenceNumberReceived[j][i]
  BY DEF Numbers
<1> QED
  BY <1>1, <1>2

\* A read that leaves the numbers of its receiver alone.
LEMMA SameHighest ==
  ASSUME Types, Numbers, UNCHANGED <<nextSendSequenceNumber, highestInSequenceNumberReceived>>
  PROVE  /\ highestInSequenceNumberReceived' \in Matrix(Nat)
         /\ \A i, j \in Id :
            /\ highestInSequenceNumberReceived[i][j] <= highestInSequenceNumberReceived'[i][j]
            /\ highestInSequenceNumberReceived'[j][i] < nextSendSequenceNumber[i][j]
<1>1. \A i, j \in Id : highestInSequenceNumberReceived[i][j] \in Nat
  BY NumberTypes
<1> QED
  BY <1>1 DEF Numbers, Types

LEMMA InSequenceStep ==
  ASSUME NoWrap, TransportInv, NEW n \in Id, NEW d \in net, d.to = n, NEW r \in Locals(n),
         NEW rest \in SUBSET net, InSequence(n, d, r, rest), ReadKeeps
  PROVE  TransportInv'
<1> USE DEF TransportInv
<1>1. /\ d.from \in Id /\ d.seq = d.data /\ d.seq \in 1..(nextSendSequenceNumber[d.from][n] - 1)
      /\ d.seq = highestInSequenceNumberReceived[n][d.from] + 1
  BY DEF NetOK, DatagramOK, InSequence
<1>2. highestInSequenceNumberReceived[n][d.from] + 1 < nextSendSequenceNumber[d.from][n]
  BY <1>1, NumberTypes
<1>3. Inserts(n, d.from)
  BY <1>1 DEF InSequence, Inserts
<1>4. UNCHANGED <<nextSendSequenceNumber, acknowledgedSequenceNumberSent, losses, delivered, outOfOrderMessageQs>>
  BY DEF ReadKeeps, InSequence
<1>5. /\ highestInSequenceNumberReceived' \in Matrix(Nat)
      /\ inOrderMessageQ' \in [Id -> Seq(Id \X Nat)]
      /\ \A i, j \in Id :
           /\ highestInSequenceNumberReceived[i][j] <= highestInSequenceNumberReceived'[i][j]
           /\ highestInSequenceNumberReceived'[j][i] < nextSendSequenceNumber[i][j]
      /\ DeliveredOK' /\ OrderOK'
  BY <1>1, <1>2, <1>3, <1>4, InsertedInOrder
<1>6. ProcessNwMsgInfo(n, d, rest) /\ reading' = [reading EXCEPT ![n] = r]
  BY DEF InSequence
<1>7. /\ acknowledgedSequenceNumberReceived' \in Matrix(Nat)
      /\ \A i, j \in Id :
            acknowledgedSequenceNumberReceived'[i][j] <= highestInSequenceNumberReceived'[j][i]
      /\ sendQs' \in Matrix(Seq(Nat))
      /\ SendOK' /\ NetOK'
  BY <1>4, <1>5, <1>6, Processed
<1>8. DOMAIN reading' = Id /\ \A k \in Id : reading'[k] \in Locals(k)
  BY <1>6, ReadingChanged
<1>9. Types'
  BY <1>4, <1>5, <1>7, <1>8 DEF Types, Locals, ReadKeeps
<1>10. Numbers'
  BY <1>4, <1>5, <1>7, NumbersKept
<1>11. OutOK'
  BY <1>4 DEF OutOK
<1> QED
  BY <1>5, <1>7, <1>9, <1>10, <1>11

LEMMA DuplicateStep ==
  ASSUME TransportInv, NEW n \in Id, NEW d, NEW r \in Locals(n),
         NEW rest \in SUBSET net, Duplicate(n, d, r, rest), ReadKeeps
  PROVE  TransportInv'
<1> USE DEF TransportInv
<1>1. UNCHANGED <<nextSendSequenceNumber, acknowledgedSequenceNumberSent, losses, delivered,
                  acknowledgedSequenceNumberReceived, highestInSequenceNumberReceived,
                  sendQs, outOfOrderMessageQs, inOrderMessageQ>>
  BY DEF ReadKeeps, Duplicate
<1>2. [r EXCEPT !.dup = TRUE] \in Locals(n)
  BY DEF Locals
<1>3. DOMAIN reading' = Id /\ \A k \in Id : reading'[k] \in Locals(k)
  BY <1>2, ReadingChanged DEF Duplicate
<1>4. Types'
  BY <1>1, <1>3 DEF Types, Locals, ReadKeeps
<1>5. Numbers' /\ OutOK'
  BY <1>1 DEF Numbers, OutOK
<1>6. SendOK' /\ DeliveredOK' /\ OrderOK'
  BY <1>1 DEF SendOK, DeliveredOK, OrderOK
<1>7. net' \subseteq net
  BY DEF Duplicate
<1>8. NetOK'
  BY <1>1, <1>7 DEF NetOK, DatagramOK
<1> QED
  BY <1>4, <1>5, <1>6, <1>8

LEMMA ControlStep ==
  ASSUME NoWrap, TransportInv, NEW n \in Id, NEW d \in net, d.to = n, NEW r \in Locals(n),
         NEW rest \in SUBSET net, Control(n, d, r, rest), ReadKeeps
  PROVE  TransportInv'
<1> USE DEF TransportInv
<1>1. UNCHANGED <<nextSendSequenceNumber, acknowledgedSequenceNumberSent, losses, delivered,
                  highestInSequenceNumberReceived, outOfOrderMessageQs, inOrderMessageQ>>
  BY DEF ReadKeeps, Control
<1>2. /\ highestInSequenceNumberReceived' \in Matrix(Nat)
      /\ \A i, j \in Id :
           /\ highestInSequenceNumberReceived[i][j] <= highestInSequenceNumberReceived'[i][j]
           /\ highestInSequenceNumberReceived'[j][i] < nextSendSequenceNumber[i][j]
  BY <1>1, SameHighest
<1>3. ProcessNwMsgInfo(n, d, rest) /\ reading' = [reading EXCEPT ![n] = r]
  BY DEF Control
<1>4. /\ acknowledgedSequenceNumberReceived' \in Matrix(Nat)
      /\ \A i, j \in Id :
            acknowledgedSequenceNumberReceived'[i][j] <= highestInSequenceNumberReceived'[j][i]
      /\ sendQs' \in Matrix(Seq(Nat))
      /\ SendOK' /\ NetOK'
  BY <1>1, <1>2, <1>3, Processed
<1>5. DOMAIN reading' = Id /\ \A k \in Id : reading'[k] \in Locals(k)
  BY <1>3, ReadingChanged
<1>6. Types'
  BY <1>1, <1>2, <1>4, <1>5 DEF Types, Locals, ReadKeeps
<1>7. Numbers'
  BY <1>1, <1>2, <1>4, NumbersKept
<1>8. OutOK' /\ DeliveredOK' /\ OrderOK'
  BY <1>1 DEF OutOK, DeliveredOK, OrderOK
<1> QED
  BY <1>4, <1>6, <1>7, <1>8

LEMMA Concatenated ==
  ASSUME NEW T, NEW a \in Seq(T), NEW b \in Seq(T)
  PROVE  /\ a \o b \in Seq(T) /\ Len(a) \in Nat /\ Len(b) \in Nat /\ Len(a \o b) = Len(a) + Len(b)
         /\ \A x \in 1..(Len(a) + Len(b)) : (a \o b)[x] = IF x <= Len(a) THEN a[x] ELSE b[x - Len(a)]
OBVIOUS

\* A sequence with m put in at position k.
LEMMA InsertedAt ==
  ASSUME NEW T, NEW q \in Seq(T), NEW k \in 1..(Len(q) + 1), NEW m \in T
  PROVE  /\ InsertAt(q, k, m) \in Seq(T) /\ Len(q) \in Nat /\ Len(InsertAt(q, k, m)) = Len(q) + 1
         /\ \A x \in 1..(Len(q) + 1) :
              InsertAt(q, k, m)[x] = IF x < k THEN q[x] ELSE IF x = k THEN m ELSE q[x - 1]
<1> DEFINE a == SubSeq(q, 1, k - 1)
           b == SubSeq(q, k, Len(q))
           c == a \o <<m>>
           p == c \o b
<1>0. Len(q) \in Nat
  OBVIOUS
<1>1. a \in Seq(T) /\ Len(a) = k - 1 /\ \A x \in 1..(k - 1) : a[x] = q[x]
  OBVIOUS
<1>2. b \in Seq(T) /\ Len(b) = Len(q) - (k - 1) /\ \A x \in 1..Len(b) : b[x] = q[(k - 1) + x]
  OBVIOUS
<1>3. <<m>> \in Seq(T) /\ Len(<<m>>) = 1 /\ <<m>>[1] = m
  OBVIOUS
<1> HIDE DEF a, b
<1>4. c \in Seq(T) /\ Len(c) = k /\ \A x \in 1..k : c[x] = IF x <= k - 1 THEN a[x] ELSE m
  <2>1. /\ c \in Seq(T) /\ Len(c) = Len(a) + 1
        /\ \A x \in 1..(Len(a) + 1) : c[x] = IF x <= Len(a) THEN a[x] ELSE <<m>>[x - Len(a)]
    BY <1>1, <1>3, Concatenated
  <2> HIDE DEF c
  <2> QED
    BY <1>0, <1>1, <1>3, <2>1
<1> HIDE DEF c
<1>5. /\ p \in Seq(T) /\ Len(p) = Len(c) + Len(b)
      /\ \A x \in 1..(Len(c) + Len(b)) : p[x] = IF x <= Len(c) THEN c[x] ELSE b[x - Len(c)]
  BY <1>2, <1>4, Concatenated
<1> HIDE DEF p
<1>6. Len(p) = Len(q) + 1
  BY <1>0, <1>2, <1>4, <1>5
<1>7. ASSUME NEW x \in 1..(Len(q) + 1)
      PROVE  p[x] = IF x < k THEN q[x] ELSE IF x = k THEN m ELSE q[x - 1]
  <2>0. p[x] = IF x <= k THEN c[x] ELSE b[x - k]
    <3>1. x \in 1..(Len(c) + Len(b)) /\ Len(c) = k
      BY <1>0, <1>2, <1>4
    <3> QED
      BY <1>5, <3>1
  <2>1. CASE x <= k
    <3>1. p[x] = IF x <= k - 1 THEN a[x] ELSE m
      BY <1>4, <2>0, <2>1
    <3> QED
      BY <1>0, <1>1, <2>1, <3>1
  <2>2. CASE x > k
    <3>1. p[x] = b[x - k]
      BY <1>0, <2>0, <2>2
    <3>2. x - k \in 1..Len(b) /\ (k - 1) + (x - k) = x - 1
      BY <1>0, <1>2, <2>2
    <3>3. b[x - k] = q[x - 1]
      BY <1>2, <3>2
    <3> QED
      BY <1>0, <2>2, <3>1, <3>3
  <2> QED
    BY <1>0, <2>1, <2>2
<1>8. InsertAt(q, k, m) = p
  BY DEF InsertAt, a, b, c, p
<1> QED
  BY <1>0, <1>5, <1>6, <1>7, <1>8

Entry == Nat \X Nat

\* The out of order queue with one more message.
LEMMA PushedOK ==
  ASSUME NEW q \in Seq(Entry), NEW d, d.seq = d.data, NEW next \in Nat, d.seq \in 1..(next - 1),
         OutQueueOK(q, next), Len(q) < MaxOutOfOrder, NEW p \in Pushes(q, d)
  PROVE  p \in Seq(Entry) /\ OutQueueOK(p, next)
<1>1. PICK m : m = <<d.seq, d.data>>
  OBVIOUS
<1>2. PICK k \in 1..(Len(q) + 1) : p = InsertAt(q, k, m)
  BY <1>1 DEF Pushes
<1>3. m[1] = d.seq /\ m[2] = d.seq /\ m \in Entry
  BY <1>1 DEF Entry
<1>4. /\ p \in Seq(Entry) /\ Len(q) \in Nat /\ Len(p) = Len(q) + 1
      /\ \A x \in 1..Len(p) : p[x] = IF x < k THEN q[x] ELSE IF x = k THEN m ELSE q[x - 1]
  <2>1. /\ InsertAt(q, k, m) \in Seq(Entry) /\ Len(q) \in Nat /\ Len(InsertAt(q, k, m)) = Len(q) + 1
        /\ \A x \in 1..(Len(q) + 1) :
             InsertAt(q, k, m)[x] = IF x < k THEN q[x] ELSE IF x = k THEN m ELSE q[x - 1]
    <3>1. k \in 1..(Len(q) + 1) /\ m \in Entry
      BY <1>2, <1>3
    <3> QED
      BY <3>1, InsertedAt
  <2> QED
    BY <1>2, <2>1
<1>5. \A x \in 1..Len(q) : q[x][1] = q[x][2] /\ q[x][1] \in 1..(next - 1)
  BY DEF OutQueueOK
<1>6. \A x \in 1..Len(p) : p[x] = m \/ \E y \in 1..Len(q) : p[x] = q[y]
  BY <1>4
<1>7. \A x \in 1..Len(p) : p[x][1] = p[x][2] /\ p[x][1] \in 1..(next - 1)
  BY <1>3, <1>5, <1>6
<1>8. Len(p) <= MaxOutOfOrder
  BY <1>4, TransportAssumption
<1> QED
  BY <1>4, <1>7, <1>8 DEF OutQueueOK

LEMMA OutOfOrderStep ==
  ASSUME NoWrap, TransportInv, NEW n \in Id, NEW d \in net, d.to = n, NEW r \in Locals(n),
         NEW rest \in SUBSET net, OutOfOrder(n, d, r, rest), ReadKeeps
  PROVE  TransportInv'
<1> USE DEF TransportInv
<1> DEFINE s == d.from
           q == outOfOrderMessageQs[n][s]
<1>1. UNCHANGED <<nextSendSequenceNumber, acknowledgedSequenceNumberSent, losses, delivered,
                  highestInSequenceNumberReceived, inOrderMessageQ>>
  BY DEF ReadKeeps, OutOfOrder
<1>2. /\ highestInSequenceNumberReceived' \in Matrix(Nat)
      /\ \A i, j \in Id :
           /\ highestInSequenceNumberReceived[i][j] <= highestInSequenceNumberReceived'[i][j]
           /\ highestInSequenceNumberReceived'[j][i] < nextSendSequenceNumber[i][j]
  BY <1>1, SameHighest
<1>3. ProcessNwMsgInfo(n, d, rest) /\ reading' = [reading EXCEPT ![n] = [r EXCEPT !.req = TRUE]]
  BY DEF OutOfOrder
<1>4. /\ acknowledgedSequenceNumberReceived' \in Matrix(Nat)
      /\ \A i, j \in Id :
            acknowledgedSequenceNumberReceived'[i][j] <= highestInSequenceNumberReceived'[j][i]
      /\ sendQs' \in Matrix(Seq(Nat))
      /\ SendOK' /\ NetOK'
  BY <1>1, <1>2, <1>3, Processed
<1>5. [r EXCEPT !.req = TRUE] \in Locals(n)
  BY DEF Locals
<1>6. DOMAIN reading' = Id /\ \A k \in Id : reading'[k] \in Locals(k)
  BY <1>3, <1>5, ReadingChanged
<1>7. PICK p \in Pushes(q, d) :
         outOfOrderMessageQs' = [outOfOrderMessageQs EXCEPT ![n][s] = p]
  BY DEF OutOfOrder
<1>8. /\ s \in Id /\ d.seq = d.data /\ d.seq \in 1..(nextSendSequenceNumber[s][n] - 1)
      /\ Len(q) < MaxOutOfOrder
  BY DEF NetOK, DatagramOK, OutOfOrder
<1>9. outOfOrderMessageQs \in Matrix(Seq(Entry))
  BY DEF Types, Entry
<1>10. q \in Seq(Entry) /\ OutQueueOK(q, nextSendSequenceNumber[s][n]) /\ nextSendSequenceNumber[s][n] \in Nat
  BY <1>8, <1>9, MatrixType, NumberTypes DEF OutOK
<1>11. p \in Seq(Entry) /\ OutQueueOK(p, nextSendSequenceNumber[s][n])
  <2> HIDE DEF q, s
  <2>1. d.seq = d.data /\ d.seq \in 1..(nextSendSequenceNumber[s][n] - 1)
    BY <1>8
  <2> QED
    BY <1>7, <1>8, <1>10, <2>1, PushedOK
<1> HIDE DEF q, s
<1>12. /\ outOfOrderMessageQs' \in Matrix(Seq(Entry))
       /\ \A i, j \in Id : outOfOrderMessageQs'[i][j] = IF i = n /\ j = s THEN p ELSE outOfOrderMessageQs[i][j]
  BY <1>7, <1>8, <1>9, <1>11 DEF Matrix
<1>13. OutOK'
  BY <1>1, <1>8, <1>11, <1>12 DEF OutOK
<1>14. Types'
  BY <1>1, <1>2, <1>4, <1>6, <1>12 DEF Types, Locals, ReadKeeps, Entry
<1>15. Numbers'
  BY <1>1, <1>2, <1>4, NumbersKept
<1>16. DeliveredOK' /\ OrderOK'
  BY <1>1 DEF DeliveredOK, OrderOK
<1> QED
  BY <1>4, <1>13, <1>14, <1>15, <1>16

\* One turn of the loop in probeNetwork().
LEMMA ReadStep ==
  ASSUME NoWrap, TransportInv, NEW n \in Id, NEW d \in net, d.to = n, NEW r \in Locals(n), Read(n, d, r)
  PROVE  TransportInv'
<1>1. PICK copies \in {0, 1} :
         LET rest == IF copies = 1 THEN net ELSE net \ {d} IN
         /\ dups + copies <= MaxDup
         /\ dups' = dups + copies
         /\ \/ InSequence(n, d, r, rest)
            \/ Duplicate(n, d, r, rest)
            \/ OutOfOrder(n, d, r, rest)
            \/ Control(n, d, r, rest)
  BY DEF Read
<1>2. PICK rest \in SUBSET net :
         \/ InSequence(n, d, r, rest)
         \/ Duplicate(n, d, r, rest)
         \/ OutOfOrder(n, d, r, rest)
         \/ Control(n, d, r, rest)
  BY <1>1
<1>3. ReadKeeps
  BY <1>1, TransportAssumption DEF Read, ReadKeeps, TransportInv, Types
<1> QED
  BY <1>2, <1>3, InSequenceStep, DuplicateStep, OutOfOrderStep, ControlStep

LEMMA ReadSocketStep ==
  ASSUME NoWrap, TransportInv, NEW n \in Id, NEW d, ReadSocket(n, d)
  PROVE  TransportInv'
<1> DEFINE r == [src |-> d.from, left |-> {j \in Peers(n) : j > d.from},
                 req |-> FALSE, dup |-> FALSE, moving |-> FALSE]
<1>1. d \in net /\ d.to = n /\ Read(n, d, r)
  BY DEF ReadSocket
<1>2. d.from \in Peers(n)
  BY <1>1 DEF TransportInv, NetOK, DatagramOK, Peers
<1>3. r \in Locals(n)
  BY <1>2 DEF Locals
<1> QED
  BY <1>1, <1>3, ReadStep

LEMMA ReadOnStep ==
  ASSUME NoWrap, TransportInv, NEW n \in Id, NEW d, ReadOn(n, d)
  PROVE  TransportInv'
<1>1. d \in net /\ d.to = n /\ Read(n, d, reading[n])
  BY DEF ReadOn
<1>2. reading[n] \in Locals(n)
  BY DEF TransportInv, Types, Locals
<1> QED
  BY <1>1, <1>2, ReadStep
-----------------------------------------------------------------------------
(* After the loop over one socket *)

\* The source whose socket was read, and the top of its queue.
LEMMA TopFacts ==
  ASSUME TransportInv, NEW n \in Id, NEW k \in {0, 1}, Top(n, k)
  PROVE  LET s == reading[n].src
             q == outOfOrderMessageQs[n][s]
         IN  /\ s \in Id /\ s # n
             /\ outOfOrderMessageQs \in Matrix(Seq(Entry)) /\ q \in Seq(Entry) /\ q # <<>>
             /\ OutQueueOK(q, nextSendSequenceNumber[s][n])
             /\ Head(q)[1] = Head(q)[2]
             /\ Head(q)[1] = highestInSequenceNumberReceived[n][s] + k
             /\ highestInSequenceNumberReceived[n][s] + k < nextSendSequenceNumber[s][n]
<1> DEFINE s == reading[n].src
           q == outOfOrderMessageQs[n][s]
<1>1. s \in Id /\ s # n
  <2>1. s \in Peers(n) \cup {None} /\ s # None
    BY DEF TransportInv, Types, Top, Busy
  <2> QED
    BY <2>1 DEF Peers
<1>2. outOfOrderMessageQs \in Matrix(Seq(Entry))
  BY DEF TransportInv, Types, Entry
<1>3. q \in Seq(Entry) /\ q # <<>> /\ OutQueueOK(q, nextSendSequenceNumber[s][n])
  BY <1>1, <1>2, MatrixType DEF Top, TransportInv, OutOK
<1>4. Head(q)[1] = highestInSequenceNumberReceived[n][s] + k
  BY DEF Top
<1>5. /\ highestInSequenceNumberReceived[n][s] \in Nat /\ nextSendSequenceNumber[s][n] \in Nat
  BY <1>1, NumberTypes DEF TransportInv
<1> HIDE DEF q, s
<1>6. Head(q) = q[1] /\ 1 \in 1..Len(q)
  BY <1>3, TailOf
<1>7. Head(q)[1] = Head(q)[2] /\ Head(q)[1] \in 1..(nextSendSequenceNumber[s][n] - 1)
  BY <1>3, <1>6 DEF OutQueueOK
<1>8. highestInSequenceNumberReceived[n][s] + k < nextSendSequenceNumber[s][n]
  BY <1>4, <1>5, <1>7
<1> QED
  BY <1>1, <1>2, <1>3, <1>4, <1>7, <1>8 DEF q, s

\* pop() keeps the queues, the types and the network good.
LEMMA Popped ==
  ASSUME TransportInv, NEW n \in Id, NEW k \in {0, 1}, Top(n, k), Pop(n)
  PROVE  /\ outOfOrderMessageQs' \in Matrix(Seq(Nat \X Nat))
         /\ OutOK'
         /\ DOMAIN reading' = Id /\ \A i \in Id : reading'[i] \in Locals(i)
         /\ UNCHANGED <<nextSendSequenceNumber, acknowledgedSequenceNumberReceived,
                        acknowledgedSequenceNumberSent, sendQs, net, losses, dups, delivered>>
<1> DEFINE s == reading[n].src
           q == outOfOrderMessageQs[n][s]
<1>1. /\ s \in Id /\ outOfOrderMessageQs \in Matrix(Seq(Entry)) /\ q \in Seq(Entry) /\ q # <<>>
      /\ OutQueueOK(q, nextSendSequenceNumber[s][n])
  BY TopFacts
<1>2. outOfOrderMessageQs' = [outOfOrderMessageQs EXCEPT ![n][s] = Tail(q)]
  BY DEF Pop
<1>3. UNCHANGED <<nextSendSequenceNumber, acknowledgedSequenceNumberReceived,
                  acknowledgedSequenceNumberSent, sendQs, net, losses, dups, delivered>>
  BY DEF Pop
<1>4. DOMAIN reading' = Id /\ \A i \in Id : reading'[i] \in Locals(i)
  <2>1. reading' = [reading EXCEPT ![n] = [reading[n] EXCEPT !.moving = TRUE]]
    BY DEF Pop
  <2>2. reading[n] \in Locals(n)
    BY DEF TransportInv, Types, Locals
  <2>3. [reading[n] EXCEPT !.moving = TRUE] \in Locals(n)
    BY <2>2 DEF Locals
  <2> QED
    BY <2>1, <2>3, ReadingChanged DEF TransportInv
<1> HIDE DEF q, s
<1>5. PICK t \in Seq(Entry) : t = Tail(q)
  BY <1>1, TailOf
<1>6. /\ outOfOrderMessageQs' \in Matrix(Seq(Entry))
      /\ \A i, j \in Id : outOfOrderMessageQs'[i][j] = IF i = n /\ j = s THEN t ELSE outOfOrderMessageQs[i][j]
  BY <1>1, <1>2, <1>5 DEF Matrix
<1>7. OutQueueOK(t, nextSendSequenceNumber[s][n])
  <2>1. /\ Len(q) \in Nat /\ Len(q) > 0 /\ Len(t) = Len(q) - 1
        /\ \A x \in 1..Len(t) : t[x] = q[x + 1]
    BY <1>1, <1>5, TailOf
  <2>2. Len(t) <= MaxOutOfOrder
    BY <1>1, <2>1, TransportAssumption DEF OutQueueOK
  <2>3. \A x \in 1..Len(t) : x + 1 \in 1..Len(q)
    BY <2>1
  <2> QED
    BY <1>1, <2>1, <2>2, <2>3 DEF OutQueueOK
<1>8. OutOK'
  BY <1>1, <1>3, <1>6, <1>7 DEF OutOK, TransportInv
<1> QED
  BY <1>3, <1>4, <1>6, <1>8 DEF Entry

LEMMA MoveToInOrderStep ==
  ASSUME TransportInv, NEW n \in Id, MoveToInOrder(n)
  PROVE  TransportInv'
<1> USE DEF TransportInv
<1>1. Top(n, 1) /\ Pop(n)
  BY DEF MoveToInOrder
<1>2. PICK s \in Id :
        /\ s = reading[n].src
        /\ Head(outOfOrderMessageQs[n][s])[2] = highestInSequenceNumberReceived[n][s] + 1
        /\ highestInSequenceNumberReceived[n][s] + 1 < nextSendSequenceNumber[s][n]
  BY <1>1, TopFacts
<1>3. Inserts(n, s)
  BY <1>2 DEF MoveToInOrder, Inserts
<1>4. /\ outOfOrderMessageQs' \in Matrix(Seq(Nat \X Nat))
      /\ OutOK'
      /\ DOMAIN reading' = Id /\ \A i \in Id : reading'[i] \in Locals(i)
      /\ UNCHANGED <<nextSendSequenceNumber, acknowledgedSequenceNumberReceived,
                     acknowledgedSequenceNumberSent, sendQs, net, losses, dups, delivered>>
  BY <1>1, Popped
<1>5. /\ highestInSequenceNumberReceived' \in Matrix(Nat)
      /\ inOrderMessageQ' \in [Id -> Seq(Id \X Nat)]
      /\ \A i, j \in Id :
           /\ highestInSequenceNumberReceived[i][j] <= highestInSequenceNumberReceived'[i][j]
           /\ highestInSequenceNumberReceived'[j][i] < nextSendSequenceNumber[i][j]
      /\ DeliveredOK' /\ OrderOK'
  BY <1>2, <1>3, <1>4, InsertedInOrder
<1>6. Types'
  BY <1>4, <1>5 DEF Types, Locals
<1>7. ASSUME NEW i \in Id, NEW j \in Id
      PROVE  acknowledgedSequenceNumberReceived'[i][j] <= highestInSequenceNumberReceived'[j][i]
  <2>1. /\ highestInSequenceNumberReceived'[j][i] \in Nat /\ highestInSequenceNumberReceived[j][i] \in Nat
        /\ acknowledgedSequenceNumberReceived[i][j] \in Nat
        /\ acknowledgedSequenceNumberReceived[i][j] <= highestInSequenceNumberReceived[j][i]
    BY <1>5, NumberTypes, MatrixType DEF Numbers
  <2> QED
    BY <1>4, <1>5, <2>1
<1>8. Numbers'
  BY <1>4, <1>5, <1>7, NumbersKept
<1>9. SendOK'
  BY <1>4 DEF SendOK
<1>10. NetOK'
  <2>1. /\ nextSendSequenceNumber' \in Matrix(Nat)
        /\ \A i, j \in Id : nextSendSequenceNumber[i][j] <= nextSendSequenceNumber'[i][j]
    BY <1>4, NumberTypes DEF Types
  <2> QED
    BY <1>4, <1>5, <2>1, DatagramsStay DEF NetOK
<1> QED
  BY <1>4, <1>5, <1>6, <1>8, <1>9, <1>10

LEMMA DiscardCopyStep ==
  ASSUME TransportInv, NEW n \in Id, DiscardCopy(n)
  PROVE  TransportInv'
<1> USE DEF TransportInv
<1>1. Top(n, 0) /\ Pop(n) /\ UNCHANGED <<highestInSequenceNumberReceived, inOrderMessageQ>>
  BY DEF DiscardCopy
<1>2. /\ outOfOrderMessageQs' \in Matrix(Seq(Nat \X Nat))
      /\ OutOK'
      /\ DOMAIN reading' = Id /\ \A i \in Id : reading'[i] \in Locals(i)
      /\ UNCHANGED <<nextSendSequenceNumber, acknowledgedSequenceNumberReceived,
                     acknowledgedSequenceNumberSent, sendQs, net, losses, dups, delivered>>
  BY <1>1, Popped
<1>3. Types'
  BY <1>1, <1>2 DEF Types, Locals
<1>4. Numbers' /\ SendOK' /\ DeliveredOK' /\ OrderOK'
  BY <1>1, <1>2 DEF Numbers, SendOK, DeliveredOK, OrderOK
<1>5. NetOK'
  BY <1>1, <1>2 DEF NetOK, DatagramOK
<1> QED
  BY <1>2, <1>3, <1>4, <1>5

\* A CONTROL datagram acknowledges what has been received.
LEMMA ControlDatagramOK ==
  ASSUME NoWrap, Types, Numbers, NEW n \in Id, NEW s \in Id, s # n, NEW hole, NEW d,
         d = Datagram(n, s, FALSE, highestInSequenceNumberReceived[n][s], hole, 0)
  PROVE  DatagramOK(d)
<1>1. /\ highestInSequenceNumberReceived[n][s] \in Nat /\ nextSendSequenceNumber[s][n] \in Nat
      /\ Quota[s][n] \in Nat
  BY NumberTypes
<1>2. highestInSequenceNumberReceived[n][s] <= Quota[s][n]
  BY <1>1 DEF Numbers
<1>3. Wire(highestInSequenceNumberReceived[n][s]) = highestInSequenceNumberReceived[n][s]
  BY <1>1, <1>2, WireSame
<1> QED
  BY <1>1, <1>3 DEF Datagram, DatagramOK, Peers

LEMMA EndReadStep ==
  ASSUME NoWrap, TransportInv, NEW n \in Id, EndRead(n)
  PROVE  TransportInv'
<1> USE DEF TransportInv
<1>1. PICK s \in Id : s = reading[n].src /\ s # n
  <2>1. reading[n].src \in Peers(n) \cup {None} /\ reading[n].src # None
    BY DEF Types, EndRead, Busy
  <2> QED
    BY <2>1 DEF Peers
<1>2. UNCHANGED <<nextSendSequenceNumber, acknowledgedSequenceNumberReceived,
                  highestInSequenceNumberReceived, sendQs, outOfOrderMessageQs,
                  inOrderMessageQ, losses, dups, delivered>>
  BY DEF EndRead
<1>3. PICK v \in {highestInSequenceNumberReceived[n][s], acknowledgedSequenceNumberSent[n][s]} :
         acknowledgedSequenceNumberSent' = [acknowledgedSequenceNumberSent EXCEPT ![n][s] = v]
  BY <1>1 DEF EndRead
<1>4. \A d \in net' : d \in net \/ \E hole :
         d = Datagram(n, s, FALSE, highestInSequenceNumberReceived[n][s], hole, 0)
  BY <1>1 DEF EndRead, HoleRequest, ExplicitAck
<1>5. DOMAIN reading' = Id /\ \A i \in Id : reading'[i] \in Locals(i)
  <2>1. reading' = [reading EXCEPT ![n] = [src |-> None, left |-> reading[n].left, req |-> FALSE,
                                           dup |-> FALSE, moving |-> FALSE]]
    BY DEF EndRead
  <2>2. reading[n] \in Locals(n)
    BY DEF Types, Locals
  <2>3. [src |-> None, left |-> reading[n].left, req |-> FALSE, dup |-> FALSE, moving |-> FALSE] \in Locals(n)
    BY <2>2 DEF Locals
  <2> QED
    BY <2>1, <2>3, ReadingChanged
<1>6. /\ highestInSequenceNumberReceived[n][s] \in Nat /\ acknowledgedSequenceNumberSent[n][s] \in Nat
      /\ acknowledgedSequenceNumberSent[n][s] <= highestInSequenceNumberReceived[n][s]
  BY NumberTypes DEF Numbers
<1>7. /\ acknowledgedSequenceNumberSent' \in Matrix(Nat)
      /\ \A i, j \in Id : acknowledgedSequenceNumberSent'[i][j] =
           IF i = n /\ j = s THEN v ELSE acknowledgedSequenceNumberSent[i][j]
  <2>1. acknowledgedSequenceNumberSent \in Matrix(Nat) /\ v \in Nat
    BY <1>3, <1>6 DEF Types
  <2> QED
    BY <1>3, <2>1 DEF Matrix
<1>8. Types'
  BY <1>2, <1>5, <1>7 DEF Types, Locals
<1>9. Numbers'
  BY <1>2, <1>3, <1>6, <1>7 DEF Numbers
<1>10. OutOK' /\ SendOK' /\ DeliveredOK' /\ OrderOK'
  BY <1>2 DEF OutOK, SendOK, DeliveredOK, OrderOK
<1>11. NetOK'
  <2> SUFFICES ASSUME NEW d \in net' PROVE DatagramOK(d)'
    BY DEF NetOK
  <2>1. DatagramOK(d)
    BY <1>1, <1>4, ControlDatagramOK DEF NetOK
  <2> QED
    BY <1>2, <2>1 DEF DatagramOK
<1> QED
  BY <1>8, <1>9, <1>10, <1>11
-----------------------------------------------------------------------------
(* Handing a message over *)

\* The first message of the in order queue is the one after those of its channel
\* that were handed over before.
LEMMA FirstIsNext ==
  ASSUME NEW q, NEW del, NEW highest, RowTypes(q, del, highest), q # <<>>, InOrder(q, del, highest)
  PROVE  q[1][1] \in Id /\ q[1][2] = Len(del[q[1][1]]) + 1 /\ q[1][2] <= highest[q[1][1]]
<1>1. /\ Len(q) \in Nat
      /\ \A k \in 1..Len(q) : q[k] = <<q[k][1], q[k][2]>> /\ q[k][1] \in Id /\ q[k][2] \in Nat
      /\ \A i \in Id : Len(del[i]) \in Nat /\ highest[i] \in Nat
  BY RowTypesFacts
<1>2. 1 \in 1..Len(q)
  BY <1>1, TailOf DEF RowTypes
<1>3. PICK s, x : s = q[1][1] /\ x = q[1][2]
  OBVIOUS
<1>4. s \in Id /\ x \in Nat /\ Len(del[s]) < x /\ x <= highest[s]
  BY <1>1, <1>2, <1>3 DEF InOrder
<1>5. Len(del[s]) + 1 \in Nat /\ Len(del[s]) < Len(del[s]) + 1 /\ Len(del[s]) + 1 <= highest[s]
  BY <1>1, <1>4
<1>6. PICK k \in 1..Len(q) : q[k] = <<s, Len(del[s]) + 1>>
  BY <1>4, <1>5 DEF InOrder
<1>7. q[k][1] = s /\ q[k][2] = Len(del[s]) + 1
  BY <1>6
<1>8. CASE k = 1
  BY <1>3, <1>4, <1>7, <1>8
<1>9. CASE k # 1
  <2>1. 1 < k
    BY <1>1, <1>6, <1>9
  <2>2. x < Len(del[s]) + 1
    BY <1>2, <1>3, <1>6, <1>7, <2>1 DEF InOrder
  <2> QED
    BY <1>1, <1>4, <2>2
<1> QED
  BY <1>8, <1>9

\* What is left after the first message has been handed over.
LEMMA InOrderShrinks ==
  ASSUME NEW q, NEW p, NEW del, NEW new, NEW highest,
         RowTypes(q, del, highest), RowTypes(p, new, highest), q # <<>>, p = Tail(q),
         NEW s \in Id, s = q[1][1], Len(new[s]) = Len(del[s]) + 1,
         \A i \in Id \ {s} : new[i] = del[i],
         InOrder(q, del, highest)
  PROVE  InOrder(p, new, highest)
<1>1. /\ Len(q) \in Nat /\ Len(p) \in Nat
      /\ \A k \in 1..Len(q) : q[k] = <<q[k][1], q[k][2]>> /\ q[k][1] \in Id /\ q[k][2] \in Nat
      /\ \A i \in Id : Len(del[i]) \in Nat /\ Len(new[i]) \in Nat /\ highest[i] \in Nat
  BY RowTypesFacts
<1>2. Len(q) > 0 /\ Len(p) = Len(q) - 1 /\ \A k \in 1..Len(p) : p[k] = q[k + 1]
  BY TailOf DEF RowTypes
<1>3. 1 \in 1..Len(q) /\ \A k \in 1..Len(p) : k + 1 \in 1..Len(q) /\ 1 < k + 1
  BY <1>1, <1>2
<1>4. q[1][2] = Len(del[s]) + 1
  BY FirstIsNext
<1>5. ASSUME NEW k \in 1..Len(p)
      PROVE  Len(new[p[k][1]]) < p[k][2] /\ p[k][2] <= highest[p[k][1]]
  <2>1. k + 1 \in 1..Len(q) /\ p[k] = q[k + 1] /\ q[k + 1][1] \in Id /\ q[k + 1][2] \in Nat
    BY <1>1, <1>2, <1>3
  <2>2. Len(del[q[k + 1][1]]) < q[k + 1][2] /\ q[k + 1][2] <= highest[q[k + 1][1]]
    BY <2>1 DEF InOrder
  <2>3. CASE q[k + 1][1] # s
    BY <2>1, <2>2, <2>3
  <2>4. CASE q[k + 1][1] = s
    <3>1. q[1][2] < q[k + 1][2]
      BY <1>3, <2>1, <2>4 DEF InOrder
    <3> QED
      BY <1>4, <2>1, <2>2, <2>4, <3>1
  <2> QED
    BY <2>3, <2>4
<1>6. ASSUME NEW k \in 1..Len(p), NEW l \in 1..Len(p), k < l, p[k][1] = p[l][1]
      PROVE  p[k][2] < p[l][2]
  <2>1. k + 1 \in 1..Len(q) /\ l + 1 \in 1..Len(q) /\ k + 1 < l + 1 /\ p[k] = q[k + 1] /\ p[l] = q[l + 1]
    BY <1>1, <1>2, <1>3, <1>6
  <2> QED
    BY <1>6, <2>1 DEF InOrder
<1>7. ASSUME NEW i \in Id, NEW x \in Nat, Len(new[i]) < x, x <= highest[i]
      PROVE  \E k \in 1..Len(p) : p[k] = <<i, x>>
  <2>1. Len(del[i]) < x /\ (i = s => x # Len(del[s]) + 1)
    BY <1>1, <1>7
  <2>2. PICK k \in 1..Len(q) : q[k] = <<i, x>>
    BY <1>7, <2>1 DEF InOrder
  <2>3. k # 1
    BY <1>4, <2>1, <2>2
  <2>4. k - 1 \in 1..Len(p) /\ k - 1 + 1 = k
    BY <1>1, <1>2, <2>2, <2>3
  <2>5. p[k - 1] = q[k]
    BY <1>2, <2>4
  <2> QED
    BY <2>2, <2>4, <2>5
<1> QED
  BY <1>5, <1>6, <1>7 DEF InOrder

\* GetNextInOrder() hands over the next message of some channel.
LEMMA NextHandedOver ==
  ASSUME TransportInv, NEW n \in Id, GetNextInOrder(n)
  PROVE  \E s \in Id :
           /\ s = Head(inOrderMessageQ[n])[1]
           /\ delivered[n][s] \in Seq(Nat)
           /\ delivered' = [delivered EXCEPT ![n][s] = Append(@, Len(delivered[n][s]) + 1)]
           /\ Len(delivered[n][s]) + 1 <= highestInSequenceNumberReceived[n][s]
           /\ Head(inOrderMessageQ[n]) = inOrderMessageQ[n][1] /\ inOrderMessageQ[n] # <<>>
<1> DEFINE q == inOrderMessageQ[n]
           del == delivered[n]
           highest == highestInSequenceNumberReceived[n]
<1>1. q # <<>> /\ InOrder(q, del, highest)
  BY DEF GetNextInOrder, TransportInv, OrderOK
<1>2. RowTypes(q, del, highest)
  BY DEF TransportInv, Types, Matrix, RowTypes
<1>3. delivered' = [delivered EXCEPT ![n][Head(q)[1]] = Append(@, Head(q)[2])]
  BY DEF GetNextInOrder
<1> HIDE DEF q, del, highest
<1>4. Head(q) = q[1]
  BY <1>1, <1>2, TailOf DEF RowTypes
<1>5. q[1][1] \in Id /\ q[1][2] = Len(del[q[1][1]]) + 1 /\ q[1][2] <= highest[q[1][1]]
  BY <1>1, <1>2, FirstIsNext
<1>6. del[q[1][1]] \in Seq(Nat)
  BY <1>2, <1>5 DEF RowTypes
<1> QED
  BY <1>1, <1>3, <1>4, <1>5, <1>6 DEF q, del, highest

LEMMA GetNextInOrderStep ==
  ASSUME TransportInv, NEW n \in Id, GetNextInOrder(n)
  PROVE  TransportInv'
<1> USE DEF TransportInv
<1>1. PICK s \in Id :
         /\ s = Head(inOrderMessageQ[n])[1]
         /\ delivered[n][s] \in Seq(Nat)
         /\ delivered' = [delivered EXCEPT ![n][s] = Append(@, Len(delivered[n][s]) + 1)]
         /\ Len(delivered[n][s]) + 1 <= highestInSequenceNumberReceived[n][s]
         /\ Head(inOrderMessageQ[n]) = inOrderMessageQ[n][1] /\ inOrderMessageQ[n] # <<>>
  BY NextHandedOver
<1>2. PICK x, old \in Seq(Nat) : old = delivered[n][s] /\ x = Append(old, Len(old) + 1)
  <2>1. PICK old \in Seq(Nat) : old = delivered[n][s]
    BY <1>1
  <2>2. Append(old, Len(old) + 1) \in Seq(Nat)
    OBVIOUS
  <2> QED
    BY <2>1, <2>2
<1>3. /\ Len(old) \in Nat /\ Len(x) = Len(old) + 1
      /\ \A k \in 1..Len(old) : x[k] = old[k]
      /\ x[Len(old) + 1] = Len(old) + 1
  <2>1. Len(old) + 1 \in Nat
    OBVIOUS
  <2> QED
    BY <1>2, <2>1, AppendedTo
<1>4. /\ delivered' \in Matrix(Seq(Nat))
      /\ \A i, j \in Id : delivered'[i][j] = IF i = n /\ j = s THEN x ELSE delivered[i][j]
  <2>1. delivered \in Matrix(Seq(Nat)) /\ delivered' = [delivered EXCEPT ![n][s] = x]
    BY <1>1, <1>2 DEF Types
  <2> QED
    BY <1>2, <2>1 DEF Matrix
<1>5. /\ inOrderMessageQ' = [inOrderMessageQ EXCEPT ![n] = Tail(@)]
      /\ UNCHANGED <<nextSendSequenceNumber, acknowledgedSequenceNumberReceived,
                     acknowledgedSequenceNumberSent, highestInSequenceNumberReceived,
                     sendQs, outOfOrderMessageQs, net, losses, dups>>
  BY DEF GetNextInOrder
<1>6. inOrderMessageQ' \in [Id -> Seq(Id \X Nat)]
  <2>1. inOrderMessageQ \in [Id -> Seq(Id \X Nat)] /\ Tail(inOrderMessageQ[n]) \in Seq(Id \X Nat)
    BY <1>1, TailOf DEF Types
  <2> QED
    BY <1>5, <2>1
<1>7. DOMAIN reading' = Id /\ \A i \in Id : reading'[i] \in Locals(i)
  <2>1. reading' = [reading EXCEPT ![n] = [reading[n] EXCEPT !.left = {}]]
    BY DEF GetNextInOrder
  <2>2. reading[n] \in Locals(n)
    BY DEF Types, Locals
  <2>3. [reading[n] EXCEPT !.left = {}] \in Locals(n)
    BY <2>2 DEF Locals
  <2> QED
    BY <2>1, <2>3, ReadingChanged
<1>8. Types'
  BY <1>4, <1>5, <1>6, <1>7 DEF Types, Locals
<1>9. Numbers' /\ OutOK' /\ SendOK'
  BY <1>5 DEF Numbers, OutOK, SendOK
<1>10. NetOK'
  BY <1>5 DEF NetOK, DatagramOK
<1>11. DeliveredOK'
  <2> SUFFICES ASSUME NEW i \in Id, NEW j \in Id
               PROVE  HandedOverOK(delivered'[j][i], highestInSequenceNumberReceived[j][i])
    BY <1>5 DEF DeliveredOK
  <2>1. HandedOverOK(delivered[j][i], highestInSequenceNumberReceived[j][i])
    BY DEF DeliveredOK
  <2>2. CASE ~(j = n /\ i = s)
    BY <1>4, <2>1, <2>2
  <2>3. CASE j = n /\ i = s
    <3>1. delivered'[j][i] = x
      BY <1>4, <2>3
    <3>2. Len(x) <= highestInSequenceNumberReceived[j][i]
      BY <1>1, <1>2, <1>3, <2>3
    <3>3. \A k \in 1..Len(old) : old[k] = k
      BY <1>2, <2>1, <2>3 DEF HandedOverOK
    <3>4. ASSUME NEW k \in 1..Len(x) PROVE x[k] = k
      <4>1. k \in 1..Len(old) \/ k = Len(old) + 1
        BY <1>3, <3>4
      <4> QED
        BY <1>3, <3>3, <4>1
    <3> QED
      BY <3>1, <3>2, <3>4 DEF HandedOverOK
  <2> QED
    BY <2>2, <2>3
<1>12. OrderOK'
  <2> SUFFICES ASSUME NEW j \in Id
               PROVE  InOrder(inOrderMessageQ'[j], delivered'[j], highestInSequenceNumberReceived[j])
    BY <1>5 DEF OrderOK
  <2>1. InOrder(inOrderMessageQ[j], delivered[j], highestInSequenceNumberReceived[j])
    BY DEF OrderOK
  <2>2. CASE j # n
    <3>1. inOrderMessageQ'[j] = inOrderMessageQ[j]
      BY <1>5, <2>2 DEF Types
    <3>2. delivered'[j] = delivered[j]
      BY <1>1, <2>2 DEF Types, Matrix
    <3> QED
      BY <2>1, <3>1, <3>2
  <2>3. CASE j = n
    <3>1. PICK q, p, del, new, highest :
             /\ q = inOrderMessageQ[n] /\ p = inOrderMessageQ'[n] /\ del = delivered[n]
             /\ new = delivered'[n] /\ highest = highestInSequenceNumberReceived[n]
      OBVIOUS
    <3>2. RowTypes(q, del, highest)
      BY <3>1 DEF Types, Matrix, RowTypes
    <3>3. RowTypes(p, new, highest)
      BY <1>4, <1>6, <3>1 DEF Types, Matrix, RowTypes
    <3>4. q # <<>> /\ s = q[1][1]
      BY <1>1, <3>1
    <3>5. p = Tail(q)
      BY <1>5, <3>1 DEF Types
    <3>6. Len(new[s]) = Len(del[s]) + 1 /\ \A i \in Id \ {s} : new[i] = del[i]
      BY <1>2, <1>3, <1>4, <3>1
    <3>7. InOrder(q, del, highest)
      BY <2>1, <2>3, <3>1
    <3>8. InOrder(p, new, highest)
      BY <3>2, <3>3, <3>4, <3>5, <3>6, <3>7, InOrderShrinks, ZenonT(60)
    <3> QED
      BY <2>3, <3>1, <3>8
  <2> QED
    BY <2>2, <2>3
<1> QED
  BY <1>8, <1>9, <1>10, <1>11, <1>12

-----------------------------------------------------------------------------
(* The theorems *)

LEMMA TransportInitial == NoWrap /\ Init => TransportInv
<1> SUFFICES ASSUME Init PROVE TransportInv
  OBVIOUS
<1>1. \A n \in Id : reading[n] \in Locals(n)
  BY DEF Init, Locals
<1>2. Types
  BY <1>1, TransportAssumption DEF Init, Types, Matrix, Locals
<1>3. Numbers
  BY NumberTypes, <1>2 DEF Init, Numbers
<1>4. NetOK
  BY DEF Init, NetOK
<1>5. OutOK
  BY TransportAssumption DEF Init, OutOK, OutQueueOK
<1>6. SendOK
  BY DEF Init, SendOK, SendQueueOK
<1>7. DeliveredOK
  BY DEF Init, DeliveredOK, HandedOverOK
<1>8. OrderOK
  BY DEF Init, OrderOK, InOrder
<1> QED
  BY <1>2, <1>3, <1>4, <1>5, <1>6, <1>7, <1>8 DEF TransportInv

LEMMA TransportPreserved == NoWrap /\ TransportInv /\ [Next]_vars => TransportInv'
<1> SUFFICES ASSUME NoWrap, TransportInv, [Next]_vars PROVE TransportInv'
  OBVIOUS
<1>1. ASSUME NEW n \in Id, NEW dest \in Id, PhysicalSend(n, dest) \/ RetransmissionTimeout(n, dest)
      PROVE  TransportInv'
  BY <1>1, PhysicalSendStep, RetransmissionTimeoutStep
<1>2. ASSUME NEW n \in Id, AfterRead(n) \/ GetNextInOrder(n) PROVE TransportInv'
  BY <1>2, MoveToInOrderStep, DiscardCopyStep, EndReadStep, GetNextInOrderStep DEF AfterRead
<1>3. ASSUME NEW n \in Id, NEW d \in net, ReadSocket(n, d) \/ ReadOn(n, d) PROVE TransportInv'
  BY <1>3, ReadSocketStep, ReadOnStep
<1>4. ASSUME NEW d \in net, Lose(d) PROVE TransportInv'
  BY <1>4, LoseStep
<1>5. CASE UNCHANGED vars
  <2>1. UNCHANGED <<node, delivered>> /\ losses' = losses /\ dups' = dups /\ net' = net
    BY <1>5 DEF vars
  <2>2. NetOK'
    BY <2>1 DEF NetOK, DatagramOK, TransportInv, node
  <2> QED
    BY <2>1, <2>2, NetChanged DEF TransportInv, Types
<1> QED
  BY <1>1, <1>2, <1>3, <1>4, <1>5 DEF Next

LEMMA TransportInvariant ==
  ASSUME NoWrap
  PROVE  Spec => []TransportInv
<1>1. Init => TransportInv
  BY TransportInitial
<1>2. TransportInv /\ [Next]_vars => TransportInv'
  BY TransportPreserved
<1> QED
  BY <1>1, <1>2, PTL DEF Spec

\* A sequence whose elements all lie in a set is a sequence over that set.
LEMMA SeqOver ==
  ASSUME NEW T, NEW S, NEW s \in Seq(T), \A k \in 1..Len(s) : s[k] \in S
  PROVE  s \in Seq(S)
BY SeqDef

LEMMA TypesFollow == TransportInv => TypeOK
<1> SUFFICES ASSUME TransportInv PROVE TypeOK
  OBVIOUS
<1>1. ASSUME NEW n \in Id, NEW m \in Id
      PROVE  /\ nextSendSequenceNumber[n][m] \in 1..(Quota[n][m] + 1)
             /\ acknowledgedSequenceNumberReceived[n][m] \in 0..Quota[n][m]
             /\ acknowledgedSequenceNumberSent[n][m] \in 0..Quota[m][n]
             /\ highestInSequenceNumberReceived[n][m] \in 0..Quota[m][n]
  BY <1>1, NumberTypes DEF TransportInv, Numbers
<1>2. ASSUME NEW n \in Id, NEW m \in Id
      PROVE  sendQs[n][m] \in Seq(1..Quota[n][m])
  <2>1. PICK q \in Seq(Nat), next \in Nat : q = sendQs[n][m] /\ next = nextSendSequenceNumber[n][m]
    BY MatrixType DEF TransportInv, Types
  <2>2. next - 1 <= Quota[n][m] /\ Quota[n][m] \in Nat
    BY <1>1, <2>1, TransportAssumption
  <2>3. \A k \in 1..Len(q) : q[k] \in 1..(next - 1)
    BY <2>1 DEF TransportInv, SendOK, SendQueueOK
  <2>4. \A k \in 1..Len(q) : q[k] \in 1..Quota[n][m]
    BY <2>2, <2>3
  <2> QED
    BY <2>1, <2>4, SeqOver
<1>3. ASSUME NEW n \in Id, NEW m \in Id
      PROVE  /\ outOfOrderMessageQs[n][m] \in Seq((0..Quota[m][n]) \X (1..Quota[m][n]))
             /\ Len(outOfOrderMessageQs[n][m]) <= MaxOutOfOrder
  <2>1. PICK q \in Seq(Nat \X Nat), next \in Nat :
           q = outOfOrderMessageQs[n][m] /\ next = nextSendSequenceNumber[m][n]
    BY MatrixType DEF TransportInv, Types
  <2>2. next - 1 <= Quota[m][n] /\ Quota[m][n] \in Nat
    BY <1>1, <2>1, TransportAssumption, SMTT(60)
  <2>3. /\ Len(q) <= MaxOutOfOrder
        /\ \A k \in 1..Len(q) : q[k][1] = q[k][2] /\ q[k][1] \in 1..(next - 1)
    BY <2>1 DEF TransportInv, OutOK, OutQueueOK
  <2>4. ASSUME NEW k \in 1..Len(q)
        PROVE  q[k] \in (0..Quota[m][n]) \X (1..Quota[m][n])
    <3>1. q[k] \in Nat \X Nat
      BY <2>4
    <3>2. q[k] = <<q[k][1], q[k][2]>>
      BY <3>1
    <3>3. q[k][1] \in 0..Quota[m][n] /\ q[k][2] \in 1..Quota[m][n]
      BY <2>2, <2>3
    <3> QED
      BY <3>2, <3>3
  <2> QED
    BY <2>1, <2>3, <2>4, SeqOver
<1>4. ASSUME NEW n \in Id, NEW m \in Id
      PROVE  delivered[n][m] \in Seq(1..Quota[m][n])
  <2>1. PICK del \in Seq(Nat) : del = delivered[n][m]
    BY MatrixType DEF TransportInv, Types
  <2>2. Len(del) <= highestInSequenceNumberReceived[n][m] /\ \A k \in 1..Len(del) : del[k] = k
    BY <2>1 DEF TransportInv, DeliveredOK, HandedOverOK
  <2>3. highestInSequenceNumberReceived[n][m] \in 0..Quota[m][n] /\ Quota[m][n] \in Nat
    BY <1>1, TransportAssumption
  <2>4. \A k \in 1..Len(del) : del[k] \in 1..Quota[m][n]
    BY <2>2, <2>3
  <2> QED
    BY <2>1, <2>4, SeqOver
<1>5. ASSUME NEW n \in Id, NEW m \in Id, NEW seq \in Forgotten(n, m)
      PROVE  seq <= highestInSequenceNumberReceived[m][n]
  <2>1. sendQs[n][m] \in Seq(Nat)
    BY MatrixType DEF TransportInv, Types
  <2>2. seq \in 1..(nextSendSequenceNumber[n][m] - 1) /\ \A k \in 1..Len(sendQs[n][m]) : sendQs[n][m][k] # seq
    BY <1>5, <2>1 DEF Forgotten
  <2>3. seq <= acknowledgedSequenceNumberReceived[n][m]
    BY <2>2 DEF TransportInv, SendOK, SendQueueOK
  <2>4. acknowledgedSequenceNumberReceived[n][m] <= highestInSequenceNumberReceived[m][n]
    BY DEF TransportInv, Numbers
  <2>5. /\ acknowledgedSequenceNumberReceived[n][m] \in Nat
        /\ highestInSequenceNumberReceived[m][n] \in Nat
        /\ nextSendSequenceNumber[n][m] \in Nat
    BY NumberTypes DEF TransportInv
  <2> QED
    BY <2>2, <2>3, <2>4, <2>5
<1> QED
  BY <1>1, <1>2, <1>3, <1>4, <1>5, ZenonT(60) DEF TypeOK, TransportInv, Types

\* The numbers of both ends of every channel stay consistent, whatever the network
\* does: in particular processNwMsgInfo() never takes a message off a send queue
\* that the receiver does not have in sequence.
THEOREM NothingForgotten ==
  ASSUME NoWrap
  PROVE  Spec => []TypeOK
BY TransportInvariant, TypesFollow, PTL

-----------------------------------------------------------------------------
(* Refinement *)

SentNumbers == [i \in Id |-> [j \in Id |-> nextSendSequenceNumber[i][j] - 1]]

\* physicalSend() is a Send.
LEMMA SendIsSend ==
  ASSUME TransportInv, NEW n \in Id, NEW dest \in Id, PhysicalSend(n, dest)
  PROVE  Channels!Send(n, dest)
<1>1. /\ nextSendSequenceNumber \in Matrix(Nat)
      /\ nextSendSequenceNumber' = [nextSendSequenceNumber EXCEPT ![n][dest] = @ + 1]
      /\ dest # n /\ delivered' = delivered
  BY DEF TransportInv, Types, PhysicalSend
<1>2. ASSUME NEW i \in Id, NEW j \in Id
      PROVE  nextSendSequenceNumber'[i][j] - 1 =
               IF i = n /\ j = dest THEN (nextSendSequenceNumber[i][j] - 1) + 1
                                    ELSE nextSendSequenceNumber[i][j] - 1
  BY <1>1 DEF Matrix
<1>3. SentNumbers' = [SentNumbers EXCEPT ![n][dest] = @ + 1]
  BY <1>2, ZenonT(60) DEF SentNumbers
<1> QED
  BY <1>1, <1>3 DEF Channels!Send, SentNumbers

\* getNextInOrder() is a Deliver.
LEMMA HandOverIsDeliver ==
  ASSUME TransportInv, NEW n \in Id, GetNextInOrder(n)
  PROVE  \E s \in Id : Channels!Deliver(s, n)
<1>1. PICK s \in Id :
         /\ delivered[n][s] \in Seq(Nat)
         /\ delivered' = [delivered EXCEPT ![n][s] = Append(@, Len(delivered[n][s]) + 1)]
         /\ Len(delivered[n][s]) + 1 <= highestInSequenceNumberReceived[n][s]
  BY NextHandedOver
<1>2. highestInSequenceNumberReceived[n][s] < nextSendSequenceNumber[s][n]
  BY DEF TransportInv, Numbers
<1>3. highestInSequenceNumberReceived[n][s] \in Nat /\ nextSendSequenceNumber[s][n] \in Nat
  BY NumberTypes DEF TransportInv
<1>4. Len(delivered[n][s]) \in Nat
  BY <1>1
<1>5. Len(delivered[n][s]) < nextSendSequenceNumber[s][n] - 1
  BY <1>1, <1>2, <1>3, <1>4, SMTT(60)
<1>6. Len(delivered[n][s]) < SentNumbers[s][n]
  BY <1>5 DEF SentNumbers
<1>7. nextSendSequenceNumber' = nextSendSequenceNumber
  BY DEF GetNextInOrder
<1>8. SentNumbers' = SentNumbers
  BY <1>7 DEF SentNumbers
<1>9. delivered' = [delivered EXCEPT ![n][s] = Append(@, Len(@) + 1)]
  BY <1>1 DEF TransportInv, Types, Matrix
<1> QED
  BY <1>6, <1>8, <1>9 DEF Channels!Deliver, SentNumbers

\* Nothing else is seen from outside.
LEMMA OthersStutter ==
  ASSUME nextSendSequenceNumber' = nextSendSequenceNumber, delivered' = delivered
  PROVE  UNCHANGED Channels!vars
BY DEF Channels!vars

LEMMA StepsRefine ==
  ASSUME TransportInv, [Next]_vars
  PROVE  [Channels!Next]_(Channels!vars)
<1>1. ASSUME NEW n \in Id, NEW dest \in Id, PhysicalSend(n, dest)
      PROVE  Channels!Next
  BY <1>1, SendIsSend DEF Channels!Next, Channels!Id, Id
<1>2. ASSUME NEW n \in Id, GetNextInOrder(n)
      PROVE  Channels!Next
  BY <1>2, HandOverIsDeliver DEF Channels!Next, Channels!Id, Id
<1>3. ASSUME NEW n \in Id, NEW dest \in Id, RetransmissionTimeout(n, dest)
      PROVE  UNCHANGED Channels!vars
  BY <1>3, OthersStutter DEF RetransmissionTimeout, node
<1>4. ASSUME NEW n \in Id, AfterRead(n)
      PROVE  UNCHANGED Channels!vars
  BY <1>4, OthersStutter DEF AfterRead, MoveToInOrder, DiscardCopy, EndRead, Pop
<1>5. ASSUME NEW n \in Id, NEW d, ReadSocket(n, d) \/ ReadOn(n, d)
      PROVE  UNCHANGED Channels!vars
  BY <1>5, OthersStutter DEF ReadSocket, ReadOn, Read
<1>6. ASSUME NEW d, Lose(d)
      PROVE  UNCHANGED Channels!vars
  BY <1>6, OthersStutter DEF Lose, node
<1>7. CASE UNCHANGED vars
  BY <1>7, OthersStutter DEF vars, node
<1> QED
  BY <1>1, <1>2, <1>3, <1>4, <1>5, <1>6, <1>7 DEF Next

LEMMA InitRefines ==
  ASSUME Init
  PROVE  Channels!Init
<1>1. nextSendSequenceNumber = [n \in Id |-> [d \in Id |-> 1]]
  BY DEF Init
<1>2. SentNumbers = [i \in Id |-> [j \in Id |-> 0]]
  BY <1>1 DEF SentNumbers
<1>3. delivered = [j \in Id |-> [i \in Id |-> <<>>]]
  BY DEF Init
<1> QED
  BY <1>2, <1>3 DEF Channels!Init, SentNumbers, Channels!Id, Id

\* physicalProbeRecv() hands the messages of every channel over once each and in
\* the order of physicalSend(), although datagrams are lost, duplicated and
\* reordered.
THEOREM FifoImplemented ==
  ASSUME NoWrap
  PROVE  Spec => ImplementsFifo
<1>1. Init => Channels!Init
  BY InitRefines
<1>2. TransportInv /\ [Next]_vars => [Channels!Next]_(Channels!vars)
  BY StepsRefine
<1> QED
  BY <1>1, <1>2, TransportInvariant, PTL DEF Spec, ImplementsFifo, Channels!Spec
=============================================================================
