------------------------- MODULE ReliableTransport -------------------------
(* The UDPSelect physical communication layer: sequence numbers, cumulative    *)
(* acknowledgements, requests to fill a hole and retransmission after a        *)
(* timeout, over datagrams that may be lost, duplicated and reordered.         *)
(*                                                                             *)
(* A communicator is one thread.  physicalProbeRecv() looks for timed out      *)
(* messages, reads the sockets that are ready and hands one message over.      *)
(* Reading a socket is a loop: it goes on while a duplicate or an out of order *)
(* datagram was seen and another one is there; then the out of order messages  *)
(* that have become the next in sequence are moved.  The steps of one call are *)
(* separate actions here, because the datagrams they read keep arriving while  *)
(* the call runs; 'reading' keeps the call's local variables in between.       *)
(*                                                                             *)
(* Sequence numbers are unsigned long and compared through their signed        *)
(* difference; they stay far below 2^63 in any run that ends, so they are      *)
(* plain naturals here.  In a datagram they have 32 bits: serialize() converts *)
(* them with htonl().                                                          *)
(*                                                                             *)
(* The sockets of one call are read one after another; a send between two of   *)
(* them is not told apart from a send between two calls, since a channel's     *)
(* state is touched by its own socket only.                                    *)
EXTENDS Naturals, Sequences, SequencesExt

CONSTANTS N,             \* number of communicators, physicalSize
          Quota,         \* Quota[i][j]: how many messages i sends to j (bound)
          AckLimit,      \* maxNrUnackedMsgs
          WireModulus,   \* a number in a datagram wraps here, 2^32
          MaxLoss,       \* datagrams the network loses (bound)
          MaxDup,        \* datagrams the network duplicates (bound)
          MaxOutOfOrder  \* length of an out of order queue (bound)

Id == 0..(N - 1)
Peers(n) == Id \ {n}
None == N                \* no socket is being read

ASSUME TransportAssumption ==
    /\ N \in Nat \ {0, 1}
    /\ Quota \in [Id -> [Id -> Nat]]
    /\ AckLimit \in Nat
    /\ WireModulus \in Nat \ {0, 1}
    /\ MaxLoss \in Nat
    /\ MaxDup \in Nat
    /\ MaxOutOfOrder \in Nat

VARIABLES
    nextSendSequenceNumber,              \* [n][dest]
    acknowledgedSequenceNumberReceived,  \* [n][dest]
    acknowledgedSequenceNumberSent,      \* [n][source]
    highestInSequenceNumberReceived,     \* [n][source]
    sendQs,                              \* [n][dest]: numbers not yet acknowledged
    outOfOrderMessageQs,                 \* [n][source]: <<number, message>>, by number
    inOrderMessageQ,                     \* [n]: <<source, number>>
    reading,                             \* [n]: the socket being read
    net,                                 \* datagrams under way
    losses, dups,                        \* how often the network failed
    delivered                            \* history: [n][source], what was handed over

node == <<nextSendSequenceNumber, acknowledgedSequenceNumberReceived,
          acknowledgedSequenceNumberSent, highestInSequenceNumberReceived,
          sendQs, outOfOrderMessageQs, inOrderMessageQ, reading>>
vars == <<node, net, losses, dups, delivered>>

-----------------------------------------------------------------------------
(* Datagrams.  'user' is the user data flag; 'data' is the message itself,     *)
(* named by its full number.  Only a CONTROL datagram has an end of hole.      *)

\* serialize() and deserialize(): the low 32 bits.
Wire(x) == x % WireModulus

Datagram(from, to, user, ack, hole, seq) ==
    [from |-> from, to |-> to, user |-> user, ack |-> Wire(ack), hole |-> Wire(hole),
     seq |-> Wire(seq), data |-> seq]

\* The message with number seq, with the acknowledgement n gives dest now.
UserDatagram(n, dest, seq) ==
    Datagram(n, dest, TRUE, highestInSequenceNumberReceived[n][dest], 0, seq)

Init ==
    /\ nextSendSequenceNumber = [n \in Id |-> [d \in Id |-> 1]]
    /\ acknowledgedSequenceNumberReceived = [n \in Id |-> [d \in Id |-> 0]]
    /\ acknowledgedSequenceNumberSent = [n \in Id |-> [d \in Id |-> 0]]
    /\ highestInSequenceNumberReceived = [n \in Id |-> [d \in Id |-> 0]]
    /\ sendQs = [n \in Id |-> [d \in Id |-> <<>>]]
    /\ outOfOrderMessageQs = [n \in Id |-> [d \in Id |-> <<>>]]
    /\ inOrderMessageQ = [n \in Id |-> <<>>]
    /\ reading = [n \in Id |-> [src |-> None, left |-> {}, req |-> FALSE, dup |-> FALSE,
                               moving |-> FALSE]]
    /\ net = {}
    /\ losses = 0
    /\ dups = 0
    /\ delivered = [n \in Id |-> [d \in Id |-> <<>>]]

\* A socket is being read: the call of physicalProbeRecv() has not returned.
Busy(n) == reading[n].src # None

-----------------------------------------------------------------------------
(* Sending *)

\* physicalSend(): the message carries an acknowledgement and is kept until it
\* is acknowledged itself.
PhysicalSend(n, dest) ==
    /\ ~Busy(n)
    /\ dest # n
    /\ nextSendSequenceNumber[n][dest] <= Quota[n][dest]
    /\ LET seq == nextSendSequenceNumber[n][dest] IN
       /\ nextSendSequenceNumber' = [nextSendSequenceNumber EXCEPT ![n][dest] = @ + 1]
       /\ sendQs' = [sendQs EXCEPT ![n][dest] = Append(@, seq)]
       /\ net' = net \cup {UserDatagram(n, dest, seq)}
    /\ acknowledgedSequenceNumberSent' =
         [acknowledgedSequenceNumberSent EXCEPT ![n][dest] =
            highestInSequenceNumberReceived[n][dest]]
    /\ UNCHANGED <<acknowledgedSequenceNumberReceived, highestInSequenceNumberReceived,
                   outOfOrderMessageQs, inOrderMessageQ, reading, losses, dups, delivered>>

\* checkRetransmissionTimeout(): the messages at the front of a send queue that
\* have timed out, up to the first that has not, are sent again with the present
\* acknowledgement.  Any non-empty prefix may have timed out.
RetransmissionTimeout(n, dest) ==
    /\ ~Busy(n)
    /\ inOrderMessageQ[n] = <<>>
    /\ dest # n
    /\ \E k \in 1..Len(sendQs[n][dest]) :
         net' = net \cup {UserDatagram(n, dest, sendQs[n][dest][i]) : i \in 1..k}
    /\ UNCHANGED <<node, losses, dups, delivered>>

-----------------------------------------------------------------------------
(* Reading a socket *)

\* The priority queue with datagram d in it: a message that is as old as d comes
\* before or after it.
Pushes(q, d) ==
    {InsertAt(q, k, <<d.seq, d.data>>) :
       k \in {x \in 1..(Len(q) + 1) : /\ \A i \in 1..(x - 1) : q[i][1] <= d.seq
                                      /\ \A i \in x..Len(q) : q[i][1] >= d.seq}}

\* processNwMsgInfo(): the acknowledgement takes messages off the front of the
\* send queue, up to the first it does not cover, and the messages of a hole that
\* is still open are sent again.  'rest' is the network without the datagram that
\* is being read.
ProcessNwMsgInfo(n, d, rest) ==
    LET acked == IF d.ack > acknowledgedSequenceNumberReceived[n][d.from]
                   THEN d.ack
                   ELSE acknowledgedSequenceNumberReceived[n][d.from]
        q == sendQs[n][d.from]
    IN  /\ acknowledgedSequenceNumberReceived' =
             [acknowledgedSequenceNumberReceived EXCEPT ![n][d.from] = acked]
        /\ \E k \in 0..Len(q) :
             /\ \A i \in 1..k : q[i] <= acked
             /\ k < Len(q) => q[k + 1] > acked
             /\ sendQs' = [sendQs EXCEPT ![n][d.from] = SubSeq(q, k + 1, Len(q))]
             /\ net' = rest \cup {UserDatagram(n, d.from, q[i]) :
                                    i \in {x \in (k + 1)..Len(q) : d.ack <= q[x] /\ q[x] < d.hole}}

\* Whatever comes after the last message is taken as the next.
InSequenceAnyLater(n, d, r, rest) ==
    /\ d.user /\ d.seq > highestInSequenceNumberReceived[n][d.from]
    /\ inOrderMessageQ' = [inOrderMessageQ EXCEPT ![n] = Append(@, <<d.from, d.data>>)]
    /\ highestInSequenceNumberReceived' =
         [highestInSequenceNumberReceived EXCEPT ![n][d.from] = d.seq]
    /\ reading' = [reading EXCEPT ![n] = r]
    /\ ProcessNwMsgInfo(n, d, rest)
    /\ UNCHANGED outOfOrderMessageQs

\* The next message in sequence: insertInOrderMessage().  r holds the local
\* variables of the read that are carried over, here and below.
InSequence(n, d, r, rest) ==
    /\ d.user /\ d.seq = highestInSequenceNumberReceived[n][d.from] + 1
    /\ inOrderMessageQ' = [inOrderMessageQ EXCEPT ![n] = Append(@, <<d.from, d.data>>)]
    /\ highestInSequenceNumberReceived' =
         [highestInSequenceNumberReceived EXCEPT ![n][d.from] = @ + 1]
    /\ reading' = [reading EXCEPT ![n] = r]
    /\ ProcessNwMsgInfo(n, d, rest)
    /\ UNCHANGED outOfOrderMessageQs

\* A duplicate: dropped, and its acknowledgement is not looked at.
Duplicate(n, d, r, rest) ==
    /\ d.user /\ d.seq <= highestInSequenceNumberReceived[n][d.from]
    /\ reading' = [reading EXCEPT ![n] = [r EXCEPT !.dup = TRUE]]
    /\ net' = rest
    /\ UNCHANGED <<acknowledgedSequenceNumberReceived, highestInSequenceNumberReceived,
                   sendQs, outOfOrderMessageQs, inOrderMessageQ>>

\* A message is missing before this one.
OutOfOrder(n, d, r, rest) ==
    /\ d.user /\ d.seq > highestInSequenceNumberReceived[n][d.from] + 1
    /\ Len(outOfOrderMessageQs[n][d.from]) < MaxOutOfOrder
    /\ \E new \in Pushes(outOfOrderMessageQs[n][d.from], d) :
         outOfOrderMessageQs' = [outOfOrderMessageQs EXCEPT ![n][d.from] = new]
    /\ reading' = [reading EXCEPT ![n] = [r EXCEPT !.req = TRUE]]
    /\ ProcessNwMsgInfo(n, d, rest)
    /\ UNCHANGED <<highestInSequenceNumberReceived, inOrderMessageQ>>

\* An explicit acknowledgement or a request to fill a hole.
Control(n, d, r, rest) ==
    /\ ~d.user
    /\ reading' = [reading EXCEPT ![n] = r]
    /\ ProcessNwMsgInfo(n, d, rest)
    /\ UNCHANGED <<highestInSequenceNumberReceived, outOfOrderMessageQs, inOrderMessageQ>>

\* One turn of the loop in probeNetwork().  The network may keep a copy.
Read(n, d, r) ==
    /\ \E copies \in {0, 1} :
         LET rest == IF copies = 1 THEN net ELSE net \ {d} IN
         /\ dups + copies <= MaxDup
         /\ dups' = dups + copies
         /\ \/ InSequence(n, d, r, rest)
            \/ Duplicate(n, d, r, rest)
            \/ OutOfOrder(n, d, r, rest)
            \/ Control(n, d, r, rest)
    /\ UNCHANGED <<nextSendSequenceNumber, acknowledgedSequenceNumberSent, losses, delivered>>

\* The first datagram of a socket.  The sockets are looked at in the order of the
\* communicators, and only when nothing is left to hand over.
ReadSocket(n, d) ==
    /\ ~Busy(n)
    /\ d \in net /\ d.to = n
    /\ inOrderMessageQ[n] = <<>> \/ d.from \in reading[n].left
    /\ Read(n, d, [src |-> d.from, left |-> {j \in Peers(n) : j > d.from},
                   req |-> FALSE, dup |-> FALSE, moving |-> FALSE])

\* The loop goes on after a duplicate or an out of order message.
ReadOn(n, d) ==
    /\ Busy(n)
    /\ ~reading[n].moving
    /\ reading[n].req \/ reading[n].dup
    /\ d \in net /\ d.to = n /\ d.from = reading[n].src
    /\ Read(n, d, reading[n])

-----------------------------------------------------------------------------
(* After the loop over one socket: there is nothing more to read, or no reason *)
(* to.  updateOutOfOrderMessageQs() looks at the top of the queue of the       *)
(* source again and again: 'moving' keeps probeNetwork() from reading on.      *)

\* The top of the queue has a number at the distance k from the last in sequence.
Top(n, k) ==
    LET s == reading[n].src IN
    /\ Busy(n)
    /\ outOfOrderMessageQs[n][s] # <<>>
    /\ Head(outOfOrderMessageQs[n][s])[1] = highestInSequenceNumberReceived[n][s] + k

\* pop() of the queue that is being looked at.
Pop(n) ==
    /\ outOfOrderMessageQs' = [outOfOrderMessageQs EXCEPT ![n][reading[n].src] = Tail(@)]
    /\ reading' = [reading EXCEPT ![n].moving = TRUE]
    /\ UNCHANGED <<nextSendSequenceNumber, acknowledgedSequenceNumberReceived,
                   acknowledgedSequenceNumberSent, sendQs, net, losses, dups, delivered>>

\* A copy of the last message is moved once more.
MoveCopiesToo(n) ==
    /\ Top(n, 1) \/ Top(n, 0)
    /\ LET s == reading[n].src IN
       /\ inOrderMessageQ' =
            [inOrderMessageQ EXCEPT ![n] = Append(@, <<s, Head(outOfOrderMessageQs[n][s])[2]>>)]
       /\ highestInSequenceNumberReceived' =
            [highestInSequenceNumberReceived EXCEPT ![n][s] = @ + 1]
    /\ Pop(n)

\* The top is the next in sequence: insertInOrderMessage().
MoveToInOrder(n) ==
    /\ Top(n, 1)
    /\ LET s == reading[n].src IN
       /\ inOrderMessageQ' =
            [inOrderMessageQ EXCEPT ![n] = Append(@, <<s, Head(outOfOrderMessageQs[n][s])[2]>>)]
       /\ highestInSequenceNumberReceived' =
            [highestInSequenceNumberReceived EXCEPT ![n][s] = @ + 1]
    /\ Pop(n)

\* The top is a copy of the last message.
DiscardCopy(n) ==
    /\ Top(n, 0)
    /\ Pop(n)
    /\ UNCHANGED <<highestInSequenceNumberReceived, inOrderMessageQ>>

\* The hole is requested when this read saw an out of order message.
HoleRequest(n, s, q, highest) ==
    IF q # <<>> /\ reading[n].req
      THEN {Datagram(n, s, FALSE, highest, Head(q)[1], 0)}
      ELSE {}

\* A duplicate is not answered.
ExplicitAckOnLimit(n, s, highest, ackSent) ==
    IF highest - ackSent > AckLimit
      THEN {Datagram(n, s, FALSE, highest, 0, 0)}
      ELSE {}

\* An explicit acknowledgement: too many messages without one, or a duplicate.
ExplicitAck(n, s, highest, ackSent) ==
    IF highest - ackSent > AckLimit \/ reading[n].dup
      THEN {Datagram(n, s, FALSE, highest, 0, 0)}
      ELSE {}

\* The top is neither, or there is none: a hole is requested and the messages are
\* acknowledged if that is due, and the next socket is looked at.
EndRead(n) ==
    /\ Busy(n)
    /\ ~Top(n, 0) /\ ~Top(n, 1)
    /\ LET s == reading[n].src
           highest == highestInSequenceNumberReceived[n][s]
           request == HoleRequest(n, s, outOfOrderMessageQs[n][s], highest)
           ackSent == IF request # {} THEN highest ELSE acknowledgedSequenceNumberSent[n][s]
           ack == ExplicitAck(n, s, highest, ackSent)
       IN  /\ acknowledgedSequenceNumberSent' =
                [acknowledgedSequenceNumberSent EXCEPT ![n][s] =
                   IF ack # {} THEN highest ELSE ackSent]
           /\ net' = net \cup request \cup ack
    /\ reading' = [reading EXCEPT ![n] = [src |-> None, left |-> @.left, req |-> FALSE,
                                          dup |-> FALSE, moving |-> FALSE]]
    /\ UNCHANGED <<nextSendSequenceNumber, acknowledgedSequenceNumberReceived,
                   highestInSequenceNumberReceived, sendQs, outOfOrderMessageQs,
                   inOrderMessageQ, losses, dups, delivered>>

\* getNextInOrder(): the call returns a message to the communication manager.
GetNextInOrder(n) ==
    /\ ~Busy(n)
    /\ inOrderMessageQ[n] # <<>>
    /\ inOrderMessageQ' = [inOrderMessageQ EXCEPT ![n] = Tail(@)]
    /\ LET m == Head(inOrderMessageQ[n]) IN
       delivered' = [delivered EXCEPT ![n][m[1]] = Append(@, m[2])]
    /\ reading' = [reading EXCEPT ![n].left = {}]
    /\ UNCHANGED <<nextSendSequenceNumber, acknowledgedSequenceNumberReceived,
                   acknowledgedSequenceNumberSent, highestInSequenceNumberReceived,
                   sendQs, outOfOrderMessageQs, net, losses, dups>>

-----------------------------------------------------------------------------
(* The network *)

Lose(d) == /\ d \in net
           /\ losses < MaxLoss
           /\ net' = net \ {d}
           /\ losses' = losses + 1
           /\ UNCHANGED <<node, dups, delivered>>

AfterRead(n) == MoveToInOrder(n) \/ DiscardCopy(n) \/ EndRead(n)

Next == \/ \E n, dest \in Id : PhysicalSend(n, dest) \/ RetransmissionTimeout(n, dest)
        \/ \E n \in Id : AfterRead(n) \/ GetNextInOrder(n)
        \/ \E n \in Id : \E d \in net : ReadSocket(n, d) \/ ReadOn(n, d)
        \/ \E d \in net : Lose(d)

Spec == Init /\ [][Next]_vars

(* Fairness.  simulate() calls physicalProbeRecv() again and again, so that a  *)
(* call that has begun is finished, a message that is there is handed over     *)
(* and a timed out message is sent again.  The network delivers a datagram     *)
(* that is sent over and over: message by message for user data, and some      *)
(* datagram without user data for the others.                                  *)
ReadUser(n, s, seq) ==
    \E d \in net : d.from = s /\ d.user /\ d.data = seq /\ (ReadSocket(n, d) \/ ReadOn(n, d))

ReadControl(n, s) ==
    \E d \in net : d.from = s /\ ~d.user /\ (ReadSocket(n, d) \/ ReadOn(n, d))

Recipients(n) == {m \in Peers(n) : Quota[n][m] > 0}

Fairness ==
    \A n \in Id :
      /\ WF_vars(AfterRead(n))
      /\ WF_vars(GetNextInOrder(n))
      /\ \A m \in Recipients(n) :
           /\ SF_vars(RetransmissionTimeout(n, m))
           /\ SF_vars(ReadControl(n, m))
           /\ \A seq \in 1..Quota[n][m] : SF_vars(ReadUser(m, n, seq))

FairSpec == Spec /\ Fairness

-----------------------------------------------------------------------------
(* Properties *)

Forgotten(n, m) == {seq \in 1..(nextSendSequenceNumber[n][m] - 1) :
                      \A i \in DOMAIN sendQs[n][m] : sendQs[n][m][i] # seq}

\* The numbers of a channel stay within what was sent on it, at both ends, and
\* an out of order queue within its bound.  A message leaves the send queue only
\* when the receiver has it in sequence: no acknowledgement, however old or
\* duplicated, makes the sender forget a message that the receiver still misses.
TypeOK ==
    /\ \A n, m \in Id :
         /\ nextSendSequenceNumber[n][m] \in 1..(Quota[n][m] + 1)
         /\ acknowledgedSequenceNumberReceived[n][m] \in 0..Quota[n][m]
         /\ acknowledgedSequenceNumberSent[n][m] \in 0..Quota[m][n]
         /\ highestInSequenceNumberReceived[n][m] \in 0..Quota[m][n]
         /\ sendQs[n][m] \in Seq(1..Quota[n][m])
         /\ outOfOrderMessageQs[n][m] \in Seq((0..Quota[m][n]) \X (1..Quota[m][n]))
         /\ Len(outOfOrderMessageQs[n][m]) <= MaxOutOfOrder
         /\ delivered[n][m] \in Seq(1..Quota[m][n])
    /\ \A n \in Id : reading[n] \in [src : Peers(n) \cup {None}, left : SUBSET Peers(n),
                                     req : BOOLEAN, dup : BOOLEAN, moving : BOOLEAN]
    /\ losses \in 0..MaxLoss /\ dups \in 0..MaxDup
    /\ \A n, m \in Id : \A seq \in Forgotten(n, m) :
           seq <= highestInSequenceNumberReceived[m][n]

\* What the kernel assumes of the layer: each message once and in order.
Channels == INSTANCE FifoChannels WITH
    sent <- [i \in Id |-> [j \in Id |-> nextSendSequenceNumber[i][j] - 1]]

\* Datagrams may be lost, duplicated and reordered, yet physicalProbeRecv() hands
\* every channel's messages over once each and in the order of physicalSend().
ImplementsFifo == Channels!Spec

\* Every message handed to physicalSend() is handed over in the end, and the send
\* queues that keep messages are emptied, even when the receiver never sends one.
AllDelivered ==
    []<>(\A n, m \in Id : /\ Len(delivered[m][n]) = nextSendSequenceNumber[n][m] - 1
                          /\ sendQs[n][m] = <<>>)
=============================================================================
