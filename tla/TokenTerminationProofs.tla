----------------------- MODULE TokenTerminationProofs -----------------------
(* The right to run a termination detection is in one place and the roles of   *)
(* the managers are consistent, for every number of managers, every topology   *)
(* of the application and every number of events.  When the events travel      *)
(* along the ring of the token and every manager starts active, completion is  *)
(* never declared while an event is left.                                      *)
EXTENDS TokenTermination, FiniteSetTheorems, SequenceTheorems, TLAPS

Channel == SM \X SM

\* A token of the detection at position k of channel c.
Control(c, k) == IsToken(c, k, ControlStates)

Complete == \E i \in SM : completeFlag[i]

\* At most one token travels, and none while a terminator is idle.
OneToken ==
    /\ \A c, d \in Channel : \A k, l \in Nat : Control(c, k) /\ Control(d, l) => c = d /\ k = l
    /\ \A c \in Channel : \A k \in Nat : Control(c, k) => IdleTerminators = {}

\* There is one, or an idle terminator, until the simulation is complete.
RightKept ==
    IF Complete
    THEN /\ \A c \in Channel : \A k \in Nat : ~Control(c, k)
         /\ IdleTerminators = {}
    ELSE \/ \E c \in Channel : \E k \in Nat : Control(c, k)
         \/ IdleTerminators # {}

OneTerminator == \A i, j \in SM : amTerminator(i) /\ amTerminator(j) => i = j

\* What each kind of token says about the roles.
Roles ==
    \A c \in Channel : \A k \in Nat :
        /\ IsToken(c, k, {"FIRST_CYCLE", "SECOND_CYCLE"}) => amTerminator(chan[c][k].terminator)
        /\ IsToken(c, k, {"CANCEL_CYCLE"}) => amTerminator(c[2])
        /\ IsToken(c, k, {"BECOME_TERMINATOR"}) => \A i \in SM : ~amTerminator(i)
        /\ IsToken(c, k, {"SIMULATION_COMPLETE"}) => Complete

\* The inductive invariant.
DetectionInv == TypeOK /\ OneToken /\ RightKept /\ OneTerminator /\ Roles

-----------------------------------------------------------------------------
(* Messages and channels *)

LEMMA PeerType == \A i \in SM : Peer(i) \in SM
BY NAssumption DEF Peer, SM

LEMMA TokenType ==
  ASSUME NEW f \in SM, NEW t \in SM, NEW s \in ControlStates \cup {"SIMULATION_COMPLETE"}
  PROVE  /\ Token(f, t, s) \in Message
         /\ Token(f, t, s).type = "token"
         /\ Token(f, t, s).terminator = t
         /\ Token(f, t, s).from = f
         /\ Token(f, t, s).state = s
BY DEF Token, Message

LEMMA EventType == EventMsg \in Message /\ EventMsg.type = "event"
BY DEF EventMsg, Message

LEMMA TokenFields ==
  ASSUME NEW m \in Message, m.type = "token"
  PROVE  /\ m.from \in SM /\ m.terminator \in SM
         /\ m.state \in ControlStates \cup {"SIMULATION_COMPLETE"}
BY DEF Message, EventMsg

\* The channels new are the channels old after a message has left channel c.
Shorter(old, new, c) ==
    /\ new \in [Channel -> Seq(Message)]
    /\ \A e \in Channel \ {c} : new[e] = old[e]
    /\ Len(old[c]) \in Nat /\ Len(old[c]) >= 1
    /\ Len(new[c]) = Len(old[c]) - 1
    /\ \A k \in 1 .. Len(new[c]) : new[c][k] = old[c][k + 1]

\* The channels new are the channels old after m has been put into channel d.
Longer(old, new, d, m) ==
    /\ new \in [Channel -> Seq(Message)]
    /\ \A e \in Channel \ {d} : new[e] = old[e]
    /\ Len(old[d]) \in Nat
    /\ Len(new[d]) = Len(old[d]) + 1
    /\ \A k \in 1 .. Len(old[d]) : new[d][k] = old[d][k]
    /\ new[d][Len(old[d]) + 1] = m

LEMMA TakeShorter ==
  ASSUME NEW ch \in [Channel -> Seq(Message)], NEW c \in Channel, ch[c] # <<>>
  PROVE  /\ Shorter(ch, [ch EXCEPT ![c] = Tail(@)], c)
         /\ Head(ch[c]) = ch[c][1] /\ Head(ch[c]) \in Message
         /\ 1 \in 1 .. Len(ch[c])
BY DEF Shorter

LEMMA SendLonger ==
  ASSUME NEW ch \in [Channel -> Seq(Message)], NEW d \in Channel, NEW m \in Message
  PROVE  Longer(ch, [ch EXCEPT ![d] = Append(@, m)], d, m)
BY DEF Longer

\* Where the messages of the new channels were before, and the other way round.
LEMMA ShorterPositions ==
  ASSUME NEW old, NEW new, NEW c \in Channel, Shorter(old, new, c)
  PROVE  /\ \A e \in Channel : \A k \in 1 .. Len(new[e]) :
               \E l \in 1 .. Len(old[e]) :
                  new[e][k] = old[e][l] /\ l = IF e = c THEN k + 1 ELSE k
         /\ \A e \in Channel : \A l \in 1 .. Len(old[e]) :
               \/ e = c /\ l = 1
               \/ \E k \in 1 .. Len(new[e]) :
                     new[e][k] = old[e][l] /\ l = IF e = c THEN k + 1 ELSE k
<1> USE DEF Shorter
<1>1. ASSUME NEW e \in Channel, NEW k \in 1 .. Len(new[e])
      PROVE  \E l \in 1 .. Len(old[e]) :
                new[e][k] = old[e][l] /\ l = IF e = c THEN k + 1 ELSE k
  BY <1>1
<1>2. ASSUME NEW e \in Channel, NEW l \in 1 .. Len(old[e]), ~(e = c /\ l = 1)
      PROVE  \E k \in 1 .. Len(new[e]) :
                new[e][k] = old[e][l] /\ l = IF e = c THEN k + 1 ELSE k
  <2>1. CASE e # c
    BY <2>1
  <2>2. CASE e = c
    <3>1. l - 1 \in 1 .. Len(new[e]) /\ l = l - 1 + 1
      BY <1>2, <2>2
    <3> QED
      BY <2>2, <3>1
  <2> QED
    BY <2>1, <2>2
<1> QED
  BY <1>1, <1>2

-----------------------------------------------------------------------------
(* How the tokens move *)

DetectionParts == OneToken /\ RightKept /\ OneTerminator /\ Roles

\* Sending an event moves no token.
LEMMA EventSentTokens ==
  ASSUME NEW d \in Channel, Longer(chan, chan', d, EventMsg)
  PROVE  \A e \in Channel : \A k \in Nat : \A S :
            /\ IsToken(e, k, S)' <=> IsToken(e, k, S)
            /\ IsToken(e, k, S) => chan'[e][k] = chan[e][k]
<1> SUFFICES ASSUME NEW e \in Channel, NEW k \in Nat, NEW S
             PROVE  /\ IsToken(e, k, S)' <=> IsToken(e, k, S)
                    /\ IsToken(e, k, S) => chan'[e][k] = chan[e][k]
  OBVIOUS
<1>1. ASSUME IsToken(e, k, S)
      PROVE  IsToken(e, k, S)' /\ chan'[e][k] = chan[e][k]
  <2>1. k \in 1 .. Len(chan[e])
    BY <1>1 DEF IsToken
  <2>2. k \in 1 .. Len(chan'[e]) /\ chan'[e][k] = chan[e][k]
    BY <2>1 DEF Longer
  <2> QED
    BY <1>1, <2>2 DEF IsToken
<1>2. ASSUME IsToken(e, k, S)'
      PROVE  IsToken(e, k, S)
  <2>1. k \in 1 .. Len(chan'[e]) /\ chan'[e][k].type = "token"
    BY <1>2 DEF IsToken
  <2>2. \/ e = d /\ chan'[e][k] = EventMsg
        \/ k \in 1 .. Len(chan[e]) /\ chan'[e][k] = chan[e][k]
    BY <2>1 DEF Longer
  <2>3. k \in 1 .. Len(chan[e]) /\ chan'[e][k] = chan[e][k]
    BY <2>1, <2>2, EventType
  <2> QED
    BY <1>2, <2>3 DEF IsToken
<1> QED
  BY <1>1, <1>2

LEMMA EventSent ==
  ASSUME DetectionParts, NEW d \in Channel, Longer(chan, chan', d, EventMsg),
         UNCHANGED <<terminatorStatus, completeFlag>>
  PROVE  DetectionParts'
<1>1. ASSUME NEW e \in Channel, NEW k \in Nat, NEW S
      PROVE  /\ IsToken(e, k, S)' <=> IsToken(e, k, S)
             /\ IsToken(e, k, S) => chan'[e][k] = chan[e][k]
  BY EventSentTokens
<1>3. OneToken'
  BY <1>1 DEF DetectionParts, OneToken, Control, IdleTerminators
<1>4. RightKept'
  BY <1>1 DEF DetectionParts, RightKept, Control, IdleTerminators, Complete
<1>5. OneTerminator' /\ Roles'
  BY <1>1 DEF DetectionParts, OneTerminator, Roles, Complete, amTerminator
<1> QED
  BY <1>3, <1>4, <1>5 DEF DetectionParts

\* Taking a message out of channel c moves the tokens behind it one place forward.
LEMMA TakenTokens ==
  ASSUME NEW c \in Channel, Shorter(chan, chan', c),
         NEW e \in Channel, NEW k \in Nat, NEW S, IsToken(e, k, S)'
  PROVE  LET l == IF e = c THEN k + 1 ELSE k IN IsToken(e, l, S) /\ chan'[e][k] = chan[e][l]
<1> DEFINE l == IF e = c THEN k + 1 ELSE k
<1>1. k \in 1 .. Len(chan'[e])
  BY DEF IsToken
<1>2. l \in 1 .. Len(chan[e]) /\ chan'[e][k] = chan[e][l]
  BY <1>1, ShorterPositions
<1> QED
  BY <1>2 DEF IsToken

\* So if it is an event, or a token that is no longer of use.
LEMMA OtherTaken ==
  ASSUME DetectionParts, NEW c \in Channel, Shorter(chan, chan', c), ~Control(c, 1),
         UNCHANGED <<terminatorStatus, completeFlag>>
  PROVE  DetectionParts'
<1> DEFINE at(e, k) == IF e = c THEN k + 1 ELSE k
<1>1. ASSUME NEW e \in Channel, NEW k \in Nat, NEW S, IsToken(e, k, S)'
      PROVE  IsToken(e, at(e, k), S) /\ chan'[e][k] = chan[e][at(e, k)]
  BY <1>1, TakenTokens
<1>2. ASSUME NEW e \in Channel, NEW l \in Nat, Control(e, l)
      PROVE  \E k \in Nat : Control(e, k)'
  <2>1. l \in 1 .. Len(chan[e]) /\ ~(e = c /\ l = 1)
    BY <1>2 DEF Control, IsToken
  <2>2. PICK k \in 1 .. Len(chan'[e]) : chan'[e][k] = chan[e][l]
    BY <2>1, ShorterPositions
  <2>3. Control(e, k)'
    BY <1>2, <2>2 DEF Control, IsToken
  <2> QED
    BY <2>2, <2>3
<1>3. \A e \in Channel : \A k, l \in Nat : at(e, k) \in Nat /\ (at(e, k) = at(e, l) => k = l)
  OBVIOUS
<1> HIDE DEF at
<1>4. OneToken'
  BY <1>1, <1>3, SMTT(60) DEF DetectionParts, OneToken, Control, IdleTerminators
<1>5. RightKept'
  <2>1. Complete' <=> Complete
    BY DEF Complete
  <2>2. IdleTerminators' = IdleTerminators
    BY DEF IdleTerminators
  <2>3. \A e \in Channel : \A k \in Nat : Control(e, k)' => Control(e, at(e, k))
    BY <1>1 DEF Control
  <2> QED
    BY <1>2, <1>3, <2>1, <2>2, <2>3, SMTT(60) DEF DetectionParts, RightKept
<1>6. OneTerminator' /\ Roles'
  BY <1>1, <1>3, SMTT(60) DEF DetectionParts, OneTerminator, Roles, Complete, amTerminator
<1> QED
  BY <1>4, <1>5, <1>6 DEF DetectionParts

\* The channels ch hold no token of the detection except, in the second case,
\* the message m at the end of channel d.
Harmless(m) ==
    m.type = "token" => m.state \notin ControlStates /\ (m.state = "SIMULATION_COMPLETE" => Complete)

NoControl(ch) == \A e \in Channel : \A k \in 1 .. Len(ch[e]) : Harmless(ch[e][k])

OnlyLast(ch, d, m) ==
    /\ Len(ch[d]) \in 1 .. Len(ch[d]) /\ ch[d][Len(ch[d])] = m
    /\ \A e \in Channel : \A k \in 1 .. Len(ch[e]) :
          (e = d /\ k = Len(ch[d])) \/ Harmless(ch[e][k])

LEMMA NoneBefore ==
  ASSUME Roles, \A e \in Channel : \A k \in Nat : ~Control(e, k)
  PROVE  NoControl(chan)
<1> SUFFICES ASSUME NEW e \in Channel, NEW k \in 1 .. Len(chan[e])
             PROVE  Harmless(chan[e][k])
  BY DEF NoControl
<1>1. k \in Nat
  OBVIOUS
<1> QED
  BY <1>1 DEF Harmless, Control, IsToken, Roles

\* After the only token of the detection has been taken there is none.
LEMMA TokenTaken ==
  ASSUME Roles, NEW c \in Channel, NEW ch, Shorter(chan, ch, c),
         \A e \in Channel : \A k \in Nat : Control(e, k) => e = c /\ k = 1
  PROVE  NoControl(ch)
<1> SUFFICES ASSUME NEW e \in Channel, NEW k \in 1 .. Len(ch[e])
             PROVE  Harmless(ch[e][k])
  BY DEF NoControl
<1>1. PICK l \in 1 .. Len(chan[e]) : ch[e][k] = chan[e][l] /\ l = IF e = c THEN k + 1 ELSE k
  BY ShorterPositions
<1>2. l \in Nat /\ ~(e = c /\ l = 1)
  BY <1>1
<1>3. ~Control(e, l)
  BY <1>2
<1> QED
  BY <1>1, <1>2, <1>3 DEF Control, IsToken, Roles, Harmless

\* ... and if m is sent then, only m can be one.
LEMMA TokenSent ==
  ASSUME NEW d \in Channel, NEW m \in Message, NEW ch, NEW new, Longer(ch, new, d, m), NoControl(ch)
  PROVE  OnlyLast(new, d, m)
<1>1. Len(new[d]) \in 1 .. Len(new[d]) /\ new[d][Len(new[d])] = m
  BY DEF Longer
<1>2. ASSUME NEW e \in Channel, NEW k \in 1 .. Len(new[e]), ~(e = d /\ k = Len(new[d]))
      PROVE  Harmless(new[e][k])
  <2>1. k \in 1 .. Len(ch[e]) /\ new[e][k] = ch[e][k]
    BY <1>2 DEF Longer
  <2> QED
    BY <2>1 DEF NoControl
<1> QED
  BY <1>1, <1>2 DEF OnlyLast

\* What the tokens can be in the next state, once the old one is gone.
LEMMA NoControlNext ==
  ASSUME NoControl(chan'), Complete => Complete'
  PROVE  \A e \in Channel : \A k \in Nat :
            /\ ~Control(e, k)'
            /\ \A S \in SUBSET ControlStates : ~IsToken(e, k, S)'
            /\ IsToken(e, k, {"SIMULATION_COMPLETE"})' => Complete'
BY DEF NoControl, Harmless, Control, IsToken

LEMMA OnlyLastNext ==
  ASSUME NEW d \in Channel, NEW m \in Message, m.type = "token", OnlyLast(chan', d, m), Complete => Complete'
  PROVE  \E last \in Nat :
         /\ chan'[d][last] = m
         /\ \A S : IsToken(d, last, S)' <=> m.state \in S
         /\ \A e \in Channel : \A k \in Nat :
               \/ e = d /\ k = last
               \/ /\ ~Control(e, k)'
                  /\ \A S \in SUBSET ControlStates : ~IsToken(e, k, S)'
                  /\ IsToken(e, k, {"SIMULATION_COMPLETE"})' => Complete'
<1>0. PICK last : last = Len(chan'[d])
  OBVIOUS
<1>1. last \in 1 .. Len(chan'[d]) /\ chan'[d][last] = m
  BY <1>0 DEF OnlyLast
<1>2. last \in Nat
  BY <1>1
<1>3. ASSUME NEW S PROVE IsToken(d, last, S)' <=> m.state \in S
  BY <1>1 DEF IsToken
<1>4. ASSUME NEW e \in Channel, NEW k \in Nat, ~(e = d /\ k = last)
      PROVE  /\ ~Control(e, k)'
             /\ \A S \in SUBSET ControlStates : ~IsToken(e, k, S)'
             /\ IsToken(e, k, {"SIMULATION_COMPLETE"})' => Complete'
  <2>1. k \in 1 .. Len(chan'[e]) => Harmless(chan'[e][k])
    BY <1>0, <1>4 DEF OnlyLast
  <2> QED
    BY <2>1 DEF Harmless, Control, IsToken
<1> QED
  BY <1>1, <1>2, <1>3, <1>4

-----------------------------------------------------------------------------
(* The parts of the invariant after a step *)

\* The right to run a detection is with terminator i, which is idle.
LEMMA RightWithTerminator ==
  ASSUME NoControl(chan'), UNCHANGED completeFlag, ~Complete, NEW i \in SM,
         terminatorStatus'[i] = "TERMINATOR_IDLE",
         \A j \in SM \ {i} : terminatorStatus'[j] = "SLAVE"
  PROVE  DetectionParts'
<1>1. ~Complete' /\ (Complete => Complete')
  BY DEF Complete
<1>2. OneToken'
  BY <1>1, NoControlNext DEF OneToken
<1>3. RightKept'
  BY <1>1 DEF RightKept, IdleTerminators
<1>4. OneTerminator'
  BY DEF OneTerminator, amTerminator
<1>5. Roles'
  BY <1>1, NoControlNext DEF Roles, ControlStates
<1> QED
  BY <1>2, <1>3, <1>4, <1>5 DEF DetectionParts

\* It is in the token m at the end of channel d.
LEMMA RightInToken ==
  ASSUME NEW d \in Channel, NEW m \in Message, m.type = "token", m.state \in ControlStates,
         OnlyLast(chan', d, m), UNCHANGED completeFlag, ~Complete,
         \A i \in SM : terminatorStatus'[i] # "TERMINATOR_IDLE",
         OneTerminator',
         m.state \in {"FIRST_CYCLE", "SECOND_CYCLE"} => amTerminator(m.terminator)',
         m.state = "CANCEL_CYCLE" => amTerminator(d[2])',
         m.state = "BECOME_TERMINATOR" => \A i \in SM : ~amTerminator(i)'
  PROVE  DetectionParts'
<1>1. ~Complete' /\ (Complete => Complete')
  BY DEF Complete
<1>2. PICK last \in Nat :
      /\ chan'[d][last] = m
      /\ \A S : IsToken(d, last, S)' <=> m.state \in S
      /\ \A e \in Channel : \A k \in Nat :
            \/ e = d /\ k = last
            \/ /\ ~Control(e, k)'
               /\ \A S \in SUBSET ControlStates : ~IsToken(e, k, S)'
               /\ IsToken(e, k, {"SIMULATION_COMPLETE"})' => Complete'
  BY <1>1, OnlyLastNext
<1>3. Control(d, last)'
  <2>1. IsToken(d, last, ControlStates)'
    BY <1>2
  <2> QED
    BY <2>1 DEF Control
<1>4. OneToken'
  BY <1>2 DEF OneToken, IdleTerminators
<1>5. RightKept'
  BY <1>1, <1>2, <1>3 DEF RightKept
<1>6. Roles'
  <2> SUFFICES ASSUME NEW e \in Channel, NEW k \in Nat
               PROVE  /\ IsToken(e, k, {"FIRST_CYCLE", "SECOND_CYCLE"})' => amTerminator(chan[e][k].terminator)'
                      /\ IsToken(e, k, {"CANCEL_CYCLE"})' => amTerminator(e[2])'
                      /\ IsToken(e, k, {"BECOME_TERMINATOR"})' => \A i \in SM : ~amTerminator(i)'
                      /\ IsToken(e, k, {"SIMULATION_COMPLETE"})' => Complete'
    BY DEF Roles
  <2>1. CASE e = d /\ k = last
    BY <1>2, <2>1 DEF ControlStates, amTerminator
  <2>2. CASE ~(e = d /\ k = last)
    BY <1>2, <2>2 DEF ControlStates
  <2> QED
    BY <2>1, <2>2
<1> QED
  BY <1>4, <1>5, <1>6 DEF DetectionParts

\* The simulation is complete: the right to run a detection is gone.
LEMMA RightGone ==
  ASSUME NEW d \in Channel, NEW m \in Message, m.type = "token", m.state = "SIMULATION_COMPLETE",
         OnlyLast(chan', d, m), Complete',
         \A i \in SM : terminatorStatus'[i] # "TERMINATOR_IDLE", OneTerminator'
  PROVE  DetectionParts'
<1>2. PICK last \in Nat :
      /\ chan'[d][last] = m
      /\ \A S : IsToken(d, last, S)' <=> m.state \in S
      /\ \A e \in Channel : \A k \in Nat :
            \/ e = d /\ k = last
            \/ /\ ~Control(e, k)'
               /\ \A S \in SUBSET ControlStates : ~IsToken(e, k, S)'
               /\ IsToken(e, k, {"SIMULATION_COMPLETE"})' => Complete'
  BY OnlyLastNext
<1>3. \A e \in Channel : \A k \in Nat :
         /\ ~Control(e, k)'
         /\ \A S \in SUBSET ControlStates : ~IsToken(e, k, S)'
  BY <1>2 DEF Control, ControlStates
<1>4. OneToken'
  BY <1>3 DEF OneToken
<1>5. RightKept'
  BY <1>3 DEF RightKept, IdleTerminators
<1>6. Roles'
  BY <1>3 DEF Roles, ControlStates
<1> QED
  BY <1>4, <1>5, <1>6 DEF DetectionParts

-----------------------------------------------------------------------------
(* The main loop *)

LEMMA DetectionInitial == Init => DetectionInv
<1> SUFFICES ASSUME Init PROVE DetectionInv
  OBVIOUS
<1>1. 0 \in SM /\ SM \subseteq Nat
  BY NAssumption DEF SM
<1>2. TypeOK
  <2>1. work \in [SM -> Nat]
    BY DEF Init
  <2>2. status \in [SM -> {"IDLE", "ACTIVE"}]
    BY StatusAssumption DEF Init
  <2>3. chan \in [SM \X SM -> Seq(Message)]
    BY DEF Init
  <2> QED
    BY <2>1, <2>2, <2>3, BoundAssumption DEF Init, TypeOK
<1>3. \A c \in Channel : \A k \in Nat : \A S : ~IsToken(c, k, S)
  BY DEF Init, IsToken, Channel
<1>4. ~Complete
  BY DEF Init, Complete
<1>5. OneToken /\ Roles
  BY <1>3 DEF OneToken, Roles, Control
<1>6. RightKept
  BY <1>1, <1>4 DEF Init, RightKept, IdleTerminators
<1>7. OneTerminator
  BY DEF Init, OneTerminator, amTerminator
<1> QED
  BY <1>2, <1>5, <1>6, <1>7 DEF DetectionInv

LEMMA PartsSame ==
  ASSUME DetectionParts, UNCHANGED <<terminatorStatus, completeFlag, chan>>
  PROVE  DetectionParts'
<1>1. OneToken'
  BY DEF DetectionParts, OneToken, Control, IsToken, IdleTerminators
<1>2. RightKept'
  BY DEF DetectionParts, RightKept, Control, IsToken, IdleTerminators, Complete
<1>3. OneTerminator' /\ Roles'
  BY DEF DetectionParts, OneTerminator, Roles, IsToken, Complete, amTerminator
<1> QED
  BY <1>1, <1>2, <1>3 DEF DetectionParts

\* While a terminator is idle it is the only one and nothing else travels.
LEMMA IdleTerminatorAlone ==
  ASSUME TypeOK, DetectionParts, NEW i \in SM, terminatorStatus[i] = "TERMINATOR_IDLE"
  PROVE  /\ ~Complete
         /\ \A c \in Channel : \A k \in Nat : ~Control(c, k)
         /\ \A j \in SM \ {i} : terminatorStatus[j] = "SLAVE"
BY DEF DetectionParts, OneToken, RightKept, OneTerminator, IdleTerminators, amTerminator, TypeOK

\* While a token of the detection travels it is the only one and no terminator
\* is idle.
LEMMA TokenAlone ==
  ASSUME TypeOK, DetectionParts, NEW c \in Channel, NEW l \in Nat, Control(c, l)
  PROVE  /\ ~Complete
         /\ \A e \in Channel : \A k \in Nat : Control(e, k) => e = c /\ k = l
         /\ \A j \in SM : terminatorStatus[j] # "TERMINATOR_IDLE"
BY DEF DetectionParts, OneToken, RightKept, IdleTerminators

LEMMA LoopHeadStep ==
  ASSUME DetectionInv, NEW i \in SM, LoopHead(i)
  PROVE  DetectionInv'
<1> USE DEF DetectionInv
<1>0. DetectionParts
  BY DEF DetectionParts
<1>1. CASE UNCHANGED <<terminatorStatus, chan>>
  <2>1. TypeOK'
    BY <1>1 DEF TypeOK, LoopHead
  <2>2. DetectionParts'
    BY <1>0, <1>1, PartsSame DEF LoopHead
  <2> QED
    BY <2>1, <2>2 DEF DetectionParts
<1>2. CASE ~UNCHANGED <<terminatorStatus, chan>>
  <2> DEFINE d == <<i, Peer(i)>>
             m == NewToken(i)
  <2>1. /\ terminatorStatus[i] = "TERMINATOR_IDLE"
        /\ terminatorStatus' = [terminatorStatus EXCEPT ![i] = "TERMINATOR_PROCESSING"]
        /\ chan' = [chan EXCEPT ![d] = Append(@, m)]
        /\ pc' = [pc EXCEPT ![i] = "messages"]
        /\ UNCHANGED <<completeFlag, idleSinceLastToken, status, had, work, scheduled>>
    BY <1>2 DEF LoopHead, Send
  <2>2. d \in Channel /\ m \in Message /\ m.type = "token" /\ m.state = "FIRST_CYCLE" /\ m.terminator = i
    BY PeerType, TokenType DEF Channel, NewToken, ControlStates
  <2> HIDE DEF d, m
  <2>3. Longer(chan, chan', d, m)
    BY <2>1, <2>2, SendLonger DEF TypeOK, Channel
  <2>4. TypeOK'
    <3>1. chan' \in [SM \X SM -> Seq(Message)]
      BY <2>3 DEF Longer, Channel
    <3> QED
      BY <2>1, <3>1 DEF TypeOK
  <2>5. /\ ~Complete
        /\ \A c \in Channel : \A k \in Nat : ~Control(c, k)
        /\ \A j \in SM \ {i} : terminatorStatus[j] = "SLAVE"
    BY <1>0, <2>1, IdleTerminatorAlone
  <2>6. OnlyLast(chan', d, m)
    BY <2>2, <2>3, <2>5, NoneBefore, TokenSent
  <2>7. \A j \in SM : terminatorStatus'[j] = IF j = i THEN "TERMINATOR_PROCESSING" ELSE "SLAVE"
    BY <2>1, <2>5 DEF TypeOK
  <2>8. OneTerminator' /\ amTerminator(m.terminator)'
    BY <2>2, <2>7 DEF OneTerminator, amTerminator
  <2>9. /\ m.state \in ControlStates /\ m.state # "CANCEL_CYCLE" /\ m.state # "BECOME_TERMINATOR"
        /\ UNCHANGED completeFlag
        /\ \A j \in SM : terminatorStatus'[j] # "TERMINATOR_IDLE"
    BY <2>1, <2>2, <2>7 DEF ControlStates
  <2>10. DetectionParts'
    BY <2>2, <2>5, <2>6, <2>8, <2>9, RightInToken
  <2> QED
    BY <2>4, <2>10 DEF DetectionParts
<1> QED
  BY <1>1, <1>2

LEMMA StopPollingStep ==
  ASSUME DetectionInv, NEW i \in SM, StopPolling(i)
  PROVE  DetectionInv'
<1>1. TypeOK'
  BY DEF DetectionInv, TypeOK, StopPolling, termVars
<1>2. DetectionParts'
  BY PartsSame DEF DetectionInv, DetectionParts, StopPolling, termVars
<1> QED
  BY <1>1, <1>2 DEF DetectionInv, DetectionParts

LEMMA ExecuteEventStep ==
  ASSUME DetectionInv, NEW i \in SM, ExecuteEvent(i)
  PROVE  DetectionInv'
<1> USE DEF DetectionInv
<1>0. DetectionParts
  BY DEF DetectionParts
<1>1. CASE UNCHANGED chan
  <2>1. DetectionParts'
    BY <1>0, <1>1, PartsSame DEF ExecuteEvent, termVars
  <2>2. TypeOK'
    BY <1>1, BoundAssumption DEF TypeOK, ExecuteEvent, HasNextEvent, termVars
  <2> QED
    BY <2>1, <2>2 DEF DetectionParts
<1>2. CASE ~UNCHANGED chan
  <2>1. PICK j \in SM : chan' = [chan EXCEPT ![<<i, j>>] = Append(@, EventMsg)]
    BY <1>2 DEF ExecuteEvent, Send
  <2>2. Longer(chan, chan', <<i, j>>, EventMsg)
    BY <2>1, EventType, SendLonger DEF TypeOK, Channel
  <2>3. DetectionParts'
    BY <1>0, <2>2, EventSent DEF ExecuteEvent, termVars, Channel
  <2>4. chan' \in [SM \X SM -> Seq(Message)]
    BY <2>2 DEF Longer, Channel
  <2>5. /\ work' = [work EXCEPT ![i] = @ - 1] /\ work[i] > 0
        /\ scheduled < MaxEvents /\ scheduled' = scheduled + 1
        /\ pc' = [pc EXCEPT ![i] = "inner"]
    BY <1>2 DEF ExecuteEvent, HasNextEvent
  <2>6. work' \in [SM -> Nat] /\ scheduled' \in 0 .. MaxEvents
    BY <2>5, BoundAssumption DEF TypeOK
  <2>7. pc' \in [SM -> {"head", "messages", "execute", "inner", "done"}]
    BY <2>5 DEF TypeOK
  <2>8. TypeOK'
    BY <2>4, <2>6, <2>7 DEF TypeOK, ExecuteEvent, termVars
  <2> QED
    BY <2>3, <2>8 DEF DetectionParts
<1> QED
  BY <1>1, <1>2

LEMMA ExecuteObjectsReturnsStep ==
  ASSUME DetectionInv, NEW i \in SM, ExecuteObjectsReturns(i)
  PROVE  DetectionInv'
<1>1. TypeOK'
  BY DEF DetectionInv, TypeOK, ExecuteObjectsReturns
<1>2. DetectionParts'
  BY PartsSame DEF DetectionInv, DetectionParts, ExecuteObjectsReturns
<1> QED
  BY <1>1, <1>2 DEF DetectionInv, DetectionParts

-----------------------------------------------------------------------------
(* The message handlers *)

\* What a manager finds when it reads channel <<j, i>>.
LEMMA Reading ==
  ASSUME TypeOK, NEW i \in SM, NEW j \in SM, CanRead(i, j)
  PROVE  /\ <<j, i>> \in Channel
         /\ Shorter(chan, [chan EXCEPT ![<<j, i>>] = Tail(@)], <<j, i>>)
         /\ [chan EXCEPT ![<<j, i>>] = Tail(@)] \in [Channel -> Seq(Message)]
         /\ Head(chan[<<j, i>>]) \in Message /\ Head(chan[<<j, i>>]) = chan[<<j, i>>][1]
         /\ 1 \in 1 .. Len(chan[<<j, i>>])
<1>1. <<j, i>> \in Channel /\ chan[<<j, i>>] # <<>> /\ chan \in [Channel -> Seq(Message)]
  BY DEF CanRead, TypeOK, Channel
<1>2. /\ Shorter(chan, [chan EXCEPT ![<<j, i>>] = Tail(@)], <<j, i>>)
      /\ Head(chan[<<j, i>>]) = chan[<<j, i>>][1] /\ Head(chan[<<j, i>>]) \in Message
      /\ 1 \in 1 .. Len(chan[<<j, i>>])
  BY <1>1, TakeShorter
<1> QED
  BY <1>1, <1>2 DEF Shorter

LEMMA ReceiveEventStep ==
  ASSUME DetectionInv, NEW i \in SM, NEW j \in SM, ReceiveEvent(i, j)
  PROVE  DetectionInv'
<1>1. TypeOK /\ DetectionParts
  BY DEF DetectionInv, DetectionParts
<1>2. /\ Shorter(chan, chan', <<j, i>>) /\ <<j, i>> \in Channel /\ chan' \in [Channel -> Seq(Message)]
      /\ chan[<<j, i>>][1].type = "event"
  BY <1>1, Reading DEF ReceiveEvent
<1>3. ~Control(<<j, i>>, 1)
  BY <1>2 DEF Control, IsToken
<1>4. DetectionParts'
  BY <1>1, <1>2, <1>3, OtherTaken DEF ReceiveEvent
<1>5. TypeOK'
  BY <1>1, <1>2 DEF TypeOK, ReceiveEvent, loopVars, Channel
<1> QED
  BY <1>4, <1>5 DEF DetectionInv, DetectionParts

\* The types after a handler, given those of the variables it decides about.
LEMMA HandledType ==
  ASSUME TypeOK, NEW i \in SM, TokenHandled(i),
         terminatorStatus' \in [SM -> {"SLAVE", "TERMINATOR_IDLE", "TERMINATOR_PROCESSING"}],
         completeFlag' \in [SM -> BOOLEAN],
         chan' \in [Channel -> Seq(Message)]
  PROVE  TypeOK'
BY DEF TypeOK, TokenHandled, loopVars, Channel

\* A token of the detection at the head of channel <<j, i>>: it is the only one,
\* and without it there is none.
LEMMA ControlRead ==
  ASSUME DetectionInv, NEW i \in SM, NEW j \in SM, NEW S \in SUBSET ControlStates, TokenAt(i, j, S)
  PROVE  /\ ~Complete
         /\ NoControl([chan EXCEPT ![<<j, i>>] = Tail(@)])
         /\ \A k \in SM : terminatorStatus[k] # "TERMINATOR_IDLE"
         /\ IsToken(<<j, i>>, 1, S)
         /\ Head(chan[<<j, i>>]).from \in SM /\ Head(chan[<<j, i>>]).terminator \in SM
<1>1. TypeOK /\ DetectionParts /\ CanRead(i, j)
  BY DEF DetectionInv, DetectionParts, TokenAt
<1>2. IsToken(<<j, i>>, 1, S) /\ Head(chan[<<j, i>>]) \in Message /\ Head(chan[<<j, i>>]).type = "token"
  BY <1>1, Reading DEF TokenAt, IsToken
<1>3. Control(<<j, i>>, 1) /\ <<j, i>> \in Channel
  BY <1>1, <1>2, Reading DEF Control, IsToken
<1>4. /\ ~Complete
      /\ \A e \in Channel : \A k \in Nat : Control(e, k) => e = <<j, i>> /\ k = 1
      /\ \A k \in SM : terminatorStatus[k] # "TERMINATOR_IDLE"
  BY <1>1, <1>3, TokenAlone
<1>5. Shorter(chan, [chan EXCEPT ![<<j, i>>] = Tail(@)], <<j, i>>)
  BY <1>1, Reading
<1>6. NoControl([chan EXCEPT ![<<j, i>>] = Tail(@)])
  BY <1>1, <1>3, <1>4, <1>5, TokenTaken DEF DetectionParts
<1> QED
  BY <1>2, <1>4, <1>6, TokenFields

\* A control token m goes out on channel d in place of the one that was read.
LEMMA TokenReplaced ==
  ASSUME DetectionInv, NEW i \in SM, NEW j \in SM, NEW S \in SUBSET ControlStates, TokenAt(i, j, S),
         NEW d \in Channel, NEW m \in Message,
         chan' = [[chan EXCEPT ![<<j, i>>] = Tail(@)] EXCEPT ![d] = Append(@, m)]
  PROVE  OnlyLast(chan', d, m) /\ chan' \in [Channel -> Seq(Message)]
<1>1. PICK ch : ch = [chan EXCEPT ![<<j, i>>] = Tail(@)]
  OBVIOUS
<1>2. NoControl(ch)
  BY <1>1, ControlRead
<1>3. ch \in [Channel -> Seq(Message)]
  BY <1>1, Reading DEF DetectionInv, TokenAt
<1>4. Longer(ch, chan', d, m)
  BY <1>1, <1>3, SendLonger
<1> QED
  BY ONLY <1>2, <1>4, TokenSent DEF Longer

LEMMA TerminatorGetsTokenStep ==
  ASSUME DetectionInv, NEW i \in SM, NEW j \in SM, TerminatorGetsToken(i, j)
  PROVE  DetectionInv'
<1> DEFINE S  == {"FIRST_CYCLE", "SECOND_CYCLE"}
           ch == [chan EXCEPT ![<<j, i>>] = Tail(@)]
           d  == <<i, Peer(i)>>
<1>1. TypeOK /\ DetectionParts /\ S \in SUBSET ControlStates /\ TokenAt(i, j, S) /\ amTerminator(i)
  BY DEF DetectionInv, DetectionParts, TerminatorGetsToken, ControlStates
<1>2. ~Complete /\ NoControl(ch) /\ \A k \in SM : terminatorStatus[k] # "TERMINATOR_IDLE"
  BY <1>1, ControlRead
<1>3. ch \in [Channel -> Seq(Message)]
  BY <1>1, Reading DEF TokenAt
<1>4. \A k \in SM \ {i} : terminatorStatus[k] = "SLAVE"
  BY <1>1 DEF DetectionParts, OneTerminator, amTerminator
<1>5. d \in Channel
  BY PeerType DEF Channel
<1>6. TokenHandled(i)
  BY DEF TerminatorGetsToken
<1>7. CASE CancelCycle(i, ch)
  <2>1. /\ chan' = ch
        /\ terminatorStatus' = [terminatorStatus EXCEPT ![i] = "TERMINATOR_IDLE"]
        /\ UNCHANGED completeFlag
    BY <1>7 DEF CancelCycle
  <2>2. NoControl(chan') /\ chan' \in [Channel -> Seq(Message)]
    BY <1>2, <1>3, <2>1
  <2> HIDE DEF ch
  <2>3. /\ terminatorStatus'[i] = "TERMINATOR_IDLE"
        /\ \A k \in SM \ {i} : terminatorStatus'[k] = "SLAVE"
        /\ terminatorStatus' \in [SM -> {"SLAVE", "TERMINATOR_IDLE", "TERMINATOR_PROCESSING"}]
    BY <1>1, <1>4, <2>1 DEF TypeOK
  <2>4. DetectionParts'
    BY <1>2, <2>1, <2>2, <2>3, RightWithTerminator
  <2>5. TypeOK'
    BY <1>1, <1>6, <2>1, <2>2, <2>3, HandledType DEF TypeOK
  <2> QED
    BY <2>4, <2>5 DEF DetectionInv, DetectionParts
<1>8. CASE /\ chan' = Send(ch, i, Peer(i), Token(i, i, "SECOND_CYCLE"))
           /\ UNCHANGED <<terminatorStatus, completeFlag>>
  <2> DEFINE m == Token(i, i, "SECOND_CYCLE")
  <2>1. m \in Message /\ m.type = "token" /\ m.state = "SECOND_CYCLE" /\ m.terminator = i
    BY TokenType DEF ControlStates
  <2>2. chan' = [ch EXCEPT ![d] = Append(@, m)]
    BY <1>8 DEF Send
  <2>3. OnlyLast(chan', d, m) /\ chan' \in [Channel -> Seq(Message)]
    BY <1>1, <1>5, <2>1, <2>2, TokenReplaced
  <2> HIDE DEF ch, m, d
  <2>4. OneTerminator' /\ amTerminator(i)'
    BY <1>1, <1>8 DEF DetectionParts, OneTerminator, amTerminator
  <2>5. /\ m.state \in ControlStates /\ m.state # "CANCEL_CYCLE" /\ m.state # "BECOME_TERMINATOR"
        /\ amTerminator(m.terminator)'
        /\ UNCHANGED completeFlag
        /\ \A k \in SM : terminatorStatus'[k] # "TERMINATOR_IDLE"
    BY <1>2, <1>8, <2>1, <2>4 DEF ControlStates, amTerminator
  <2>6. DetectionParts'
    BY <1>2, <1>5, <2>1, <2>3, <2>4, <2>5, RightInToken
  <2>7. TypeOK'
    BY <1>1, <1>6, <1>8, <2>3, HandledType DEF TypeOK
  <2> QED
    BY <2>6, <2>7 DEF DetectionInv, DetectionParts
<1>9. CASE DeclareComplete(i, ch)
  <2> DEFINE m == Token(i, i, "SIMULATION_COMPLETE")
  <2>1. m \in Message /\ m.type = "token" /\ m.state = "SIMULATION_COMPLETE"
    BY TokenType
  <2>2. /\ chan' = [ch EXCEPT ![d] = Append(@, m)]
        /\ UNCHANGED terminatorStatus
        /\ completeFlag' = [completeFlag EXCEPT ![i] = TRUE]
    BY <1>9 DEF DeclareComplete, Send
  <2>3. OnlyLast(chan', d, m) /\ chan' \in [Channel -> Seq(Message)]
    BY <1>1, <1>5, <2>1, <2>2, TokenReplaced
  <2> HIDE DEF ch, m, d
  <2>4. OneTerminator' /\ \A k \in SM : terminatorStatus'[k] # "TERMINATOR_IDLE"
    BY <1>1, <1>2, <2>2 DEF DetectionParts, OneTerminator, amTerminator
  <2>5. Complete' /\ completeFlag' \in [SM -> BOOLEAN]
    BY <1>1, <2>2 DEF Complete, TypeOK
  <2>6. DetectionParts'
    BY <1>5, <2>1, <2>3, <2>4, <2>5, RightGone
  <2>7. TypeOK'
    BY <1>1, <1>6, <2>2, <2>3, <2>5, HandledType DEF TypeOK
  <2> QED
    BY <2>6, <2>7 DEF DetectionInv, DetectionParts
<1> QED
  BY <1>7, <1>8, <1>9 DEF TerminatorGetsToken

LEMMA SlaveGetsTokenStep ==
  ASSUME DetectionInv, NEW i \in SM, NEW j \in SM, SlaveGetsToken(i, j)
  PROVE  DetectionInv'
<1> DEFINE S  == {"FIRST_CYCLE", "SECOND_CYCLE"}
           ch == [chan EXCEPT ![<<j, i>>] = Tail(@)]
           h  == Head(chan[<<j, i>>])
<1>1. TypeOK /\ DetectionParts /\ S \in SUBSET ControlStates /\ TokenAt(i, j, S)
  BY DEF DetectionInv, DetectionParts, SlaveGetsToken, ControlStates
<1>2. /\ ~Complete /\ \A k \in SM : terminatorStatus[k] # "TERMINATOR_IDLE"
      /\ IsToken(<<j, i>>, 1, S) /\ h.terminator \in SM
  BY <1>1, ControlRead
<1>3. <<j, i>> \in Channel /\ h = chan[<<j, i>>][1] /\ h.state \in S
  BY <1>1, Reading DEF TokenAt
<1>4. amTerminator(h.terminator)
  BY <1>1, <1>2, <1>3 DEF DetectionParts, Roles
<1>5. TokenHandled(i) /\ UNCHANGED <<terminatorStatus, completeFlag>>
  BY DEF SlaveGetsToken
<1>6. PICK d \in Channel, m \in Message :
         /\ chan' = [ch EXCEPT ![d] = Append(@, m)]
         /\ m.type = "token"
         /\ \/ m.state \in S /\ m.terminator = h.terminator
            \/ m.state = "CANCEL_CYCLE" /\ d[2] = h.terminator
  <2>1. CASE chan' = Send(ch, i, Peer(i), Token(i, h.terminator, h.state))
    <3>1. h.state \in ControlStates \cup {"SIMULATION_COMPLETE"}
      BY <1>1, <1>3
    <3>2. <<i, Peer(i)>> \in Channel
      BY PeerType DEF Channel
    <3>3. /\ Token(i, h.terminator, h.state) \in Message
          /\ Token(i, h.terminator, h.state).type = "token"
          /\ Token(i, h.terminator, h.state).state = h.state
          /\ Token(i, h.terminator, h.state).terminator = h.terminator
      BY <1>2, <3>1, TokenType
    <3>4. chan' = [ch EXCEPT ![<<i, Peer(i)>>] = Append(@, Token(i, h.terminator, h.state))]
      BY <2>1 DEF Send
    <3> HIDE DEF ch, h
    <3> QED
      BY <1>3, <3>2, <3>3, <3>4
  <2>2. CASE chan' = Send(ch, i, h.terminator, Token(i, h.terminator, "CANCEL_CYCLE"))
    <3>1. <<i, h.terminator>> \in Channel /\ <<i, h.terminator>>[2] = h.terminator
      BY <1>2 DEF Channel
    <3>2. /\ Token(i, h.terminator, "CANCEL_CYCLE") \in Message
          /\ Token(i, h.terminator, "CANCEL_CYCLE").type = "token"
          /\ Token(i, h.terminator, "CANCEL_CYCLE").state = "CANCEL_CYCLE"
      BY <1>2, TokenType DEF ControlStates
    <3>3. chan' = [ch EXCEPT ![<<i, h.terminator>>] = Append(@, Token(i, h.terminator, "CANCEL_CYCLE"))]
      BY <2>2 DEF Send
    <3> HIDE DEF ch, h
    <3> QED
      BY <3>1, <3>2, <3>3
  <2> QED
    BY <2>1, <2>2 DEF SlaveGetsToken
<1>7. OnlyLast(chan', d, m) /\ chan' \in [Channel -> Seq(Message)]
  BY <1>1, <1>6, TokenReplaced
<1>8. PICK t \in SM : t = h.terminator
  BY <1>2
<1>9. OneTerminator' /\ amTerminator(t)' /\ \A k \in SM : terminatorStatus'[k] # "TERMINATOR_IDLE"
  BY <1>1, <1>2, <1>4, <1>5, <1>8 DEF DetectionParts, OneTerminator, amTerminator
<1>10. /\ m.state \in ControlStates /\ m.state # "BECOME_TERMINATOR"
       /\ m.state \in S => m.terminator = t
       /\ m.state = "CANCEL_CYCLE" => d[2] = t
  BY <1>6, <1>8 DEF ControlStates
<1> HIDE DEF ch, h
<1>11. DetectionParts'
  <2>1. m.state \in S => amTerminator(m.terminator)'
    BY <1>9, <1>10 DEF amTerminator
  <2>2. m.state = "CANCEL_CYCLE" => amTerminator(d[2])'
    BY <1>9, <1>10 DEF amTerminator
  <2> QED
    BY <1>2, <1>5, <1>6, <1>7, <1>9, <1>10, <2>1, <2>2, RightInToken
<1>12. TypeOK'
  BY <1>1, <1>5, <1>7, HandledType DEF TypeOK
<1> QED
  BY <1>11, <1>12 DEF DetectionInv, DetectionParts

LEMMA RetireTerminatorStep ==
  ASSUME DetectionInv, NEW i \in SM, NEW j \in SM, RetireTerminator(i, j)
  PROVE  DetectionInv'
<1> DEFINE S  == {"CANCEL_CYCLE"}
           ch == [chan EXCEPT ![<<j, i>>] = Tail(@)]
           h  == Head(chan[<<j, i>>])
<1>1. TypeOK /\ DetectionParts /\ S \in SUBSET ControlStates /\ TokenAt(i, j, S) /\ amTerminator(i)
  BY DEF DetectionInv, DetectionParts, RetireTerminator, ControlStates
<1>2. ~Complete /\ h.from \in SM
  BY <1>1, ControlRead
<1>3. PICK f \in SM : f = h.from
  BY <1>2
<1> DEFINE d == <<i, f>>
           m == Token(i, f, "BECOME_TERMINATOR")
<1>4. d \in Channel /\ m \in Message /\ m.type = "token" /\ m.state = "BECOME_TERMINATOR"
  BY <1>3, TokenType DEF Channel, ControlStates
<1>5. chan' = [ch EXCEPT ![d] = Append(@, m)]
  BY <1>3 DEF RetireTerminator, Send
<1>6. OnlyLast(chan', d, m) /\ chan' \in [Channel -> Seq(Message)]
  BY <1>1, <1>4, <1>5, TokenReplaced
<1>7. /\ TokenHandled(i) /\ UNCHANGED completeFlag
      /\ terminatorStatus' = [terminatorStatus EXCEPT ![i] = "SLAVE"]
  BY DEF RetireTerminator
<1> HIDE DEF ch, h, m, d
<1>8. /\ \A k \in SM : terminatorStatus'[k] = "SLAVE"
      /\ terminatorStatus' \in [SM -> {"SLAVE", "TERMINATOR_IDLE", "TERMINATOR_PROCESSING"}]
  BY <1>1, <1>7 DEF DetectionParts, OneTerminator, amTerminator, TypeOK
<1>9. /\ OneTerminator' /\ \A k \in SM : terminatorStatus'[k] # "TERMINATOR_IDLE"
      /\ \A k \in SM : ~amTerminator(k)'
  BY <1>8 DEF OneTerminator, amTerminator
<1>10. m.state \in ControlStates /\ m.state \notin {"FIRST_CYCLE", "SECOND_CYCLE"} /\ m.state # "CANCEL_CYCLE"
  BY <1>4 DEF ControlStates
<1>11. DetectionParts'
  BY <1>2, <1>4, <1>6, <1>7, <1>9, <1>10, RightInToken
<1>12. TypeOK'
  BY <1>1, <1>6, <1>7, <1>8, HandledType DEF TypeOK
<1> QED
  BY <1>11, <1>12 DEF DetectionInv, DetectionParts

LEMMA BecomeTerminatorStep ==
  ASSUME DetectionInv, NEW i \in SM, NEW j \in SM, BecomeTerminator(i, j)
  PROVE  DetectionInv'
<1> DEFINE S  == {"BECOME_TERMINATOR"}
           ch == [chan EXCEPT ![<<j, i>>] = Tail(@)]
<1>1. TypeOK /\ DetectionParts /\ S \in SUBSET ControlStates /\ TokenAt(i, j, S)
  BY DEF DetectionInv, DetectionParts, BecomeTerminator, ControlStates
<1>2. ~Complete /\ NoControl(ch) /\ IsToken(<<j, i>>, 1, S)
  BY <1>1, ControlRead
<1>3. ch \in [Channel -> Seq(Message)] /\ <<j, i>> \in Channel
  BY <1>1, Reading DEF TokenAt
<1>4. \A k \in SM : ~amTerminator(k)
  BY <1>1, <1>2, <1>3 DEF DetectionParts, Roles
<1>5. /\ TokenHandled(i) /\ UNCHANGED completeFlag /\ chan' = ch
      /\ terminatorStatus' = [terminatorStatus EXCEPT ![i] = "TERMINATOR_IDLE"]
  BY DEF BecomeTerminator
<1>6. NoControl(chan') /\ chan' \in [Channel -> Seq(Message)]
  BY <1>2, <1>3, <1>5
<1> HIDE DEF ch
<1>7. /\ terminatorStatus'[i] = "TERMINATOR_IDLE"
      /\ \A k \in SM \ {i} : terminatorStatus'[k] = "SLAVE"
      /\ terminatorStatus' \in [SM -> {"SLAVE", "TERMINATOR_IDLE", "TERMINATOR_PROCESSING"}]
  BY <1>1, <1>4, <1>5 DEF TypeOK, amTerminator
<1>8. DetectionParts'
  BY <1>2, <1>5, <1>6, <1>7, RightWithTerminator
<1>9. TypeOK'
  BY <1>1, <1>5, <1>6, <1>7, HandledType DEF TypeOK
<1> QED
  BY <1>8, <1>9 DEF DetectionInv, DetectionParts

LEMMA ReceiveCompleteStep ==
  ASSUME DetectionInv, NEW i \in SM, NEW j \in SM, ReceiveComplete(i, j)
  PROVE  DetectionInv'
<1> DEFINE c  == <<j, i>>
           ch == [chan EXCEPT ![<<j, i>>] = Tail(@)]
<1>1. TypeOK /\ DetectionParts /\ TokenAt(i, j, {"SIMULATION_COMPLETE"}) /\ CanRead(i, j)
  BY DEF DetectionInv, DetectionParts, ReceiveComplete, TokenAt
<1>2. /\ c \in Channel /\ Shorter(chan, ch, c) /\ ch \in [Channel -> Seq(Message)]
      /\ Head(chan[c]) = chan[c][1] /\ 1 \in 1 .. Len(chan[c])
  BY <1>1, Reading
<1>3. IsToken(c, 1, {"SIMULATION_COMPLETE"})
  BY <1>1, <1>2 DEF TokenAt, IsToken
<1>4. Complete
  BY <1>1, <1>2, <1>3 DEF DetectionParts, Roles
<1>5. (\A e \in Channel : \A k \in Nat : ~Control(e, k)) /\ IdleTerminators = {}
  BY <1>1, <1>4 DEF DetectionParts, RightKept
<1>6. TokenHandled(i)
  BY DEF ReceiveComplete
<1>7. CASE chan' = ch /\ UNCHANGED <<terminatorStatus, completeFlag>>
  <2>1. Shorter(chan, chan', c) /\ chan' \in [Channel -> Seq(Message)]
    BY <1>2, <1>7
  <2> HIDE DEF ch, c
  <2>2. DetectionParts'
    BY <1>1, <1>2, <1>5, <1>7, <2>1, OtherTaken
  <2>3. TypeOK'
    BY <1>1, <1>6, <1>7, <2>1, HandledType DEF TypeOK
  <2> QED
    BY <2>2, <2>3 DEF DetectionInv, DetectionParts
<1>8. CASE DeclareComplete(i, ch)
  <2> DEFINE m == Token(i, i, "SIMULATION_COMPLETE")
             d == <<i, Peer(i)>>
  <2>1. m \in Message /\ m.type = "token" /\ m.state = "SIMULATION_COMPLETE" /\ d \in Channel
    BY TokenType, PeerType DEF Channel
  <2>2. /\ chan' = [ch EXCEPT ![d] = Append(@, m)]
        /\ UNCHANGED terminatorStatus
        /\ completeFlag' = [completeFlag EXCEPT ![i] = TRUE]
    BY <1>8 DEF DeclareComplete, Send
  <2> HIDE DEF ch, m, d, c
  <2>3. NoControl(ch)
    BY <1>1, <1>2, <1>5, TokenTaken DEF DetectionParts
  <2>4. Longer(ch, chan', d, m)
    BY <1>2, <2>1, <2>2, SendLonger
  <2>5. OnlyLast(chan', d, m) /\ chan' \in [Channel -> Seq(Message)]
    BY <2>1, <2>3, <2>4, TokenSent DEF Longer
  <2>6. OneTerminator' /\ \A k \in SM : terminatorStatus'[k] # "TERMINATOR_IDLE"
    BY <1>1, <1>5, <2>2 DEF DetectionParts, OneTerminator, amTerminator, IdleTerminators
  <2>7. Complete' /\ completeFlag' \in [SM -> BOOLEAN]
    BY <1>1, <2>2 DEF Complete, TypeOK
  <2>8. DetectionParts'
    BY <2>1, <2>5, <2>6, <2>7, RightGone
  <2>9. TypeOK'
    BY <1>1, <1>6, <2>2, <2>5, <2>7, HandledType DEF TypeOK
  <2> QED
    BY <2>8, <2>9 DEF DetectionInv, DetectionParts
<1> QED
  BY <1>7, <1>8 DEF ReceiveComplete

-----------------------------------------------------------------------------
(* The theorems *)

LEMMA DetectionPreserved == DetectionInv /\ [Next]_vars => DetectionInv'
<1> SUFFICES ASSUME DetectionInv, [Next]_vars PROVE DetectionInv'
  OBVIOUS
<1>1. ASSUME NEW i \in SM, Loop(i) PROVE DetectionInv'
  BY <1>1, LoopHeadStep, StopPollingStep, ExecuteEventStep, ExecuteObjectsReturnsStep DEF Loop
<1>2. ASSUME NEW i \in SM, NEW j \in SM, Receive(i, j) PROVE DetectionInv'
  BY <1>2, ReceiveEventStep, TerminatorGetsTokenStep, SlaveGetsTokenStep, RetireTerminatorStep,
     BecomeTerminatorStep, ReceiveCompleteStep DEF Receive
<1>3. CASE UNCHANGED vars
  <2>1. TypeOK'
    BY <1>3 DEF DetectionInv, TypeOK, vars, termVars, loopVars
  <2>2. DetectionParts'
    BY <1>3, PartsSame DEF DetectionInv, DetectionParts, vars, termVars
  <2> QED
    BY <2>1, <2>2 DEF DetectionInv, DetectionParts
<1> QED
  BY <1>1, <1>2, <1>3 DEF Next

LEMMA DetectionInvariant == Spec => []DetectionInv
BY DetectionInitial, DetectionPreserved, PTL DEF Spec

\* The state of the termination manager and of the main loop keeps its types,
\* whatever the number of managers and the events their objects schedule.
THEOREM TypesKept == Spec => []TypeOK
<1>1. DetectionInv => TypeOK
  BY DEF DetectionInv
<1> QED
  BY <1>1, DetectionInvariant, PTL

LEMMA TokensCounted ==
  ASSUME DetectionInv
  PROVE  Cardinality(ControlTokens) + Cardinality(IdleTerminators) =
            IF \E i \in SM : completeFlag[i] THEN 0 ELSE 1
<1>1. TypeOK /\ DetectionParts
  BY DEF DetectionInv, DetectionParts
<1>2. \A x : x \in ControlTokens <=> \E c \in Channel : \E k \in Nat : Control(c, k) /\ x = <<c, k>>
  BY <1>1 DEF ControlTokens, Control, IsToken, Channel, TypeOK
<1>3. CASE Complete
  <2>1. ControlTokens = {} /\ IdleTerminators = {}
    BY <1>1, <1>2, <1>3 DEF DetectionParts, RightKept
  <2> QED
    BY <1>3, <2>1, FS_EmptySet DEF Complete
<1>4. CASE ~Complete /\ \E c \in Channel : \E k \in Nat : Control(c, k)
  <2>1. PICK c \in Channel, k \in Nat : Control(c, k)
    BY <1>4
  <2>2. /\ \A e \in Channel : \A l \in Nat : Control(e, l) => e = c /\ l = k
        /\ IdleTerminators = {}
    BY <1>1, <2>1, TokenAlone DEF IdleTerminators
  <2>3. ControlTokens = {<<c, k>>}
    BY <1>2, <2>1, <2>2
  <2>4. Cardinality(ControlTokens) = 1 /\ Cardinality(IdleTerminators) = 0
    BY <2>2, <2>3, FS_EmptySet, FS_Singleton
  <2> QED
    BY <1>4, <2>4 DEF Complete
<1>5. CASE ~Complete /\ \A c \in Channel : \A k \in Nat : ~Control(c, k)
  <2>1. PICK i \in SM : terminatorStatus[i] = "TERMINATOR_IDLE"
    BY <1>1, <1>5 DEF DetectionParts, RightKept, IdleTerminators
  <2>2. IdleTerminators = {i}
    BY <1>1, <2>1, IdleTerminatorAlone DEF IdleTerminators
  <2>3. ControlTokens = {}
    BY <1>2, <1>5
  <2>4. Cardinality(ControlTokens) = 0 /\ Cardinality(IdleTerminators) = 1
    BY <2>2, <2>3, FS_EmptySet, FS_Singleton
  <2> QED
    BY <1>5, <2>4 DEF Complete
<1> QED
  BY <1>3, <1>4, <1>5

\* Until the simulation is complete the right to run a detection is in exactly
\* one place, there is never a second terminator, and no token reaches a manager
\* whose role makes handleTerminateToken() abort or ignore it: for every number of
\* managers in the ring and every traffic of events between them.
THEOREM DetectionUnique == Spec => []OneDetection
<1>1. ASSUME DetectionInv PROVE OneDetection
  <2>1. TypeOK /\ DetectionParts
    BY <1>1 DEF DetectionInv, DetectionParts
  <2>2. \A i, j \in SM : amTerminator(i) /\ amTerminator(j) => i = j
    BY <2>1 DEF DetectionParts, OneTerminator
  <2>3. ASSUME NEW c \in SM \X SM, NEW k \in DOMAIN chan[c]
        PROVE  /\ IsToken(c, k, {"CANCEL_CYCLE"}) => amTerminator(c[2])
               /\ IsToken(c, k, {"BECOME_TERMINATOR"}) => ~amTerminator(c[2])
    <3>1. k \in Nat /\ c \in Channel /\ c[2] \in SM
      BY <2>1 DEF TypeOK, Channel
    <3> QED
      BY <2>1, <3>1 DEF DetectionParts, Roles
  <2>4. Cardinality(ControlTokens) + Cardinality(IdleTerminators) =
           IF \E i \in SM : completeFlag[i] THEN 0 ELSE 1
    BY <1>1, TokensCounted
  <2> QED
    BY <2>2, <2>3, <2>4 DEF OneDetection
<1> QED
  BY <1>1, DetectionInvariant, PTL
-----------------------------------------------------------------------------
(* No premature completion.  It needs two things that the code leaves to its    *)
(* environment: events travel along the ring, where the token pushes them in    *)
(* front of it, and the status of a manager does not read IDLE at the start.    *)

AlongTheRing == \A i, j \in SM : <<i, j>> \in Routes => j \in {i, Peer(i)}
StartsActive == InitialStatus = {"ACTIVE"}

Link(i) == <<i, Peer(i)>>

\* How many managers a token of T passes to come from T to i.
Hops(T, i) == IF i >= T THEN i - T ELSE i - T + N

NoEventAfter(s, k) == \A l \in 1 .. Len(s) : l > k => s[l].type # "event"

\* If manager i has been idle since the token, it has nothing to do, and nothing
\* it sent is still on its way; the token that left manager x is at position k.
Silent(i, x, k) ==
    idleSinceLastToken[i] => status[i] = "IDLE" /\ NoEventAfter(chan[Link(i)], IF i = x THEN k ELSE 0)

\* In the first cycle this holds for those the token has passed; in the second for
\* all, and those it has passed twice are still idle, as long as the terminator is.
FirstOK(T, x, k) == \A i \in SM : i # T /\ Hops(T, i) <= Hops(T, x) => Silent(i, x, k)

SecondOK(T, x, k) ==
    idleSinceLastToken[T] =>
        \A i \in SM : Silent(i, x, k) /\ (Hops(T, i) <= Hops(T, x) => idleSinceLastToken[i])

CycleOK ==
    \A c \in Channel : \A k \in Nat :
        /\ IsToken(c, k, {"FIRST_CYCLE"}) => c = Link(c[1]) /\ FirstOK(chan[c][k].terminator, c[1], k)
        /\ IsToken(c, k, {"SECOND_CYCLE"}) => c = Link(c[1]) /\ SecondOK(chan[c][k].terminator, c[1], k)

\* A manager whose status is IDLE has no event, and has not just executed one.
AtRest ==
    \A i \in SM : status[i] = "IDLE" =>
        work[i] = 0 /\ pc[i] # "inner" /\ (pc[i] = "execute" => ~had[i])

EventsOnRing(ch) == \A c \in Channel : c # Link(c[1]) => NoEventAfter(ch[c], 0)

NothingLeft(w, ch) ==
    /\ \A i \in SM : w[i] = 0
    /\ \A c \in Channel : NoEventAfter(ch[c], 0)

RingParts ==
    /\ CycleOK /\ AtRest /\ EventsOnRing(chan)
    /\ Complete => NothingLeft(work, chan)

\* The inductive invariant.
RingInv == DetectionInv /\ RingParts

LEMMA Ring ==
  /\ \A i \in SM : Peer(i) \in SM /\ Peer(i) # i /\ Link(i) \in Channel
                   /\ Link(i)[1] = i /\ Link(i)[2] = Peer(i)
  /\ \A i, j \in SM : Peer(i) = Peer(j) => i = j
  /\ \A i, j \in SM : Hops(i, j) \in 0 .. N - 1
  /\ \A i, j \in SM : Hops(i, j) = 0 <=> i = j
  /\ \A T, i \in SM : IF Peer(i) = T THEN Hops(T, i) = N - 1 ELSE Hops(T, Peer(i)) = Hops(T, i) + 1
  /\ \A T, i, j \in SM : Hops(T, i) = Hops(T, j) => i = j
<1>1. \A i \in SM : i \in Int /\ 0 <= i /\ i < N /\ N \in Nat /\ N > 1
  BY NAssumption DEF SM
<1>2. \A i \in SM : Peer(i) = IF i = N - 1 THEN 0 ELSE i + 1
  BY NAssumption DEF SM, Peer
<1>3. \A i \in SM : Peer(i) \in SM
  BY PeerType
<1>4. \A i \in SM : Peer(i) # i /\ Link(i) \in Channel /\ Link(i)[1] = i /\ Link(i)[2] = Peer(i)
  BY <1>1, <1>2, <1>3 DEF Link, Channel
<1>5. \A i, j \in SM : Peer(i) = Peer(j) => i = j
  BY <1>1, <1>2
<1>6. \A i, j \in SM : Hops(i, j) \in 0 .. N - 1 /\ (Hops(i, j) = 0 <=> i = j)
  BY <1>1 DEF Hops
<1>7. \A T, i \in SM : IF Peer(i) = T THEN Hops(T, i) = N - 1 ELSE Hops(T, Peer(i)) = Hops(T, i) + 1
  BY <1>1, <1>2 DEF Hops
<1>8. \A T, i, j \in SM : Hops(T, i) = Hops(T, j) => i = j
  BY <1>1 DEF Hops
<1> QED
  BY <1>3, <1>4, <1>5, <1>6, <1>7, <1>8

LEMMA Links == \A i, j \in SM : Link(i) \in Channel /\ (i # j => Link(i) # Link(j))
BY Ring

-----------------------------------------------------------------------------
(* Where the events are after a message has been taken or sent *)

LEMMA TakenEvents ==
  ASSUME NEW old, NEW new, NEW c \in Channel, Shorter(old, new, c)
  PROVE  /\ \A e \in Channel : NoEventAfter(old[e], 0) => NoEventAfter(new[e], 0)
         /\ \A k \in Nat : NoEventAfter(old[c], k + 1) => NoEventAfter(new[c], k)
         /\ \A e \in Channel \ {c} : new[e] = old[e]
<1>1. ASSUME NEW k \in Nat, NoEventAfter(old[c], k + 1) PROVE NoEventAfter(new[c], k)
  <2> SUFFICES ASSUME NEW l \in 1 .. Len(new[c]), l > k PROVE new[c][l].type # "event"
    BY DEF NoEventAfter
  <2>1. l + 1 \in 1 .. Len(old[c]) /\ l + 1 > k + 1 /\ new[c][l] = old[c][l + 1]
    BY DEF Shorter
  <2> QED
    BY <1>1, <2>1 DEF NoEventAfter
<1>2. NoEventAfter(old[c], 0) => NoEventAfter(old[c], 0 + 1)
  BY DEF NoEventAfter
<1>3. \A e \in Channel \ {c} : new[e] = old[e]
  BY DEF Shorter
<1> QED
  BY <1>1, <1>2, <1>3

LEMMA FirstTaken ==
  ASSUME NEW old, NEW new, NEW c \in Channel, Shorter(old, new, c)
  PROVE  NoEventAfter(old[c], 1) => NoEventAfter(new[c], 0)
<1>1. 0 \in Nat /\ 0 + 1 = 1
  OBVIOUS
<1> QED
  BY <1>1, TakenEvents

LEMMA SentEvents ==
  ASSUME NEW old, NEW new, NEW d \in Channel, NEW m, m.type # "event", Longer(old, new, d, m)
  PROVE  /\ \A e \in Channel : \A k \in Nat : NoEventAfter(old[e], k) => NoEventAfter(new[e], k)
         /\ \A e \in Channel \ {d} : new[e] = old[e]
<1>1. ASSUME NEW e \in Channel, NEW k \in Nat, NoEventAfter(old[e], k),
             NEW l \in 1 .. Len(new[e]), l > k
      PROVE  new[e][l].type # "event"
  <2>1. \/ e = d /\ new[e][l] = m
        \/ l \in 1 .. Len(old[e]) /\ new[e][l] = old[e][l]
    BY <1>1 DEF Longer
  <2> QED
    BY <1>1, <2>1 DEF NoEventAfter
<1> QED
  BY <1>1 DEF NoEventAfter, Longer
-----------------------------------------------------------------------------
(* Steps that leave the token where it is *)

\* Nobody who was at rest has done anything.
StillSilent ==
    \A i \in SM : /\ idleSinceLastToken'[i] => idleSinceLastToken[i]
                  /\ status[i] = "IDLE" => status'[i] = "IDLE" /\ idleSinceLastToken'[i] = idleSinceLastToken[i]

LEMMA CycleSame ==
  ASSUME TypeOK, RingParts, UNCHANGED chan, StillSilent
  PROVE  CycleOK'
<1> SUFFICES ASSUME NEW c \in Channel, NEW k \in Nat
             PROVE  /\ IsToken(c, k, {"FIRST_CYCLE"})' => c = Link(c[1]) /\ FirstOK(chan[c][k].terminator, c[1], k)'
                    /\ IsToken(c, k, {"SECOND_CYCLE"})' => c = Link(c[1]) /\ SecondOK(chan[c][k].terminator, c[1], k)'
  BY DEF CycleOK
<1>1. \A S : IsToken(c, k, S)' <=> IsToken(c, k, S)
  BY DEF IsToken
<1>2. PICK T, x : T = chan[c][k].terminator /\ x = c[1]
  OBVIOUS
<1>3. \A i \in SM : Silent(i, x, k) => Silent(i, x, k)'
  BY DEF Silent, StillSilent
<1>4. ASSUME IsToken(c, k, {"FIRST_CYCLE"}) PROVE c = Link(x) /\ FirstOK(T, x, k)'
  <2>1. c = Link(x) /\ FirstOK(T, x, k)
    BY <1>2, <1>4 DEF RingParts, CycleOK
  <2> QED
    BY <1>3, <2>1 DEF FirstOK
<1>5. ASSUME IsToken(c, k, {"SECOND_CYCLE"}) PROVE c = Link(x) /\ SecondOK(T, x, k)'
  <2>1. c = Link(x) /\ SecondOK(T, x, k) /\ T \in SM
    <3>1. k \in 1 .. Len(chan[c]) /\ chan[c][k].type = "token" /\ chan[c] \in Seq(Message)
      BY <1>5 DEF IsToken, TypeOK, Channel
    <3>2. T \in SM
      BY <1>2, <3>1, TokenFields
    <3> QED
      BY <1>2, <1>5, <3>2 DEF RingParts, CycleOK
  <2>2. ASSUME idleSinceLastToken'[T], NEW i \in SM
        PROVE  Silent(i, x, k)' /\ (Hops(T, i) <= Hops(T, x) => idleSinceLastToken'[i])
    <3>1. Silent(i, x, k) /\ (Hops(T, i) <= Hops(T, x) => idleSinceLastToken[i])
      BY <2>1, <2>2 DEF SecondOK, StillSilent
    <3>2. Hops(T, i) <= Hops(T, x) => idleSinceLastToken'[i]
      BY <3>1 DEF Silent, StillSilent
    <3> QED
      BY <1>3, <3>1, <3>2
  <2> QED
    BY <2>1, <2>2 DEF SecondOK
<1> QED
  BY <1>1, <1>2, <1>4, <1>5

LEMMA StopPollingRing ==
  ASSUME DetectionInv, RingParts, NEW i \in SM, StopPolling(i)
  PROVE  RingParts'
<1>1. UNCHANGED <<chan, status, idleSinceLastToken, work, completeFlag>>
  BY DEF StopPolling, termVars
<1>2. StillSilent
  BY <1>1 DEF StillSilent
<1>3. CycleOK'
  BY <1>1, <1>2, CycleSame DEF DetectionInv
<1>4. AtRest'
  BY <1>1 DEF StopPolling, AtRest, RingParts, DetectionInv, TypeOK
<1> QED
  BY <1>1, <1>3, <1>4 DEF RingParts, Complete

LEMMA ExecuteObjectsReturnsRing ==
  ASSUME DetectionInv, RingParts, NEW i \in SM, ExecuteObjectsReturns(i)
  PROVE  RingParts'
<1>1. UNCHANGED <<chan, work, completeFlag, had>> /\ work[i] = 0 /\ pc[i] = "execute"
  BY DEF ExecuteObjectsReturns, HasNextEvent, DetectionInv, TypeOK
<1>2. status[i] = "IDLE" => had[i] = FALSE
  BY <1>1 DEF RingParts, AtRest, DetectionInv, TypeOK
<1>3. /\ \A j \in SM \ {i} : status'[j] = status[j] /\ idleSinceLastToken'[j] = idleSinceLastToken[j] /\ pc'[j] = pc[j]
      /\ pc'[i] = "head"
  BY DEF ExecuteObjectsReturns, DetectionInv, TypeOK
<1>4. /\ idleSinceLastToken'[i] => idleSinceLastToken[i]
      /\ had[i] = FALSE => idleSinceLastToken'[i] = idleSinceLastToken[i] /\ status'[i] = "IDLE"
  <2>1. idleSinceLastToken'[i] = (idleSinceLastToken[i] /\ ~had[i]) /\ idleSinceLastToken[i] \in BOOLEAN
    BY DEF ExecuteObjectsReturns, DetectionInv, TypeOK
  <2>2. status'[i] = IF had[i] THEN "ACTIVE" ELSE "IDLE"
    BY DEF ExecuteObjectsReturns, DetectionInv, TypeOK
  <2> QED
    BY <2>1, <2>2
<1>5. StillSilent
  BY <1>2, <1>3, <1>4 DEF StillSilent
<1>6. CycleOK'
  BY <1>1, <1>5, CycleSame DEF DetectionInv
<1>7. AtRest'
  BY <1>1, <1>3 DEF AtRest, RingParts
<1> QED
  BY <1>1, <1>6, <1>7 DEF RingParts, Complete

LEMMA TerminatorOfToken ==
  ASSUME TypeOK, NEW c \in Channel, NEW k \in Nat, NEW S, IsToken(c, k, S)
  PROVE  chan[c][k].terminator \in SM
<1>1. k \in 1 .. Len(chan[c]) /\ chan[c][k].type = "token" /\ chan[c] \in Seq(Message)
  BY DEF IsToken, TypeOK, Channel
<1>2. chan[c][k] \in Message
  BY <1>1
<1> QED
  BY <1>1, <1>2, TokenFields

\* Manager i, which is not at rest, sends an event to the next one.
LEMMA EventSentRing ==
  ASSUME TypeOK, RingParts, NEW i \in SM, Longer(chan, chan', Link(i), EventMsg),
         status[i] # "IDLE", UNCHANGED <<status, idleSinceLastToken>>
  PROVE  CycleOK' /\ EventsOnRing(chan')
<1>1. Link(i) \in Channel /\ \A j \in SM : j # i => Link(j) \in Channel \ {Link(i)}
  BY Ring
<1>2. \A c \in Channel : c # Link(i) => chan'[c] = chan[c]
  BY DEF Longer
<1>3. ASSUME NEW j \in SM, NEW x, NEW k, Silent(j, x, k) PROVE Silent(j, x, k)'
  <2>1. CASE j = i
    BY <1>3, <2>1 DEF Silent
  <2>2. CASE j # i
    BY <1>1, <1>2, <1>3, <2>2 DEF Silent
  <2> QED
    BY <2>1, <2>2
<1>4. \A T, x, k : (FirstOK(T, x, k) => FirstOK(T, x, k)') /\ (SecondOK(T, x, k) => SecondOK(T, x, k)')
  BY <1>3 DEF FirstOK, SecondOK
<1>5. CycleOK'
  <2> SUFFICES ASSUME NEW c \in Channel, NEW k \in Nat
               PROVE  /\ IsToken(c, k, {"FIRST_CYCLE"})' => c = Link(c[1]) /\ FirstOK(chan[c][k].terminator, c[1], k)'
                      /\ IsToken(c, k, {"SECOND_CYCLE"})' => c = Link(c[1]) /\ SecondOK(chan[c][k].terminator, c[1], k)'
    BY DEF CycleOK
  <2>1. PICK T, x : T = chan'[c][k].terminator /\ x = c[1]
    OBVIOUS
  <2>2. ASSUME NEW S, IsToken(c, k, S)' PROVE IsToken(c, k, S) /\ T = chan[c][k].terminator
    BY <1>1, <2>1, <2>2, EventSentTokens
  <2>3. ASSUME IsToken(c, k, {"FIRST_CYCLE"})' PROVE c = Link(x) /\ FirstOK(T, x, k)'
    BY <1>4, <2>1, <2>2, <2>3 DEF RingParts, CycleOK
  <2>4. ASSUME IsToken(c, k, {"SECOND_CYCLE"})' PROVE c = Link(x) /\ SecondOK(T, x, k)'
    BY <1>4, <2>1, <2>2, <2>4 DEF RingParts, CycleOK
  <2> QED
    BY <2>1, <2>3, <2>4
<1>6. EventsOnRing(chan')
  <2> SUFFICES ASSUME NEW c \in Channel, c # Link(c[1]) PROVE NoEventAfter(chan'[c], 0)
    BY DEF EventsOnRing
  <2>1. c # Link(i)
    BY Ring
  <2> QED
    BY <1>2, <2>1 DEF RingParts, EventsOnRing
<1> QED
  BY <1>5, <1>6

LEMMA ExecuteEventRing ==
  ASSUME AlongTheRing, DetectionInv, RingParts, NEW i \in SM, ExecuteEvent(i)
  PROVE  RingParts'
<1>1. TypeOK /\ UNCHANGED <<status, idleSinceLastToken, completeFlag, had>> /\ pc' = [pc EXCEPT ![i] = "inner"]
  BY DEF DetectionInv, ExecuteEvent, termVars
<1>2. work[i] > 0 /\ work[i] # 0
  BY <1>1 DEF ExecuteEvent, HasNextEvent, TypeOK
<1>3. status[i] # "IDLE" /\ ~Complete
  BY <1>2 DEF RingParts, AtRest, NothingLeft
<1>4. ~Complete'
  BY <1>1, <1>3 DEF Complete
<1>5. \A j \in SM \ {i} : work'[j] = work[j] /\ pc'[j] = pc[j]
  BY <1>1 DEF ExecuteEvent, TypeOK
<1>6. AtRest'
  BY <1>1, <1>3, <1>5 DEF RingParts, AtRest
<1>7. CASE UNCHANGED chan
  <2>1. StillSilent
    BY <1>1 DEF StillSilent
  <2>2. CycleOK'
    BY <1>1, <1>7, <2>1, CycleSame
  <2> QED
    BY <1>4, <1>6, <1>7, <2>2 DEF RingParts
<1>8. CASE \E j \in SM \ {i} : <<i, j>> \in Routes /\ chan' = Send(chan, i, j, EventMsg)
  <2>1. PICK j \in SM \ {i} : <<i, j>> \in Routes /\ chan' = Send(chan, i, j, EventMsg)
    BY <1>8
  <2>2. <<i, j>> = Link(i) /\ Link(i) \in Channel
    BY <2>1, Ring DEF AlongTheRing, Link
  <2>3. chan' = [chan EXCEPT ![Link(i)] = Append(@, EventMsg)] /\ chan \in [Channel -> Seq(Message)]
    BY <1>1, <2>1, <2>2 DEF Send, TypeOK, Channel
  <2>4. Longer(chan, chan', Link(i), EventMsg)
    BY <2>2, <2>3, EventType, SendLonger
  <2>5. CycleOK' /\ EventsOnRing(chan')
    BY <1>1, <1>3, <2>4, EventSentRing
  <2> QED
    BY <1>4, <1>6, <2>5 DEF RingParts
<1> QED
  BY <1>7, <1>8 DEF ExecuteEvent

\* Manager Peer(j) takes an event out of its channel, after which it is not idle.
LEMMA EventTakenRing ==
  ASSUME TypeOK, RingParts, NEW j \in SM, Shorter(chan, chan', Link(j)), chan[Link(j)][1].type = "event",
         ~idleSinceLastToken'[Peer(j)],
         \A i \in SM \ {Peer(j)} : status'[i] = status[i] /\ idleSinceLastToken'[i] = idleSinceLastToken[i]
  PROVE  CycleOK' /\ EventsOnRing(chan')
<1> DEFINE at(c, k) == IF c = Link(j) THEN k + 1 ELSE k
<1>1. Link(j) \in Channel /\ Peer(j) \in SM /\ \A i \in SM : i # j => Link(i) \in Channel \ {Link(j)}
  BY Ring
<1>2. /\ \A c \in Channel : NoEventAfter(chan[c], 0) => NoEventAfter(chan'[c], 0)
      /\ \A k \in Nat : NoEventAfter(chan[Link(j)], k + 1) => NoEventAfter(chan'[Link(j)], k)
      /\ \A c \in Channel \ {Link(j)} : chan'[c] = chan[c]
  BY <1>1, TakenEvents
<1>3. ~NoEventAfter(chan[Link(j)], 0)
  <2>1. 1 \in 1 .. Len(chan[Link(j)]) /\ 1 > 0
    BY DEF Shorter
  <2> QED
    BY <2>1 DEF NoEventAfter
<1>4. ASSUME NEW x \in SM, NEW k \in Nat, NEW i \in SM, Silent(i, x, at(Link(x), k)) PROVE Silent(i, x, k)'
  <2>1. CASE i = Peer(j)
    BY <2>1 DEF Silent
  <2>2. CASE i # Peer(j) /\ i = j
    <3>1. CASE x = j
      BY <1>2, <1>4, <2>2, <3>1 DEF Silent
    <3>2. CASE x # j
      BY <1>3, <1>4, <2>2, <3>2 DEF Silent
    <3> QED
      BY <3>1, <3>2
  <2>3. CASE i # Peer(j) /\ i # j
    <3>1. chan'[Link(i)] = chan[Link(i)]
      BY <1>1, <1>2, <2>3
    <3>2. CASE i = x
      <4>1. Link(x) # Link(j)
        BY <1>1, <2>3, <3>2
      <4> QED
        BY <1>4, <2>3, <3>1, <3>2, <4>1 DEF Silent
    <3>3. CASE i # x
      BY <1>4, <2>3, <3>1, <3>3 DEF Silent
    <3> QED
      BY <3>2, <3>3
  <2> QED
    BY <2>1, <2>2, <2>3
<1>5. ASSUME NEW T \in SM, NEW x \in SM, NEW k \in Nat, SecondOK(T, x, at(Link(x), k)) PROVE SecondOK(T, x, k)'
  <2>1. ASSUME idleSinceLastToken'[T], NEW i \in SM, Hops(T, i) <= Hops(T, x) PROVE idleSinceLastToken'[i]
    <3>1. T # Peer(j) /\ idleSinceLastToken[T]
      BY <2>1
    <3>2. CASE i # Peer(j)
      BY <1>5, <2>1, <3>1, <3>2 DEF SecondOK
    <3>3. CASE i = Peer(j)
      <4>1. Hops(T, i) = Hops(T, j) + 1 /\ Hops(T, j) \in Nat /\ Hops(T, x) \in Nat
        BY <3>1, <3>3, Ring
      <4>2. Hops(T, j) <= Hops(T, x) /\ j # x
        BY <2>1, <4>1
      <4>3. idleSinceLastToken[j] /\ Silent(j, x, at(Link(x), k))
        BY <1>5, <3>1, <4>2 DEF SecondOK
      <4> QED
        BY <1>3, <4>2, <4>3 DEF Silent
    <3> QED
      BY <3>2, <3>3
  <2>2. idleSinceLastToken'[T] => idleSinceLastToken[T]
    OBVIOUS
  <2> QED
    BY <1>4, <1>5, <2>1, <2>2 DEF SecondOK
<1>6. CycleOK'
  <2> SUFFICES ASSUME NEW c \in Channel, NEW k \in Nat
               PROVE  /\ IsToken(c, k, {"FIRST_CYCLE"})' => c = Link(c[1]) /\ FirstOK(chan[c][k].terminator, c[1], k)'
                      /\ IsToken(c, k, {"SECOND_CYCLE"})' => c = Link(c[1]) /\ SecondOK(chan[c][k].terminator, c[1], k)'
    BY DEF CycleOK
  <2>1. PICK T, x : T = chan'[c][k].terminator /\ x = c[1]
    OBVIOUS
  <2>2. x \in SM /\ at(c, k) \in Nat
    BY <2>1 DEF Channel
  <2>3. ASSUME NEW S, IsToken(c, k, S)' PROVE IsToken(c, at(c, k), S) /\ T = chan[c][at(c, k)].terminator
    BY <1>1, <2>1, <2>3, TakenTokens
  <2> HIDE DEF at
  <2>4. ASSUME IsToken(c, k, {"FIRST_CYCLE"})' PROVE c = Link(x) /\ FirstOK(T, x, k)'
    <3>1. c = Link(x) /\ FirstOK(T, x, at(c, k))
      BY <2>1, <2>2, <2>3, <2>4 DEF RingParts, CycleOK
    <3> QED
      BY <1>4, <2>2, <3>1 DEF FirstOK
  <2>5. ASSUME IsToken(c, k, {"SECOND_CYCLE"})' PROVE c = Link(x) /\ SecondOK(T, x, k)'
    <3>1. c = Link(x) /\ SecondOK(T, x, at(c, k)) /\ T \in SM
      BY <2>1, <2>2, <2>3, <2>5, TerminatorOfToken DEF RingParts, CycleOK
    <3> QED
      BY <1>5, <2>2, <3>1
  <2> QED
    BY <2>1, <2>4, <2>5
<1>7. EventsOnRing(chan')
  BY <1>2 DEF RingParts, EventsOnRing
<1> QED
  BY <1>6, <1>7

LEMMA ReceiveEventRing ==
  ASSUME DetectionInv, RingParts, NEW i \in SM, NEW j \in SM, ReceiveEvent(i, j)
  PROVE  RingParts'
<1>1. TypeOK /\ CanRead(i, j) /\ UNCHANGED <<completeFlag, pc, had>>
  BY DEF DetectionInv, ReceiveEvent, loopVars
<1>2. /\ Shorter(chan, chan', <<j, i>>) /\ <<j, i>> \in Channel
      /\ chan[<<j, i>>][1].type = "event" /\ 1 \in 1 .. Len(chan[<<j, i>>])
  BY <1>1, Reading DEF ReceiveEvent
<1>3. ~NoEventAfter(chan[<<j, i>>], 0)
  BY <1>2 DEF NoEventAfter
<1>4. <<j, i>> = Link(j) /\ i = Peer(j)
  <2>1. <<j, i>>[1] = j
    OBVIOUS
  <2>2. <<j, i>> = Link(j)
    BY <1>2, <1>3, <2>1 DEF RingParts, EventsOnRing
  <2> QED
    BY <2>2, Ring DEF Link
<1>5. ~Complete'
  BY <1>1, <1>2, <1>3 DEF RingParts, NothingLeft, Complete
<1>6. /\ ~idleSinceLastToken'[i] /\ status'[i] = "ACTIVE"
      /\ \A k \in SM \ {i} : status'[k] = status[k] /\ idleSinceLastToken'[k] = idleSinceLastToken[k] /\ work'[k] = work[k]
  BY <1>1 DEF ReceiveEvent, TypeOK
<1>7. CycleOK' /\ EventsOnRing(chan')
  BY <1>1, <1>2, <1>4, <1>6, EventTakenRing
<1>8. AtRest'
  BY <1>1, <1>6 DEF RingParts, AtRest
<1> QED
  BY <1>5, <1>7, <1>8 DEF RingParts
-----------------------------------------------------------------------------
(* Steps that move the token *)

\* The token m is the last message of channel d now, and there is no other.
LEMMA CycleNew ==
  ASSUME NEW d \in Channel, NEW m \in Message, OnlyLast(chan', d, m), NEW last, last = Len(chan'[d]),
         m.state = "FIRST_CYCLE" => d = Link(d[1]) /\ FirstOK(m.terminator, d[1], last)',
         m.state = "SECOND_CYCLE" => d = Link(d[1]) /\ SecondOK(m.terminator, d[1], last)'
  PROVE  CycleOK'
<1> SUFFICES ASSUME NEW c \in Channel, NEW k \in Nat
             PROVE  /\ IsToken(c, k, {"FIRST_CYCLE"})' => c = Link(c[1]) /\ FirstOK(chan[c][k].terminator, c[1], k)'
                    /\ IsToken(c, k, {"SECOND_CYCLE"})' => c = Link(c[1]) /\ SecondOK(chan[c][k].terminator, c[1], k)'
  BY DEF CycleOK
<1>1. ASSUME NEW S \in SUBSET ControlStates, IsToken(c, k, S)' PROVE c = d /\ k = last /\ chan'[c][k] = m /\ m.state \in S
  <2>1. k \in 1 .. Len(chan'[c]) /\ chan'[c][k].type = "token" /\ chan'[c][k].state \in S
    BY <1>1 DEF IsToken
  <2>2. ~Harmless(chan'[c][k])
    BY <2>1 DEF Harmless
  <2> QED
    BY <2>1, <2>2 DEF OnlyLast
<1>2. {"FIRST_CYCLE"} \in SUBSET ControlStates /\ {"SECOND_CYCLE"} \in SUBSET ControlStates
  BY DEF ControlStates
<1>3. ASSUME IsToken(c, k, {"FIRST_CYCLE"})' PROVE c = Link(c[1]) /\ FirstOK(chan[c][k].terminator, c[1], k)'
  <2>1. c = d /\ k = last /\ chan'[c][k] = m /\ m.state = "FIRST_CYCLE"
    BY <1>1, <1>2, <1>3
  <2> QED
    BY <2>1 DEF FirstOK, Silent
<1>4. ASSUME IsToken(c, k, {"SECOND_CYCLE"})' PROVE c = Link(c[1]) /\ SecondOK(chan[c][k].terminator, c[1], k)'
  <2>1. c = d /\ k = last /\ chan'[c][k] = m /\ m.state = "SECOND_CYCLE"
    BY <1>1, <1>2, <1>4
  <2> QED
    BY <2>1 DEF SecondOK, Silent
<1> QED
  BY <1>3, <1>4

LEMMA CycleNone ==
  ASSUME NoControl(chan')
  PROVE  CycleOK'
<1> SUFFICES ASSUME NEW c \in Channel, NEW k \in Nat
             PROVE  ~IsToken(c, k, {"FIRST_CYCLE"})' /\ ~IsToken(c, k, {"SECOND_CYCLE"})'
  BY DEF CycleOK
<1> QED
  BY DEF NoControl, Harmless, IsToken, ControlStates

LEMMA HandledRest ==
  ASSUME RingParts, NEW i \in SM, TokenHandled(i)
  PROVE  AtRest' /\ UNCHANGED work
BY DEF RingParts, AtRest, TokenHandled, loopVars

\* No event has moved but for making room.
Settled(ch) == EventsOnRing(ch) /\ (Complete => NothingLeft(work, ch))

LEMMA SettledTaken ==
  ASSUME NEW old, Settled(old), NEW new, NEW c \in Channel, Shorter(old, new, c)
  PROVE  Settled(new)
BY TakenEvents DEF Settled, EventsOnRing, NothingLeft

LEMMA SettledSent ==
  ASSUME NEW old, Settled(old), NEW new, NEW d \in Channel, NEW m, m.type # "event", Longer(old, new, d, m)
  PROVE  Settled(new)
<1>1. \A e \in Channel : NoEventAfter(old[e], 0) => NoEventAfter(new[e], 0)
  BY SentEvents
<1> QED
  BY <1>1 DEF Settled, EventsOnRing, NothingLeft

LEMMA LoopHeadRing ==
  ASSUME DetectionInv, RingParts, NEW i \in SM, LoopHead(i)
  PROVE  RingParts'
<1>1. TypeOK /\ DetectionParts /\ UNCHANGED <<status, idleSinceLastToken, completeFlag, had, work>>
  BY DEF DetectionInv, DetectionParts, LoopHead
<1>2. AtRest'
  BY <1>1 DEF LoopHead, RingParts, AtRest, TypeOK
<1>3. CASE UNCHANGED chan
  <2>1. StillSilent
    BY <1>1 DEF StillSilent
  <2>2. CycleOK'
    BY <1>1, <1>3, <2>1, CycleSame
  <2> QED
    BY <1>1, <1>2, <1>3, <2>2 DEF RingParts, Complete
<1>4. CASE chan' = Send(chan, i, Peer(i), NewToken(i)) /\ terminatorStatus[i] = "TERMINATOR_IDLE"
  <2> DEFINE d == Link(i)
             m == NewToken(i)
  <2>1. d \in Channel /\ m \in Message /\ m.type = "token" /\ m.state = "FIRST_CYCLE" /\ m.terminator = i /\ d[1] = i
    BY Ring, TokenType DEF NewToken, ControlStates
  <2>2. chan' = [chan EXCEPT ![d] = Append(@, m)] /\ chan \in [Channel -> Seq(Message)]
    BY <1>1, <1>4 DEF Send, Link, TypeOK, Channel
  <2> HIDE DEF d, m
  <2>3. Longer(chan, chan', d, m)
    BY <2>1, <2>2, SendLonger
  <2>4. ~Complete /\ \A c \in Channel : \A k \in Nat : ~Control(c, k)
    BY <1>1, <1>4, IdleTerminatorAlone
  <2>5. OnlyLast(chan', d, m)
    BY <1>1, <2>1, <2>3, <2>4, NoneBefore, TokenSent DEF DetectionParts
  <2>6. PICK last : last = Len(chan'[d])
    OBVIOUS
  <2>7. FirstOK(i, i, last)'
    <3>1. \A j \in SM : j # i => ~(Hops(i, j) <= Hops(i, i))
      <4>1. \A j \in SM : Hops(i, j) \in Nat /\ (Hops(i, j) = 0 <=> i = j)
        BY Ring
      <4> QED
        BY <4>1
    <3> QED
      BY <3>1 DEF FirstOK
  <2>8. d = Link(d[1])
    BY <2>1 DEF d
  <2>9. CycleOK'
    <3>1. m.state = "FIRST_CYCLE" => d = Link(d[1]) /\ FirstOK(m.terminator, d[1], last)'
      BY <2>1, <2>7, <2>8 DEF FirstOK, Silent
    <3>2. m.state # "SECOND_CYCLE"
      BY <2>1
    <3> QED
      BY <2>1, <2>5, <2>6, <3>1, <3>2, CycleNew
  <2>10. Settled(chan')
    BY <2>1, <2>3, SettledSent DEF RingParts, Settled
  <2> QED
    BY <1>1, <1>2, <2>9, <2>10 DEF RingParts, Settled, Complete
<1> QED
  BY <1>3, <1>4 DEF LoopHead

\* After the token has been taken: manager p is at rest if it counts as idle.
SilentIn(ch, p) == idleSinceLastToken[p] => status[p] = "IDLE" /\ NoEventAfter(ch[Link(p)], 0)

\* What manager i learns when a token of T comes from manager j.
Learns(ch, T, j, i, state) ==
    /\ i = Peer(j)
    /\ state = "FIRST_CYCLE" => \A p \in SM : p # T /\ Hops(T, p) <= Hops(T, j) => SilentIn(ch, p)
    /\ state = "SECOND_CYCLE" =>
          (idleSinceLastToken[T] => \A p \in SM : SilentIn(ch, p) /\ (Hops(T, p) <= Hops(T, j) => idleSinceLastToken[p]))

LEMMA CycleTokenRead ==
  ASSUME DetectionInv, RingParts, NEW i \in SM, NEW j \in SM, TokenAt(i, j, {"FIRST_CYCLE", "SECOND_CYCLE"}),
         NEW ch, ch = [chan EXCEPT ![<<j, i>>] = Tail(@)], NEW h, h = Head(chan[<<j, i>>])
  PROVE  /\ Learns(ch, h.terminator, j, i, h.state) /\ ~Complete /\ NoControl(ch)
         /\ h.terminator \in SM /\ h.state \in {"FIRST_CYCLE", "SECOND_CYCLE"} /\ h.from \in SM
         /\ amTerminator(i) <=> i = h.terminator
         /\ ch \in [Channel -> Seq(Message)] /\ Settled(ch)
<1> DEFINE c == <<j, i>>
           S == {"FIRST_CYCLE", "SECOND_CYCLE"}
<1>1. TypeOK /\ DetectionParts /\ S \in SUBSET ControlStates /\ CanRead(i, j)
  BY DEF DetectionInv, DetectionParts, ControlStates, TokenAt
<1>2. ~Complete /\ NoControl(ch) /\ IsToken(c, 1, S) /\ h.terminator \in SM /\ h.from \in SM
  BY <1>1, ControlRead
<1>3. c \in Channel /\ Shorter(chan, ch, c) /\ ch \in [Channel -> Seq(Message)] /\ h = chan[c][1] /\ c[1] = j
  BY <1>1, Reading
<1>4. h.state \in S
  BY DEF TokenAt
<1>5. amTerminator(h.terminator)
  BY <1>1, <1>2, <1>3 DEF DetectionParts, Roles
<1>6. amTerminator(i) <=> i = h.terminator
  BY <1>1, <1>2, <1>5 DEF DetectionParts, OneTerminator
<1>7. Settled(ch)
  BY <1>3, SettledTaken DEF RingParts, Settled
<1> HIDE DEF c
<1>8. /\ NoEventAfter(chan[c], 1) => NoEventAfter(ch[c], 0)
      /\ \A e \in Channel \ {c} : ch[e] = chan[e]
  <2>1. c \in Channel
    BY <1>3
  <2>2. Shorter(chan, ch, c)
    BY <1>3
  <2>3. NoEventAfter(chan[c], 1) => NoEventAfter(ch[c], 0)
    BY <2>1, <2>2, FirstTaken
  <2>4. \A e \in Channel \ {c} : ch[e] = chan[e]
    BY <2>2 DEF Shorter
  <2> QED
    BY <2>3, <2>4
<1>9. PICK T : T = h.terminator
  OBVIOUS
<1>10. c = Link(j) /\ (h.state = "FIRST_CYCLE" => FirstOK(T, j, 1)) /\ (h.state = "SECOND_CYCLE" => SecondOK(T, j, 1))
  BY <1>2, <1>3, <1>4, <1>9 DEF IsToken, RingParts, CycleOK
<1>11. i = Peer(j)
  BY <1>10 DEF c, Link
<1>12. ASSUME NEW p \in SM, Silent(p, j, 1) PROVE SilentIn(ch, p)
  <2>1. Link(p) \in Channel /\ (p # j => Link(p) # Link(j))
    BY Links
  <2>2. CASE p = j
    <3>1. NoEventAfter(chan[c], 1) => NoEventAfter(ch[c], 0)
      BY <1>8
    <3> QED
      BY <1>10, <1>12, <2>2, <3>1 DEF Silent, SilentIn
  <2>3. CASE p # j
    <3>1. ch[Link(p)] = chan[Link(p)]
      BY <1>8, <1>10, <2>1, <2>3
    <3> QED
      BY <1>12, <2>3, <3>1 DEF Silent, SilentIn
  <2> QED
    BY <2>2, <2>3
<1>13. Learns(ch, T, j, i, h.state)
  BY <1>10, <1>11, <1>12 DEF Learns, FirstOK, SecondOK
<1> QED
  BY <1>2, <1>3, <1>4, <1>6, <1>7, <1>9, <1>13

\* Manager i has handled the token and put m at the end of its channel to the next.
LEMMA SilentNext ==
  ASSUME TypeOK, NEW i \in SM, TokenHandled(i), NEW ch, NEW m, m.type = "token",
         Longer(ch, chan', Link(i), m), NEW last, last = Len(chan'[Link(i)])
  PROVE  /\ \A p \in SM : p # i /\ SilentIn(ch, p) => Silent(p, i, last)'
         /\ Silent(i, i, last)'
         /\ idleSinceLastToken'[i] <=> status[i] = "IDLE"
         /\ \A p \in SM : p # i => idleSinceLastToken'[p] = idleSinceLastToken[p]
<1>1. /\ idleSinceLastToken'[i] <=> status[i] = "IDLE"
      /\ \A p \in SM : p # i => idleSinceLastToken'[p] = idleSinceLastToken[p]
      /\ UNCHANGED status
  BY DEF TokenHandled, TypeOK
<1>2. \A p \in SM : p # i => chan'[Link(p)] = ch[Link(p)]
  <2>1. \A p \in SM : p # i => Link(p) \in Channel \ {Link(i)}
    BY Links
  <2> QED
    BY <2>1 DEF Longer
<1>3. NoEventAfter(chan'[Link(i)], last)
  <2>1. last \in Nat
    BY DEF Longer
  <2> QED
    BY <2>1 DEF NoEventAfter
<1>4. Silent(i, i, last)'
  BY <1>1, <1>3 DEF Silent
<1>5. \A p \in SM : p # i /\ SilentIn(ch, p) => Silent(p, i, last)'
  BY <1>1, <1>2 DEF Silent, SilentIn
<1> QED
  BY <1>1, <1>4, <1>5

LEMMA SlaveGetsTokenRing ==
  ASSUME DetectionInv, RingParts, NEW i \in SM, NEW j \in SM, SlaveGetsToken(i, j)
  PROVE  RingParts'
<1>1. PICK h, ch : h = Head(chan[<<j, i>>]) /\ ch = [chan EXCEPT ![<<j, i>>] = Tail(@)]
  OBVIOUS
<1>2. /\ TokenAt(i, j, {"FIRST_CYCLE", "SECOND_CYCLE"}) /\ ~amTerminator(i) /\ TokenHandled(i)
      /\ UNCHANGED <<terminatorStatus, completeFlag>>
  BY DEF SlaveGetsToken
<1>3. /\ Learns(ch, h.terminator, j, i, h.state) /\ ~Complete /\ NoControl(ch)
      /\ h.terminator \in SM /\ h.state \in {"FIRST_CYCLE", "SECOND_CYCLE"}
      /\ amTerminator(i) <=> i = h.terminator
      /\ ch \in [Channel -> Seq(Message)] /\ Settled(ch)
  BY <1>1, <1>2, CycleTokenRead
<1>4. AtRest' /\ UNCHANGED work /\ ~Complete' /\ TypeOK
  BY <1>2, <1>3, HandledRest DEF Complete, DetectionInv
<1>5. ASSUME NEW d \in Channel, NEW m \in Message, m.type = "token", chan' = [ch EXCEPT ![d] = Append(@, m)],
             \A last : last = Len(chan'[d]) =>
                 /\ m.state = "FIRST_CYCLE" => d = Link(d[1]) /\ FirstOK(m.terminator, d[1], last)'
                 /\ m.state = "SECOND_CYCLE" => d = Link(d[1]) /\ SecondOK(m.terminator, d[1], last)'
      PROVE  RingParts'
  <2>1. Longer(ch, chan', d, m)
    BY <1>3, <1>5, SendLonger
  <2>2. OnlyLast(chan', d, m) /\ Settled(chan')
    BY <1>3, <1>5, <2>1, TokenSent, SettledSent
  <2>3. CycleOK'
    BY <1>5, <2>2, CycleNew
  <2> QED
    BY <1>4, <2>2, <2>3 DEF RingParts, Settled
<1>6. CASE idleSinceLastToken[i]
  <2>1. PICK T, m : T = h.terminator /\ m = Token(i, T, h.state)
    OBVIOUS
  <2>2. m \in Message /\ m.type = "token" /\ m.state = h.state /\ m.terminator = T
    BY <1>3, <2>1, TokenType DEF ControlStates
  <2>3. PICK d : d = Link(i)
    OBVIOUS
  <2>4. d \in Channel /\ d[1] = i
    BY <2>3, Ring
  <2>5. chan' = [ch EXCEPT ![d] = Append(@, m)]
    BY <1>1, <1>6, <2>1, <2>3 DEF SlaveGetsToken, Send, Link
  <2>6. Longer(ch, chan', d, m)
    BY <1>3, <2>2, <2>4, <2>5, SendLonger
  <2>7. T \in SM /\ i # T /\ i = Peer(j) /\ Hops(T, i) = Hops(T, j) + 1
    BY <1>2, <1>3, <2>1, Ring DEF Learns
  <2>8. ASSUME NEW p \in SM, p # i, Hops(T, p) <= Hops(T, i) PROVE Hops(T, p) <= Hops(T, j)
    <3>1. Hops(T, p) \in Nat /\ Hops(T, i) \in Nat /\ Hops(T, j) \in Nat /\ Hops(T, p) # Hops(T, i)
      BY <2>7, <2>8, Ring
    <3> QED
      BY <2>7, <2>8, <3>1
  <2>9. ASSUME NEW last, last = Len(chan'[d])
        PROVE  /\ m.state = "FIRST_CYCLE" => FirstOK(T, i, last)'
               /\ m.state = "SECOND_CYCLE" => SecondOK(T, i, last)'
    <3>1. /\ \A p \in SM : p # i /\ SilentIn(ch, p) => Silent(p, i, last)'
          /\ Silent(i, i, last)'
          /\ idleSinceLastToken'[i] <=> status[i] = "IDLE"
          /\ \A p \in SM : p # i => idleSinceLastToken'[p] = idleSinceLastToken[p]
      BY <1>2, <1>4, <2>2, <2>3, <2>6, <2>9, SilentNext
    <3>2. ASSUME m.state = "FIRST_CYCLE" PROVE FirstOK(T, i, last)'
      <4>1. \A p \in SM : p # T /\ Hops(T, p) <= Hops(T, j) => SilentIn(ch, p)
        BY <1>3, <2>1, <2>2, <3>2 DEF Learns
      <4> QED
        BY <2>8, <3>1, <4>1 DEF FirstOK
    <3>3. ASSUME m.state = "SECOND_CYCLE" PROVE SecondOK(T, i, last)'
      <4>1. ASSUME idleSinceLastToken[T], NEW p \in SM
            PROVE  SilentIn(ch, p) /\ (Hops(T, p) <= Hops(T, j) => idleSinceLastToken[p])
        BY <1>3, <2>1, <2>2, <3>3, <4>1 DEF Learns
      <4>2. ASSUME idleSinceLastToken'[T], NEW p \in SM
            PROVE  Silent(p, i, last)' /\ (Hops(T, p) <= Hops(T, i) => idleSinceLastToken'[p])
        <5>1. idleSinceLastToken[T]
          BY <2>7, <3>1, <4>2
        <5>2. CASE p = i
          BY <1>6, <3>1, <4>1, <5>1, <5>2 DEF SilentIn
        <5>3. CASE p # i
          BY <2>8, <3>1, <4>1, <5>1, <5>3
        <5> QED
          BY <5>2, <5>3
      <4> QED
        BY <4>2 DEF SecondOK
    <3> QED
      BY <3>2, <3>3
  <2> QED
    BY <1>5, <2>2, <2>3, <2>4, <2>5, <2>9
<1>7. CASE ~idleSinceLastToken[i]
  <2>1. PICK d, m : d = <<i, h.terminator>> /\ m = Token(i, h.terminator, "CANCEL_CYCLE")
    OBVIOUS
  <2>2. d \in Channel /\ m \in Message /\ m.type = "token" /\ m.state = "CANCEL_CYCLE"
    BY <1>3, <2>1, TokenType DEF ControlStates, Channel
  <2>3. chan' = [ch EXCEPT ![d] = Append(@, m)]
    BY <1>1, <1>7, <2>1 DEF SlaveGetsToken, Send
  <2> QED
    BY <1>5, <2>2, <2>3
<1> QED
  BY <1>6, <1>7

LEMMA TerminatorGetsTokenRing ==
  ASSUME DetectionInv, RingParts, NEW i \in SM, NEW j \in SM, TerminatorGetsToken(i, j)
  PROVE  RingParts'
<1>1. PICK h, ch : h = Head(chan[<<j, i>>]) /\ ch = [chan EXCEPT ![<<j, i>>] = Tail(@)]
  OBVIOUS
<1>2. TokenAt(i, j, {"FIRST_CYCLE", "SECOND_CYCLE"}) /\ amTerminator(i) /\ TokenHandled(i)
  BY DEF TerminatorGetsToken
<1>3. /\ Learns(ch, h.terminator, j, i, h.state) /\ ~Complete /\ NoControl(ch)
      /\ h.terminator \in SM /\ h.state \in {"FIRST_CYCLE", "SECOND_CYCLE"}
      /\ amTerminator(i) <=> i = h.terminator
      /\ ch \in [Channel -> Seq(Message)] /\ Settled(ch)
  BY <1>1, <1>2, CycleTokenRead
<1>4. AtRest' /\ UNCHANGED work /\ TypeOK
  BY <1>2, HandledRest DEF DetectionInv
<1>5. i = h.terminator /\ i = Peer(j) /\ \A p \in SM : Hops(i, p) <= Hops(i, j)
  <2>1. i = h.terminator /\ i = Peer(j)
    BY <1>2, <1>3 DEF Learns
  <2>2. Hops(i, j) = N - 1 /\ \A p \in SM : Hops(i, p) \in 0 .. N - 1
    BY <2>1, Ring
  <2> QED
    BY <2>1, <2>2, NAssumption
<1>6. CASE CancelCycle(i, ch)
  <2>1. chan' = ch /\ UNCHANGED completeFlag
    BY <1>6 DEF CancelCycle
  <2>2. CycleOK' /\ Settled(chan') /\ ~Complete'
    BY <1>3, <2>1, CycleNone DEF Complete
  <2> QED
    BY <1>4, <2>2 DEF RingParts, Settled
<1>7. CASE /\ h.state = "FIRST_CYCLE"
           /\ chan' = Send(ch, i, Peer(i), Token(i, i, "SECOND_CYCLE"))
           /\ UNCHANGED <<terminatorStatus, completeFlag>>
  <2>1. PICK d, m : d = Link(i) /\ m = Token(i, i, "SECOND_CYCLE")
    OBVIOUS
  <2>2. d \in Channel /\ d[1] = i /\ m \in Message /\ m.type = "token" /\ m.state = "SECOND_CYCLE" /\ m.terminator = i
    <3>1. d \in Channel /\ d[1] = i
      BY <2>1, Ring
    <3>2. "SECOND_CYCLE" \in ControlStates \cup {"SIMULATION_COMPLETE"}
      BY DEF ControlStates
    <3> QED
      BY <2>1, <3>1, <3>2, TokenType
  <2>3. Longer(ch, chan', d, m)
    BY <1>3, <1>7, <2>1, <2>2, SendLonger DEF Send, Link
  <2>4. OnlyLast(chan', d, m) /\ Settled(chan') /\ ~Complete'
    BY <1>3, <1>7, <2>2, <2>3, TokenSent, SettledSent DEF Complete
  <2>5. PICK last : last = Len(chan'[d])
    OBVIOUS
  <2>6. /\ \A p \in SM : p # i /\ SilentIn(ch, p) => Silent(p, i, last)'
        /\ Silent(i, i, last)'
    BY <1>2, <1>4, <2>1, <2>2, <2>3, <2>5, SilentNext
  <2>7. \A p \in SM : p # i => SilentIn(ch, p)
    BY <1>3, <1>5, <1>7 DEF Learns
  <2>8. \A p \in SM : Hops(i, p) <= Hops(i, i) => p = i
    <3>1. \A p \in SM : Hops(i, p) \in Nat /\ (Hops(i, p) = 0 <=> i = p)
      BY Ring
    <3> QED
      BY <3>1
  <2>9. SecondOK(i, i, last)'
    BY <2>6, <2>7, <2>8 DEF SecondOK
  <2>10. CycleOK'
    BY <2>1, <2>2, <2>4, <2>5, <2>9, CycleNew DEF SecondOK, Silent
  <2> QED
    BY <1>4, <2>4, <2>10 DEF RingParts, Settled
<1>8. CASE idleSinceLastToken[i] /\ h.state = "SECOND_CYCLE" /\ DeclareComplete(i, ch)
  <2>1. PICK d, m : d = Link(i) /\ m = Token(i, i, "SIMULATION_COMPLETE")
    OBVIOUS
  <2>2. d \in Channel /\ m \in Message /\ m.type = "token" /\ m.state = "SIMULATION_COMPLETE"
    BY <2>1, Ring, TokenType
  <2>3. Longer(ch, chan', d, m)
    BY <1>3, <1>8, <2>1, <2>2, SendLonger DEF DeclareComplete, Send, Link
  <2>4. OnlyLast(chan', d, m) /\ Settled(chan')
    BY <1>3, <2>2, <2>3, TokenSent, SettledSent
  <2>5. CycleOK'
    BY <2>2, <2>4, CycleNew
  <2>6. \A p \in SM : status[p] = "IDLE" /\ NoEventAfter(ch[Link(p)], 0)
    BY <1>3, <1>5, <1>8 DEF Learns, SilentIn
  <2>7. \A c \in Channel : NoEventAfter(ch[c], 0)
    <3>1. \A c \in Channel : c[1] \in SM
      BY DEF Channel
    <3> QED
      BY <1>3, <2>6, <3>1 DEF Settled, EventsOnRing
  <2>8. \A c \in Channel : NoEventAfter(chan'[c], 0)
    <3>1. \A e \in Channel : \A k \in Nat : NoEventAfter(ch[e], k) => NoEventAfter(chan'[e], k)
      BY <2>2, <2>3, SentEvents
    <3> QED
      BY <2>7, <3>1
  <2>9. NothingLeft(work, chan')
    BY <2>6, <2>8 DEF RingParts, AtRest, NothingLeft
  <2> QED
    BY <1>4, <2>4, <2>5, <2>9 DEF RingParts, Settled
<1> QED
  BY <1>1, <1>6, <1>7, <1>8 DEF TerminatorGetsToken

\* The other tokens start no cycle.
LEMMA OtherTokenRing ==
  ASSUME DetectionInv, RingParts, NEW i \in SM, NEW j \in SM,
         RetireTerminator(i, j) \/ BecomeTerminator(i, j)
  PROVE  RingParts'
<1>1. PICK h, ch : h = Head(chan[<<j, i>>]) /\ ch = [chan EXCEPT ![<<j, i>>] = Tail(@)]
  OBVIOUS
<1>2. PICK S \in SUBSET ControlStates : TokenAt(i, j, S)
  BY DEF RetireTerminator, BecomeTerminator, ControlStates
<1>3. TokenHandled(i) /\ UNCHANGED completeFlag
  BY DEF RetireTerminator, BecomeTerminator
<1>4. ~Complete /\ NoControl(ch) /\ h.from \in SM
  BY <1>1, <1>2, ControlRead
<1>5. <<j, i>> \in Channel /\ Shorter(chan, ch, <<j, i>>) /\ ch \in [Channel -> Seq(Message)]
  BY <1>1, <1>2, Reading DEF TokenAt, DetectionInv
<1>6. Settled(ch)
  BY <1>5, SettledTaken DEF RingParts, Settled
<1>7. AtRest' /\ UNCHANGED work /\ ~Complete'
  BY <1>3, <1>4, HandledRest DEF Complete
<1>8. CASE RetireTerminator(i, j)
  <2>1. PICK d, m : d = <<i, h.from>> /\ m = Token(i, h.from, "BECOME_TERMINATOR")
    OBVIOUS
  <2>2. d \in Channel /\ m \in Message /\ m.type = "token" /\ m.state = "BECOME_TERMINATOR"
    BY <1>4, <2>1, TokenType DEF ControlStates, Channel
  <2>3. Longer(ch, chan', d, m)
    BY <1>1, <1>5, <1>8, <2>1, <2>2, SendLonger DEF RetireTerminator, Send
  <2>4. OnlyLast(chan', d, m) /\ Settled(chan')
    BY <1>4, <1>6, <2>2, <2>3, TokenSent, SettledSent
  <2>5. CycleOK'
    BY <2>2, <2>4, CycleNew
  <2> QED
    BY <1>7, <2>4, <2>5 DEF RingParts, Settled
<1>9. CASE BecomeTerminator(i, j)
  <2>1. chan' = ch
    BY <1>1, <1>9 DEF BecomeTerminator
  <2>2. CycleOK'
    BY <1>4, <2>1, CycleNone
  <2> QED
    BY <1>6, <1>7, <2>1, <2>2 DEF RingParts, Settled
<1> QED
  BY <1>8, <1>9

LEMMA ReceiveCompleteRing ==
  ASSUME DetectionInv, RingParts, NEW i \in SM, NEW j \in SM, ReceiveComplete(i, j)
  PROVE  RingParts'
<1>1. PICK ch : ch = [chan EXCEPT ![<<j, i>>] = Tail(@)]
  OBVIOUS
<1>2. TypeOK /\ DetectionParts /\ TokenAt(i, j, {"SIMULATION_COMPLETE"}) /\ CanRead(i, j) /\ TokenHandled(i)
  BY DEF DetectionInv, DetectionParts, ReceiveComplete, TokenAt
<1>3. PICK c : c = <<j, i>>
  OBVIOUS
<1>4. /\ c \in Channel /\ Shorter(chan, ch, c) /\ ch \in [Channel -> Seq(Message)]
      /\ Head(chan[c]) = chan[c][1] /\ 1 \in 1 .. Len(chan[c])
  BY <1>1, <1>2, <1>3, Reading
<1>5. IsToken(c, 1, {"SIMULATION_COMPLETE"})
  BY <1>2, <1>3, <1>4 DEF TokenAt, IsToken
<1>6. Complete
  BY <1>2, <1>4, <1>5 DEF DetectionParts, Roles
<1>7. \A e \in Channel : \A k \in Nat : ~Control(e, k)
  BY <1>2, <1>6 DEF DetectionParts, RightKept
<1>8. NoControl(ch)
  BY <1>2, <1>4, <1>7, TokenTaken DEF DetectionParts
<1>9. Settled(ch)
  BY <1>4, SettledTaken DEF RingParts, Settled
<1>10. AtRest' /\ UNCHANGED work
  BY <1>2, HandledRest
<1>11. CASE chan' = ch
  <2>1. CycleOK'
    BY <1>8, <1>11, CycleNone
  <2> QED
    BY <1>6, <1>9, <1>10, <1>11, <2>1 DEF RingParts, Settled
<1>12. CASE DeclareComplete(i, ch)
  <2>1. PICK d, m : d = Link(i) /\ m = Token(i, i, "SIMULATION_COMPLETE")
    OBVIOUS
  <2>2. d \in Channel /\ m \in Message /\ m.type = "token" /\ m.state = "SIMULATION_COMPLETE"
    BY <2>1, Ring, TokenType
  <2>3. Longer(ch, chan', d, m)
    BY <1>4, <1>12, <2>1, <2>2, SendLonger DEF DeclareComplete, Send, Link
  <2>4. OnlyLast(chan', d, m) /\ Settled(chan')
    BY <1>8, <1>9, <2>2, <2>3, TokenSent, SettledSent
  <2>5. CycleOK'
    BY <2>2, <2>4, CycleNew
  <2> QED
    BY <1>6, <1>10, <2>4, <2>5 DEF RingParts, Settled
<1> QED
  BY <1>1, <1>11, <1>12 DEF ReceiveComplete

-----------------------------------------------------------------------------
(* The theorem *)

LEMMA RingInitial ==
  ASSUME StartsActive, Init
  PROVE  RingParts
<1>1. \A c \in Channel : chan[c] = <<>>
  BY DEF Init, Channel
<1>2. \A i \in SM : status[i] = "ACTIVE"
  BY DEF Init, StartsActive
<1>3. ~Complete
  BY DEF Init, Complete
<1>4. CycleOK
  BY <1>1 DEF CycleOK, IsToken
<1>5. AtRest
  BY <1>2 DEF AtRest
<1>6. EventsOnRing(chan)
  BY <1>1 DEF EventsOnRing, NoEventAfter
<1> QED
  BY <1>3, <1>4, <1>5, <1>6 DEF RingParts

LEMMA RingPreserved ==
  ASSUME AlongTheRing, RingInv, [Next]_vars
  PROVE  RingInv'
<1>1. DetectionInv /\ RingParts /\ DetectionInv'
  BY DetectionPreserved DEF RingInv
<1> SUFFICES RingParts'
  BY <1>1 DEF RingInv
<1>2. ASSUME NEW i \in SM, Loop(i) PROVE RingParts'
  BY <1>1, <1>2, LoopHeadRing, StopPollingRing, ExecuteEventRing, ExecuteObjectsReturnsRing DEF Loop
<1>3. ASSUME NEW i \in SM, NEW j \in SM, Receive(i, j) PROVE RingParts'
  BY <1>1, <1>3, ReceiveEventRing, TerminatorGetsTokenRing, SlaveGetsTokenRing, OtherTokenRing,
     ReceiveCompleteRing DEF Receive
<1>4. CASE UNCHANGED vars
  <2>1. UNCHANGED <<chan, status, idleSinceLastToken, work, pc, had, completeFlag>>
    BY <1>4 DEF vars, termVars, loopVars
  <2>2. CycleOK'
    BY <1>1, <2>1, CycleSame DEF DetectionInv, StillSilent
  <2>3. AtRest'
    BY <1>1, <2>1 DEF RingParts, AtRest
  <2>4. Complete' => Complete
    BY <2>1 DEF Complete
  <2>5. EventsOnRing(chan') /\ (Complete => NothingLeft(work', chan'))
    BY <1>1, <2>1 DEF RingParts
  <2> QED
    BY <2>2, <2>3, <2>4, <2>5 DEF RingParts
<1>5. CASE Next
  <2>1. PICK i \in SM : Loop(i) \/ \E j \in SM : Receive(i, j)
    BY <1>5 DEF Next
  <2> QED
    BY <1>2, <1>3, <2>1
<1> QED
  BY <1>4, <1>5

\* When events travel along the ring and every manager starts ACTIVE, the
\* simulationCompleteFlag is raised nowhere while a manager has an event or one is
\* travelling: for every number of managers, however the visits of the two cycles of
\* the token fall among executions, receptions and changes of the terminator.
THEOREM NeverPremature ==
  ASSUME AlongTheRing, StartsActive
  PROVE  Spec => []NoPrematureCompletion
<1>1. Init => RingInv
  BY DetectionInitial, RingInitial DEF RingInv
<1>2. RingInv /\ [Next]_vars => RingInv'
  BY RingPreserved
<1>3. ASSUME RingInv PROVE NoPrematureCompletion
  <2>1. TypeOK /\ (Complete => NothingLeft(work, chan))
    BY <1>3 DEF RingInv, RingParts, DetectionInv
  <2>2. ASSUME Complete, NEW c \in Channel PROVE EventMsg \notin Range(chan[c])
    <3>1. NoEventAfter(chan[c], 0) /\ chan[c] \in Seq(Message)
      BY <2>1, <2>2 DEF NothingLeft, TypeOK, Channel
    <3>2. \A l \in 1 .. Len(chan[c]) : chan[c][l] # EventMsg
      BY <3>1, EventType DEF NoEventAfter
    <3> QED
      BY <3>1, <3>2 DEF Range
  <2> QED
    BY <2>1, <2>2 DEF NoPrematureCompletion, Quiet, NothingLeft, Complete, Channel
<1> QED
  BY <1>1, <1>2, <1>3, PTL DEF Spec
=============================================================================
