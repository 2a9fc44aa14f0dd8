--------------------------- MODULE TimeWarpProofs ---------------------------
(* Rollback, coast forward and fossil collection keep the state of every      *)
(* object true, and never take global time back; aggressive cancellation      *)
(* leaves no orphan: whatever is executed has been sent by an execution that  *)
(* stands, and below global virtual time the run is the sequential one.  All  *)
(* for every number of managers and objects, every placement, every state     *)
(* period and every application that schedules into the future.               *)
EXTENDS TimeWarp, FiniteSetTheorems, WellFoundedInduction, TLAPS

Events(S) == \A e \in S : EventOK(e)

\* An application, whatever events have made the state of an object, schedules
\* finitely many events, for objects there are, after the present time.
AppOK ==
    \A o \in Object : \A t \in Times : \A S : Events(S) =>
        /\ IsFiniteSet(App(o, t, S))
        /\ \A c \in App(o, t, S) : c = Content(c) /\ c.dst \in Object /\ c.recv \in (t + 1)..MaxTime

-----------------------------------------------------------------------------
(* The inductive invariant *)

\* What a manager keeps for an object is a record.
Record(u, p, q, ss, k, st, l) ==
    [unprocessed |-> u, processed |-> p, outputs |-> q, states |-> ss,
     periodCounter |-> k, state |-> st, lvt |-> l]

Shape(ob) == \E u, p, q, ss, k, st, l : ob = Record(u, p, q, ss, k, st, l)

\* The events an object o has, C being those given back.
EventsOK(o, ob, C) ==
    /\ \A e \in ob.unprocessed : EventOK(e) /\ e.dst = o
    /\ \A e \in ob.processed : EventOK(e) /\ e.dst = o
    /\ \A e \in C : EventOK(e) /\ e.dst = o
    /\ \A e \in ob.outputs : EventOK(e) /\ e.src = o

CountersOK(ob) == ob.periodCounter \in 0..StatePeriod /\ ob.lvt \in Times

\* What is done lies before what is not, and the time of the object between them.
Ordered(ob, C) ==
    /\ \A d \in ob.processed \cup C : d.recv <= ob.lvt
    /\ \A u \in ob.unprocessed : ob.lvt <= u.recv
    /\ \A d \in ob.processed \cup C : \A u \in ob.unprocessed : d.recv < u.recv

\* The saved states are true ones, and nothing after them has been given back.
SavedOK(ob, C) ==
    \A s \in ob.states :
        /\ s.time \in Times /\ s.time <= ob.lvt
        /\ s.state = {d \in ob.processed \cup C : d.recv < s.time}
        /\ \A d \in C : d.recv < s.time

ObjectOK(o, ob, C) ==
    /\ Shape(ob) /\ EventsOK(o, ob, C) /\ CountersOK(ob)
    /\ Ordered(ob, C) /\ SavedOK(ob, C)
    /\ ob.state = ob.processed \cup C

\* The object can go back to g, and to any later time.
CanRestore(ob, g) == g = Inf \/ \E s \in ob.states : s.time <= g

\* Messages travel to the manager of the objects they are for.
ChannelOK(s, n) ==
    /\ s \in Seq(Range(s))
    /\ \A x \in Range(s) :
          /\ x.type \in {"event", "negative"}
          /\ \A e \in x.events : EventOK(e) /\ Home[e.dst] = n

ChannelsOK(ch) ==
    /\ DOMAIN ch = Manager \X Manager
    /\ \A c \in Manager \X Manager : ChannelOK(ch[c], c[2])

ObjectsOK(objs, com, gv) ==
    /\ DOMAIN objs = Object
    /\ \A o \in Object : ObjectOK(o, objs[o], com[o]) /\ CanRestore(objs[o], gv[Home[o]])

\* Nothing that waits or travels is earlier than b.
WaitAfter(b, objs) == \A o \in Object : \A e \in objs[o].unprocessed : b <= e.recv
TravelAfter(b, ch) ==
    \A c \in Manager \X Manager : \A x \in Range(ch[c]) : \A e \in x.events : b <= e.recv

KernelInv ==
    /\ ObjectsOK(obj, committed, gvt)
    /\ DOMAIN committed = Object
    /\ ChannelsOK(chan)
    /\ gvt \in [Manager -> Times \cup {Inf}]
    /\ \A m \in Manager : WaitAfter(gvt[m], obj) /\ TravelAfter(gvt[m], chan)

-----------------------------------------------------------------------------
(* One object *)

LEMMA TimesAreNat == Times \subseteq Nat /\ Inf \in Nat /\ (\A t \in Times : t < Inf) /\ 0 \in Times
BY BoundAssumption DEF Times, Inf

LEMMA RollbackTimes == \A t \in Times \cup {Inf} : t \in Nat /\ t <= Inf /\ t < Inf + 1
BY BoundAssumption DEF Times, Inf

LEMMA SaveStateFields ==
  ASSUME NEW ob, Shape(ob), NEW t, CountersOK(ob)
  PROVE  LET sv == SaveState(ob, t) IN
         /\ Shape(sv) /\ CountersOK(sv)
         /\ sv.unprocessed = ob.unprocessed /\ sv.processed = ob.processed
         /\ sv.outputs = ob.outputs /\ sv.state = ob.state /\ sv.lvt = ob.lvt
         /\ sv.states = ob.states \/ sv.states = ob.states \cup {[time |-> t, state |-> ob.state]}
<1> DEFINE sv == SaveState(ob, t)
<1>1. PICK u, p, q, ss, k, st, l : ob = Record(u, p, q, ss, k, st, l)
  BY DEF Shape
<1>2. CASE ob.periodCounter <= 0
  <2>1. sv = Record(u, p, q, ss \cup {[time |-> t, state |-> st]}, StatePeriod, st, l)
    BY <1>1, <1>2 DEF SaveState, Record
  <2>2. Shape(sv)
    BY <2>1 DEF Shape
  <2> QED
    BY <1>1, <2>1, <2>2, BoundAssumption DEF CountersOK, Record
<1>3. CASE ~(ob.periodCounter <= 0)
  <2>1. sv = Record(u, p, q, ss, k - 1, st, l)
    BY <1>1, <1>3 DEF SaveState, Record
  <2>2. Shape(sv)
    BY <2>1 DEF Shape
  <2> QED
    BY <1>1, <1>3, <2>1, <2>2, BoundAssumption DEF CountersOK, Record
<1> QED
  BY <1>2, <1>3

LEMMA ExecutedFields ==
  ASSUME NEW ob, Shape(ob), NEW t
  PROVE  LET ex == Executed(ob, t)
             now == {e \in ob.unprocessed : e.recv = t} IN
         /\ Shape(ex)
         /\ ex.unprocessed = ob.unprocessed \ now /\ ex.processed = ob.processed \cup now
         /\ ex.outputs = ob.outputs /\ ex.states = ob.states /\ ex.state = ob.state \cup now
         /\ ex.periodCounter = ob.periodCounter /\ ex.lvt = t
<1> DEFINE ex == Executed(ob, t)
           now == {e \in ob.unprocessed : e.recv = t}
<1>1. PICK u, p, q, ss, k, st, l : ob = Record(u, p, q, ss, k, st, l)
  BY DEF Shape
<1>0. ex = [ob EXCEPT !.lvt = t, !.state = @ \cup now,
                       !.unprocessed = @ \ now, !.processed = @ \cup now]
  BY DEF Executed
<1> HIDE DEF now, ex
<1>2. ex = Record(u \ now, p \cup now, q, ss, k, st \cup now, t)
  BY <1>0, <1>1 DEF Record
<1>3. Shape(ex)
  BY <1>2 DEF Shape
<1>4. /\ Shape(ex)
      /\ ex.unprocessed = ob.unprocessed \ now /\ ex.processed = ob.processed \cup now
      /\ ex.outputs = ob.outputs /\ ex.states = ob.states /\ ex.state = ob.state \cup now
      /\ ex.periodCounter = ob.periodCounter /\ ex.lvt = t
  BY <1>1, <1>2, <1>3 DEF Record
<1> QED
  BY <1>4 DEF now, ex

Sent(ob, out) == [ob EXCEPT !.outputs = @ \cup out]

LEMMA SentFields ==
  ASSUME NEW ob, Shape(ob), NEW out
  PROVE  LET sn == Sent(ob, out) IN
         /\ Shape(sn)
         /\ sn.unprocessed = ob.unprocessed /\ sn.processed = ob.processed
         /\ sn.outputs = ob.outputs \cup out /\ sn.states = ob.states /\ sn.state = ob.state
         /\ sn.periodCounter = ob.periodCounter /\ sn.lvt = ob.lvt
<1> DEFINE sn == Sent(ob, out)
<1>1. PICK u, p, q, ss, k, st, l : ob = Record(u, p, q, ss, k, st, l)
  BY DEF Shape
<1>2. sn = Record(u, p, q \cup out, ss, k, st, l)
  <2>1. ob.outputs \cup out = q \cup out
    BY <1>1 DEF Record
  <2>2. \A Q : [Record(u, p, q, ss, k, st, l) EXCEPT !.outputs = Q] = Record(u, p, Q, ss, k, st, l)
    BY DEF Record
  <2>3. sn = [Record(u, p, q, ss, k, st, l) EXCEPT !.outputs = q \cup out]
    BY <1>1, <2>1 DEF Sent
  <2> QED
    BY <2>2, <2>3
<1>3. Shape(sn)
  BY <1>2 DEF Shape
<1> HIDE DEF sn
<1>4. /\ Shape(sn)
      /\ sn.unprocessed = ob.unprocessed /\ sn.processed = ob.processed
      /\ sn.outputs = ob.outputs \cup out /\ sn.states = ob.states /\ sn.state = ob.state
      /\ sn.periodCounter = ob.periodCounter /\ sn.lvt = ob.lvt
  BY <1>1, <1>2, <1>3 DEF Record
<1> QED
  BY <1>4 DEF sn

\* What the queues of an object look like with other unprocessed events.
LEMMA WaitingFields ==
  ASSUME NEW ob, Shape(ob), NEW U
  PROVE  LET w == [ob EXCEPT !.unprocessed = U] IN
         /\ Shape(w)
         /\ w.unprocessed = U /\ w.processed = ob.processed
         /\ w.outputs = ob.outputs /\ w.states = ob.states /\ w.state = ob.state
         /\ w.periodCounter = ob.periodCounter /\ w.lvt = ob.lvt
<1> DEFINE w == [ob EXCEPT !.unprocessed = U]
<1>1. PICK u, p, q, ss, k, st, l : ob = Record(u, p, q, ss, k, st, l)
  BY DEF Shape
<1>2. w = Record(U, p, q, ss, k, st, l)
  BY <1>1 DEF Record
<1>3. Shape(w)
  BY <1>2 DEF Shape
<1> HIDE DEF w
<1>4. /\ Shape(w)
      /\ w.unprocessed = U /\ w.processed = ob.processed
      /\ w.outputs = ob.outputs /\ w.states = ob.states /\ w.state = ob.state
      /\ w.periodCounter = ob.periodCounter /\ w.lvt = ob.lvt
  BY <1>1, <1>2, <1>3 DEF Record
<1> QED
  BY <1>4 DEF w

\* Least and greatest elements.
LEMMA MinIsLeast ==
  ASSUME NEW S \in SUBSET Nat, S # {}
  PROVE  Min(S) \in S /\ \A x \in S : Min(S) <= x
<1>1. PICK x \in S : \A y \in S : ~(<<y, x>> \in OpToRel(<, Nat))
  BY WFMin, NatLessThanWellFounded
<1>2. ASSUME NEW y \in S PROVE x <= y
  <2>1. x \in Nat /\ y \in Nat
    OBVIOUS
  <2>2. y < x => <<y, x>> \in OpToRel(<, Nat)
    BY <2>1, Zenon DEF OpToRel
  <2>3. ~(y < x)
    BY <1>1, <2>2, Zenon
  <2> QED
    BY <2>1, <2>3
<1> QED
  BY <1>2 DEF Min

LEMMA MaxIsGreatest ==
  ASSUME NEW S \in SUBSET Times, S # {}
  PROVE  Max(S) \in S /\ \A x \in S : x <= Max(S)
<1> DEFINE D == {MaxTime - x : x \in S}
<1>1. D \in SUBSET Nat /\ D # {}
  <2>1. ASSUME NEW x \in S PROVE MaxTime - x \in Nat
    <3>1. x \in Times
      OBVIOUS
    <3> QED
      BY <3>1, BoundAssumption DEF Times
  <2> QED
    BY <2>1
<1>2. PICK d \in D : \A y \in D : d <= y
  BY <1>1, MinIsLeast
<1>3. PICK x \in S : d = MaxTime - x
  OBVIOUS
<1>4. \A y \in S : MaxTime - y \in D
  OBVIOUS
<1>5. ASSUME NEW y \in S PROVE y <= x
  <2>1. MaxTime - x <= MaxTime - y
    BY <1>2, <1>3, <1>4
  <2>2. x \in Times /\ y \in Times
    OBVIOUS
  <2> QED
    BY <2>1, <2>2, BoundAssumption DEF Times
<1> QED
  BY <1>5 DEF Max

\* restoreState() finds the last state that is not later than r.
LEMMA RestoredState ==
  ASSUME NEW ob, NEW C, SavedOK(ob, C), NEW r \in Nat, \E s \in ob.states : s.time <= r
  PROVE  LET kept == StatesAfterRestore(ob.states, r)
             restored == CHOOSE s \in kept : s.time = LastTime(kept) IN
         /\ restored \in kept /\ kept \subseteq ob.states
         /\ restored.time \in Times /\ restored.time <= r
         /\ \A s \in kept : s.time <= restored.time
         /\ \A s \in ob.states : s.time <= r => s \in kept
<1> DEFINE kept == StatesAfterRestore(ob.states, r)
           restored == CHOOSE s \in kept : s.time = LastTime(kept)
           T == {s.time : s \in kept}
<1>1. kept \subseteq ob.states /\ \A s \in ob.states : s.time <= r => s \in kept
  BY DEF StatesAfterRestore
<1>2. \A s \in ob.states : s.time \in Times /\ s.time \in Nat
  BY TimesAreNat DEF SavedOK
<1>3. PICK x \in ob.states : x.time <= r
  OBVIOUS
<1>4. \A s \in kept : s.time <= r
  <2> SUFFICES ASSUME NEW s \in kept PROVE s.time <= r
    OBVIOUS
  <2>1. s.time <= r \/ s.time <= x.time
    BY DEF StatesAfterRestore
  <2> QED
    BY <1>1, <1>2, <1>3, <2>1
<1>5. T \in SUBSET Times /\ T # {}
  BY <1>1, <1>2, <1>3
<1>6. Max(T) \in T /\ \A t \in T : t <= Max(T)
  BY <1>5, MaxIsGreatest
<1>7. LastTime(kept) = Max(T)
  BY DEF LastTime
<1> HIDE DEF kept
<1>8. \E s \in kept : s.time = LastTime(kept)
  BY <1>6, <1>7
<1>9. restored \in kept /\ restored.time = LastTime(kept)
  BY <1>8
<1>10. \A s \in kept : s.time <= restored.time
  BY <1>6, <1>7, <1>9
<1> HIDE DEF restored
<1>11. /\ restored \in kept /\ kept \subseteq ob.states
       /\ restored.time \in Times /\ restored.time <= r
       /\ \A s \in kept : s.time <= restored.time
       /\ \A s \in ob.states : s.time <= r => s \in kept
  BY <1>1, <1>2, <1>4, <1>9, <1>10
<1> QED
  BY <1>11 DEF kept, restored

\* The parts of an object that is rolled back, written out.
RolledBack(ob, r, kept, restored, coast) ==
    Record((ob.unprocessed \cup {e \in ob.processed : e.recv >= restored.time}) \ coast,
           {e \in ob.processed : e.recv < restored.time} \cup coast,
           {e \in ob.outputs : e.send < r},
           kept, ob.periodCounter, restored.state \cup coast,
           Max({restored.time} \cup {e.recv : e \in coast}))

LEMMA RollbackFields ==
  ASSUME NEW ob, NEW r, ~(r > ob.lvt)
  PROVE  LET kept     == StatesAfterRestore(ob.states, r)
             restored == CHOOSE s \in kept : s.time = LastTime(kept)
             coast == {e \in ob.unprocessed \cup {e \in ob.processed : e.recv >= restored.time} :
                          e.recv < r}
         IN  RollbackObject(ob, r) = RolledBack(ob, r, kept, restored, coast)
BY DEF RollbackObject, RolledBack, Record

LEMMA RecordFields ==
  ASSUME NEW a1, NEW a2, NEW a3, NEW a4, NEW a5, NEW a6, NEW a7
  PROVE  LET rc == Record(a1, a2, a3, a4, a5, a6, a7) IN
         /\ Shape(rc) /\ rc.unprocessed = a1 /\ rc.processed = a2 /\ rc.outputs = a3
         /\ rc.states = a4 /\ rc.periodCounter = a5 /\ rc.state = a6 /\ rc.lvt = a7
<1>1. Shape(Record(a1, a2, a3, a4, a5, a6, a7))
  BY DEF Shape
<1> QED
  BY <1>1 DEF Record

\* An object that is rolled back to r: nothing done from r on, and all of it waiting.
\* Which events are where after object ob has been rolled back to r.
RollsTo(ob, r, rb) ==
    /\ \A e : e \in rb.processed <=> e \in ob.processed /\ e.recv < r
    /\ \A e : e \in rb.unprocessed <=> e \in ob.unprocessed \/ (e \in ob.processed /\ e.recv >= r)
    /\ \A e : e \in rb.outputs <=> e \in ob.outputs /\ (r > ob.lvt \/ e.send < r)

LEMMA RollbackOK ==
  ASSUME NEW o, NEW ob, NEW C, ObjectOK(o, ob, C), NEW r \in Nat,
         r <= ob.lvt => \E s \in ob.states : s.time <= r
  PROVE  LET rb == RollbackObject(ob, r) IN
         /\ ObjectOK(o, rb, C)
         /\ \A d \in rb.processed \cup C : d.recv < r
         /\ rb.lvt <= r
         /\ \A u \in rb.unprocessed : u \in ob.unprocessed \/ u.recv >= r
         /\ \A g \in Nat : g <= r /\ CanRestore(ob, g) => CanRestore(rb, g)
         /\ RollsTo(ob, r, rb)
<1> DEFINE rb == RollbackObject(ob, r)
<1>0. ob.lvt \in Nat /\ ob.lvt \in Times
  BY TimesAreNat DEF ObjectOK, CountersOK
<1>00. /\ \A d \in ob.processed \cup C : d.recv \in Times /\ d.recv \in Nat
       /\ \A u \in ob.unprocessed : u.recv \in Times /\ u.recv \in Nat
  BY TimesAreNat DEF ObjectOK, EventsOK, EventOK
<1>1. CASE r > ob.lvt
  <2>1. rb = ob
    BY <1>1 DEF RollbackObject
  <2>2. \A d \in ob.processed \cup C : d.recv < r
    BY <1>0, <1>00, <1>1 DEF ObjectOK, Ordered
  <2>3. RollsTo(ob, r, ob)
    BY <1>00, <1>1, <2>2 DEF RollsTo
  <2> QED
    BY <1>0, <1>1, <2>1, <2>2, <2>3
<1>2. CASE ~(r > ob.lvt)
  <2> DEFINE kept     == StatesAfterRestore(ob.states, r)
             restored == CHOOSE s \in kept : s.time = LastTime(kept)
             coast == {e \in ob.unprocessed \cup {e \in ob.processed : e.recv >= restored.time} :
                          e.recv < r}
  <2>1. rb = RolledBack(ob, r, kept, restored, coast)
    BY <1>2, RollbackFields
  <2>2. \E s \in ob.states : s.time <= r
    BY <1>0, <1>2
  <2>3. SavedOK(ob, C)
    BY DEF ObjectOK
  <2>4. /\ restored \in kept /\ kept \subseteq ob.states
        /\ restored.time \in Times /\ restored.time <= r
        /\ \A s \in kept : s.time <= restored.time
        /\ \A s \in ob.states : s.time <= r => s \in kept
    BY <2>2, <2>3, RestoredState
  <2> HIDE DEF rb, kept, restored
  <2>5. coast = {e \in ob.processed : e.recv >= restored.time /\ e.recv < r}
    <3>1. \A u \in ob.unprocessed : ~(u.recv < r)
      BY <1>0, <1>00, <1>2 DEF ObjectOK, Ordered
    <3> QED
      BY <3>1
  <2> HIDE DEF coast
  <2>6. /\ Shape(rb)
        /\ rb.unprocessed = (ob.unprocessed \cup {e \in ob.processed : e.recv >= restored.time}) \ coast
        /\ rb.processed = {e \in ob.processed : e.recv < restored.time} \cup coast
        /\ rb.outputs = {e \in ob.outputs : e.send < r}
        /\ rb.states = kept /\ rb.periodCounter = ob.periodCounter
        /\ rb.state = restored.state \cup coast
        /\ rb.lvt = Max({restored.time} \cup {e.recv : e \in coast})
    BY <2>1, RecordFields DEF RolledBack
  <2>7. rb.processed = {e \in ob.processed : e.recv < r}
    <3>1. ASSUME NEW e \in ob.processed
          PROVE  e.recv < r <=> (e.recv < restored.time \/ (e.recv >= restored.time /\ e.recv < r))
      <4>1. e.recv \in Nat /\ restored.time \in Nat /\ restored.time <= r
        BY <1>00, <2>4, TimesAreNat
      <4> QED
        BY <4>1
    <3> QED
      BY <2>5, <2>6, <3>1
  <2>8. rb.unprocessed = ob.unprocessed \cup {e \in ob.processed : e.recv >= r}
    <3>1. ASSUME NEW e \in ob.processed
          PROVE  e.recv >= r <=> (e.recv >= restored.time /\ ~(e.recv < r))
      <4>1. e.recv \in Nat /\ restored.time \in Nat /\ restored.time <= r
        BY <1>00, <2>4, TimesAreNat
      <4> QED
        BY <4>1
    <3>2. \A u \in ob.unprocessed : u \notin coast
      <4>1. \A u \in ob.unprocessed : ~(u.recv < r)
        BY <1>0, <1>00, <1>2 DEF ObjectOK, Ordered
      <4> QED
        BY <2>5, <4>1
    <3> QED
      BY <2>5, <2>6, <3>1, <3>2
  <2>9. /\ rb.lvt \in Times /\ rb.lvt \in Nat /\ rb.lvt <= r
        /\ \A s \in kept : s.time <= rb.lvt
        /\ \A e \in coast : e.recv <= rb.lvt
        /\ restored.time <= rb.lvt
    <3> DEFINE T == {restored.time} \cup {e.recv : e \in coast}
    <3>1. T \in SUBSET Times /\ T # {} /\ restored.time \in T /\ \A e \in coast : e.recv \in T
      BY <1>00, <2>4, <2>5
    <3>2. \A t \in T : t <= r
      BY <1>00, <2>4, <2>5, TimesAreNat
    <3>3. Max(T) \in T /\ \A t \in T : t <= Max(T)
      BY <3>1, MaxIsGreatest
    <3> HIDE DEF T
    <3>4. rb.lvt = Max(T)
      BY <2>6 DEF T
    <3>5. \A s \in kept : s.time \in Nat /\ s.time <= restored.time
      BY <2>3, <2>4, TimesAreNat DEF SavedOK
    <3>6. Max(T) \in Times /\ Max(T) \in Nat /\ Max(T) <= r /\ restored.time <= Max(T)
      BY <3>1, <3>2, <3>3, TimesAreNat
    <3>7. \A s \in kept : s.time <= Max(T)
      BY <2>4, <3>5, <3>6, TimesAreNat
    <3> QED
      BY <3>1, <3>3, <3>4, <3>6, <3>7
  <2>10. EventsOK(o, rb, C)
    BY <2>6, <2>7, <2>8 DEF ObjectOK, EventsOK
  <2>11. CountersOK(rb)
    BY <2>6, <2>9 DEF ObjectOK, CountersOK
  <2>12. \A d \in C : d.recv < restored.time
    BY <2>3, <2>4 DEF SavedOK
  <2>13. \A d \in rb.processed \cup C : d.recv < r
    BY <1>00, <2>4, <2>7, <2>12, TimesAreNat
  <2>14. \A u \in rb.unprocessed : u.recv \in Nat /\ u.recv >= r
    BY <1>0, <1>00, <1>2, <2>8 DEF ObjectOK, Ordered
  <2>15. Ordered(rb, C)
    <3>1. \A d \in rb.processed \cup C : d.recv <= rb.lvt
      <4>1. ASSUME NEW d \in rb.processed PROVE d.recv <= rb.lvt
        <5>1. d \in coast \/ d.recv < restored.time
          BY <2>6
        <5>2. d.recv \in Nat
          BY <1>00, <2>7
        <5> QED
          BY <2>4, <2>9, <5>1, <5>2, TimesAreNat
      <4>2. ASSUME NEW d \in C PROVE d.recv <= rb.lvt
        BY <1>00, <2>4, <2>9, <2>12, TimesAreNat
      <4> QED
        BY <4>1, <4>2
    <3>2. \A u \in rb.unprocessed : rb.lvt <= u.recv
      BY <2>9, <2>14
    <3>3. \A d \in rb.processed \cup C : \A u \in rb.unprocessed : d.recv < u.recv
      <4>1. \A d \in rb.processed \cup C : d.recv \in Nat
        BY <1>00, <2>7
      <4> QED
        BY <2>13, <2>14, <4>1
    <3> QED
      BY <3>1, <3>2, <3>3 DEF Ordered
  <2>16. SavedOK(rb, C)
    <3> SUFFICES ASSUME NEW s \in kept
                 PROVE  /\ s.time \in Times /\ s.time <= rb.lvt
                        /\ s.state = {d \in rb.processed \cup C : d.recv < s.time}
                        /\ \A d \in C : d.recv < s.time
      BY <2>6 DEF SavedOK
    <3>1. /\ s.time \in Times
          /\ s.state = {d \in ob.processed \cup C : d.recv < s.time}
          /\ \A d \in C : d.recv < s.time
      BY <2>3, <2>4 DEF SavedOK
    <3>2. ASSUME NEW d \in ob.processed PROVE d.recv < s.time => d.recv < r
      <4>1. d.recv \in Nat /\ restored.time \in Nat /\ restored.time <= r /\ s.time \in Nat
            /\ s.time <= restored.time
        BY <1>00, <2>4, <3>1, TimesAreNat
      <4> QED
        BY <4>1
    <3>3. s.state = {d \in rb.processed \cup C : d.recv < s.time}
      BY <2>7, <3>1, <3>2
    <3> QED
      BY <2>9, <3>1, <3>3
  <2>17. rb.state = rb.processed \cup C
    <3>1. restored.state = {d \in ob.processed \cup C : d.recv < restored.time}
      BY <2>3, <2>4 DEF SavedOK
    <3>2. restored.state = {d \in ob.processed : d.recv < restored.time} \cup C
      BY <2>12, <3>1
    <3> QED
      BY <2>6, <3>2
  <2>18. ASSUME NEW g \in Nat, g <= r, CanRestore(ob, g) PROVE CanRestore(rb, g)
    <3>1. CASE g = Inf
      BY <3>1 DEF CanRestore
    <3>2. CASE \E s \in ob.states : s.time <= g
      <4>1. PICK s \in ob.states : s.time <= g
        BY <3>2
      <4>2. s.time \in Nat
        BY <2>3, TimesAreNat DEF SavedOK
      <4>3. s \in kept
        BY <2>4, <2>18, <4>1, <4>2
      <4> QED
        BY <2>6, <4>1, <4>3 DEF CanRestore
    <3> QED
      BY <2>18, <3>1, <3>2 DEF CanRestore
  <2>19. ObjectOK(o, rb, C)
    BY <2>6, <2>10, <2>11, <2>15, <2>16, <2>17 DEF ObjectOK
  <2>20. \A u \in rb.unprocessed : u \in ob.unprocessed \/ u.recv >= r
    BY <2>8
  <2>21. RollsTo(ob, r, rb)
    BY <1>2, <2>6, <2>7, <2>8 DEF RollsTo
  <2> QED
    BY <2>9, <2>13, <2>18, <2>19, <2>20, <2>21 DEF rb
<1> QED
  BY <1>0, <1>1, <1>2

\* Events arrive at an object, or are annihilated in it.
LEMMA InsertOK ==
  ASSUME NEW o, NEW ob, NEW C, ObjectOK(o, ob, C), NEW U,
         \A u \in U : \/ u \in ob.unprocessed
                      \/ /\ EventOK(u) /\ u.dst = o /\ ob.lvt <= u.recv
                         /\ \A d \in ob.processed \cup C : d.recv < u.recv
  PROVE  /\ ObjectOK(o, [ob EXCEPT !.unprocessed = U], C)
         /\ [ob EXCEPT !.unprocessed = U].unprocessed = U
         /\ \A g : CanRestore(ob, g) => CanRestore([ob EXCEPT !.unprocessed = U], g)
<1> DEFINE w == [ob EXCEPT !.unprocessed = U]
<1>1. Shape(ob)
  BY DEF ObjectOK
<1>2. /\ Shape(w)
      /\ w.unprocessed = U /\ w.processed = ob.processed
      /\ w.outputs = ob.outputs /\ w.states = ob.states /\ w.state = ob.state
      /\ w.periodCounter = ob.periodCounter /\ w.lvt = ob.lvt
  BY <1>1, WaitingFields
<1> HIDE DEF w
<1>3. EventsOK(o, w, C)
  BY <1>2 DEF ObjectOK, EventsOK
<1>4. CountersOK(w)
  BY <1>2 DEF ObjectOK, CountersOK
<1>5. Ordered(w, C)
  BY <1>2 DEF ObjectOK, Ordered
<1>6. SavedOK(w, C)
  BY <1>2 DEF ObjectOK, SavedOK
<1>7. ObjectOK(o, w, C)
  BY <1>2, <1>3, <1>4, <1>5, <1>6 DEF ObjectOK
<1>8. \A g : CanRestore(ob, g) => CanRestore(w, g)
  BY <1>2 DEF CanRestore
<1> QED
  BY <1>2, <1>7, <1>8 DEF w

\* An object saves its state and executes its first events, at time t.
LEMMA ExecuteOK ==
  ASSUME NEW o, NEW ob, NEW C, ObjectOK(o, ob, C), NEW t \in Times,
         \E e \in ob.unprocessed : e.recv = t,
         \A e \in ob.unprocessed : t <= e.recv,
         NEW out, \A e \in out : EventOK(e) /\ e.src = o
  PROVE  LET sn == Sent(Executed(SaveState(ob, t), t), out) IN
         /\ ObjectOK(o, sn, C)
         /\ sn.unprocessed \subseteq ob.unprocessed
         /\ sn.lvt = t
         /\ \A g : CanRestore(ob, g) => CanRestore(sn, g)
<1> DEFINE sv == SaveState(ob, t)
           ex == Executed(sv, t)
           sn == Sent(ex, out)
           now == {e \in ob.unprocessed : e.recv = t}
<1>1. Shape(ob) /\ CountersOK(ob)
  BY DEF ObjectOK
<1>2. /\ Shape(sv) /\ CountersOK(sv)
      /\ sv.unprocessed = ob.unprocessed /\ sv.processed = ob.processed
      /\ sv.outputs = ob.outputs /\ sv.state = ob.state /\ sv.lvt = ob.lvt
      /\ sv.states = ob.states \/ sv.states = ob.states \cup {[time |-> t, state |-> ob.state]}
  BY <1>1, SaveStateFields
<1> HIDE DEF sv
<1>3. /\ Shape(ex)
      /\ ex.unprocessed = ob.unprocessed \ now /\ ex.processed = ob.processed \cup now
      /\ ex.outputs = ob.outputs /\ ex.states = sv.states /\ ex.state = ob.state \cup now
      /\ ex.periodCounter = sv.periodCounter /\ ex.lvt = t
  BY <1>2, ExecutedFields
<1> HIDE DEF ex
<1>4. /\ Shape(sn)
      /\ sn.unprocessed = ob.unprocessed \ now /\ sn.processed = ob.processed \cup now
      /\ sn.outputs = ob.outputs \cup out /\ sn.states = sv.states /\ sn.state = ob.state \cup now
      /\ sn.periodCounter = sv.periodCounter /\ sn.lvt = t
  BY <1>3, SentFields
<1> HIDE DEF sn
<1>5. /\ \A d \in ob.processed \cup C : d.recv \in Nat
      /\ \A u \in ob.unprocessed : u.recv \in Nat
      /\ t \in Nat /\ ob.lvt \in Nat
  BY TimesAreNat DEF ObjectOK, EventsOK, EventOK, CountersOK
<1>6. /\ \A d \in ob.processed \cup C : d.recv < t
      /\ ob.lvt <= t
  BY DEF ObjectOK, Ordered
<1>7. \A u \in sn.unprocessed : t < u.recv
  BY <1>4, <1>5
<1>8. EventsOK(o, sn, C)
  <2>1. \A e \in sn.unprocessed : e \in ob.unprocessed
    BY <1>4
  <2>2. \A e \in sn.processed : e \in ob.processed \/ e \in ob.unprocessed
    BY <1>4
  <2>3. \A e \in sn.outputs : e \in ob.outputs \/ e \in out
    BY <1>4
  <2> QED
    BY <2>1, <2>2, <2>3 DEF ObjectOK, EventsOK
<1>9. CountersOK(sn)
  BY <1>2, <1>4 DEF CountersOK
<1>10. Ordered(sn, C)
  <2>1. \A d \in sn.processed \cup C : d.recv \in Nat /\ d.recv <= t
    <3>1. \A d \in now : d.recv = t
      OBVIOUS
    <3> QED
      BY <1>4, <1>5, <1>6, <3>1
  <2>2. \A u \in sn.unprocessed : u.recv \in Nat /\ t <= u.recv
    BY <1>4, <1>5, <1>7
  <2>3. ASSUME NEW d \in sn.processed \cup C, NEW u \in sn.unprocessed PROVE d.recv < u.recv
    <3>1. d.recv \in Nat /\ d.recv <= t /\ u.recv \in Nat /\ t < u.recv
      BY <1>7, <2>1, <2>2
    <3> QED
      BY <1>5, <3>1
  <2> QED
    BY <1>4, <2>1, <2>2, <2>3 DEF Ordered
<1>11. SavedOK(sn, C)
  <2> SUFFICES ASSUME NEW s \in sv.states
               PROVE  /\ s.time \in Times /\ s.time <= t
                      /\ s.state = {d \in sn.processed \cup C : d.recv < s.time}
                      /\ \A d \in C : d.recv < s.time
    BY <1>4 DEF SavedOK
  <2>1. CASE s \in ob.states
    <3>1. /\ s.time \in Times /\ s.time <= ob.lvt
          /\ s.state = {d \in ob.processed \cup C : d.recv < s.time}
          /\ \A d \in C : d.recv < s.time
      BY <2>1 DEF ObjectOK, SavedOK
    <3>5. s.time \in Nat
      BY <3>1, TimesAreNat
    <3>2. s.time \in Nat /\ s.time <= t
      BY <1>5, <1>6, <3>1, <3>5
    <3>3. \A d \in now : ~(d.recv < s.time)
      BY <1>5, <3>2
    <3>4. s.state = {d \in sn.processed \cup C : d.recv < s.time}
      BY <1>4, <3>1, <3>3
    <3> QED
      BY <3>1, <3>2, <3>4
  <2>2. CASE s = [time |-> t, state |-> ob.state]
    <3>1. s.time = t /\ s.state = ob.processed \cup C
      BY <2>2 DEF ObjectOK
    <3>2. \A d \in now : ~(d.recv < t)
      BY <1>5
    <3>3. s.state = {d \in sn.processed \cup C : d.recv < s.time}
      BY <1>4, <1>6, <3>1, <3>2
    <3> QED
      BY <1>5, <1>6, <3>1, <3>3
  <2> QED
    BY <1>2, <2>1, <2>2
<1>12. sn.state = sn.processed \cup C
  BY <1>4 DEF ObjectOK
<1>13. ObjectOK(o, sn, C)
  BY <1>4, <1>8, <1>9, <1>10, <1>11, <1>12 DEF ObjectOK
<1>14. \A g : CanRestore(ob, g) => CanRestore(sn, g)
  BY <1>2, <1>4 DEF CanRestore
<1> QED
  BY <1>4, <1>13, <1>14 DEF sn, ex, sv

LEMMA FirstTimeIsLeast ==
  ASSUME NEW S, \A s \in S : s.time \in Times
  PROVE  FirstTime(S) \in Nat /\ FirstTime(S) <= Inf /\ \A s \in S : FirstTime(S) <= s.time
<1> DEFINE T == {s.time : s \in S} \cup {Inf}
<1>1. T \in SUBSET Nat /\ Inf \in T /\ \A s \in S : s.time \in T
  BY TimesAreNat
<1>2. Min(T) \in T /\ \A t \in T : Min(T) <= t
  BY <1>1, MinIsLeast
<1>3. FirstTime(S) = Min(T)
  BY DEF FirstTime
<1> QED
  BY <1>1, <1>2, <1>3

\* fossilCollect() keeps a state from before g, and what comes after it.
LEMMA StatesCollected ==
  ASSUME NEW ob, NEW C, SavedOK(ob, C), NEW g \in Nat, NEW h \in Nat, h < g, g <= Inf, CanRestore(ob, h)
  PROVE  /\ StatesAfterCollect(ob.states, g) \subseteq ob.states
         /\ g = Inf \/ \E s \in StatesAfterCollect(ob.states, g) : s.time <= g
<1> DEFINE older == {s \in ob.states : s.time < g}
           T == {s.time : s \in older}
<1>1. CASE g = Inf
  BY <1>1 DEF StatesAfterCollect
<1>2. CASE g # Inf
  <2>0. \A s \in ob.states : s.time \in Times /\ s.time \in Nat
    BY TimesAreNat DEF SavedOK
  <2>1. PICK x \in ob.states : x.time <= h
    BY <1>2, TimesAreNat DEF CanRestore
  <2>2. x \in older
    BY <2>0, <2>1
  <2>3. T \in SUBSET Times /\ T # {}
    BY <2>0, <2>2
  <2>4. Max(T) \in T
    BY <2>3, MaxIsGreatest
  <2>5. PICK s \in older : s.time = Max(T)
    BY <2>4
  <2>6. StatesAfterCollect(ob.states, g) = {y \in ob.states : y.time >= Max(T)}
    BY <1>2, <2>2 DEF StatesAfterCollect, LastTime
  <2>7. s \in StatesAfterCollect(ob.states, g) /\ s.time <= g
    BY <2>0, <2>5, <2>6
  <2> QED
    BY <2>6, <2>7
<1> QED
  BY <1>1, <1>2

Collected(ob, kept, oldest) ==
    [ob EXCEPT !.states = kept, !.processed = @ \ {e \in ob.processed : e.recv < oldest},
               !.outputs = {e \in @ : e.send >= oldest}]

LEMMA CollectedFields ==
  ASSUME NEW ob, Shape(ob), NEW kept, NEW oldest
  PROVE  LET cb == Collected(ob, kept, oldest) IN
         /\ Shape(cb)
         /\ cb.unprocessed = ob.unprocessed
         /\ cb.processed = ob.processed \ {e \in ob.processed : e.recv < oldest}
         /\ cb.outputs \subseteq ob.outputs /\ cb.states = kept /\ cb.state = ob.state
         /\ cb.periodCounter = ob.periodCounter /\ cb.lvt = ob.lvt
         /\ \A e : e \in cb.outputs <=> e \in ob.outputs /\ e.send >= oldest
<1> DEFINE cb == Collected(ob, kept, oldest)
           left == ob.processed \ {e \in ob.processed : e.recv < oldest}
           sent == {e \in ob.outputs : e.send >= oldest}
<1>1. PICK u, p, q, ss, k, st, l : ob = Record(u, p, q, ss, k, st, l)
  BY DEF Shape
<1>2. cb = [ob EXCEPT !.states = kept, !.processed = left, !.outputs = sent]
  BY DEF Collected
<1>3. sent \subseteq ob.outputs /\ \A e : e \in sent <=> e \in ob.outputs /\ e.send >= oldest
  OBVIOUS
<1> HIDE DEF cb, left, sent
<1>4. cb = Record(u, left, sent, kept, k, st, l)
  BY <1>1, <1>2 DEF Record
<1>5. /\ Shape(cb) /\ cb.unprocessed = u /\ cb.processed = left /\ cb.outputs = sent
      /\ cb.states = kept /\ cb.periodCounter = k /\ cb.state = st /\ cb.lvt = l
  BY <1>4, RecordFields
<1>6. ob.unprocessed = u /\ ob.periodCounter = k /\ ob.state = st /\ ob.lvt = l
  BY <1>1, RecordFields
<1>7. /\ Shape(cb)
      /\ cb.unprocessed = ob.unprocessed
      /\ cb.processed = left
      /\ cb.outputs \subseteq ob.outputs /\ cb.states = kept /\ cb.state = ob.state
      /\ cb.periodCounter = ob.periodCounter /\ cb.lvt = ob.lvt
      /\ \A e : e \in cb.outputs <=> e \in ob.outputs /\ e.send >= oldest
  BY <1>3, <1>5, <1>6
<1> QED
  BY <1>7 DEF cb, left

\* An object after fossilCollect(): what is given back lies before its states.
LEMMA CollectOK ==
  ASSUME NEW o, NEW ob, NEW C, ObjectOK(o, ob, C),
         NEW g \in Nat, NEW h \in Nat, h < g, g <= Inf, CanRestore(ob, h),
         NEW oldest \in Nat, oldest <= FirstTime(StatesAfterCollect(ob.states, g))
  PROVE  LET cb == Collected(ob, StatesAfterCollect(ob.states, g), oldest) IN
         /\ ObjectOK(o, cb, C \cup {e \in ob.processed : e.recv < oldest})
         /\ cb.unprocessed = ob.unprocessed
         /\ CanRestore(cb, g)
<1> DEFINE kept == StatesAfterCollect(ob.states, g)
           cb == Collected(ob, kept, oldest)
           old == {e \in ob.processed : e.recv < oldest}
<1>0. Shape(ob) /\ SavedOK(ob, C)
  BY DEF ObjectOK
<1>1. kept \subseteq ob.states /\ (g = Inf \/ \E s \in kept : s.time <= g)
  BY <1>0, StatesCollected
<1>2. \A s \in kept : s.time \in Times /\ s.time \in Nat
  BY <1>0, <1>1, TimesAreNat DEF SavedOK
<1>3. FirstTime(kept) \in Nat /\ \A s \in kept : FirstTime(kept) <= s.time
  BY <1>2, FirstTimeIsLeast
<1>4. oldest <= FirstTime(kept)
  OBVIOUS
<1> HIDE DEF kept
<1>5. /\ Shape(cb)
      /\ cb.unprocessed = ob.unprocessed
      /\ cb.processed = ob.processed \ old
      /\ cb.outputs \subseteq ob.outputs /\ cb.states = kept /\ cb.state = ob.state
      /\ cb.periodCounter = ob.periodCounter /\ cb.lvt = ob.lvt
  BY <1>0, CollectedFields
<1>6. cb.processed \cup (C \cup old) = ob.processed \cup C
  BY <1>5
<1>7. \A e \in old : e \in ob.processed /\ e.recv \in Nat /\ e.recv < oldest
  BY TimesAreNat DEF ObjectOK, EventsOK, EventOK
<1> HIDE DEF cb, old
<1>8. EventsOK(o, cb, C \cup old)
  BY <1>5, <1>7 DEF ObjectOK, EventsOK
<1>9. CountersOK(cb)
  BY <1>5 DEF ObjectOK, CountersOK
<1>10. Ordered(cb, C \cup old)
  BY <1>5, <1>6 DEF ObjectOK, Ordered
<1>11. SavedOK(cb, C \cup old)
  <2> SUFFICES ASSUME NEW s \in kept
               PROVE  /\ s.time \in Times /\ s.time <= cb.lvt
                      /\ s.state = {d \in cb.processed \cup (C \cup old) : d.recv < s.time}
                      /\ \A d \in C \cup old : d.recv < s.time
    BY <1>5 DEF SavedOK
  <2>1. /\ s.time \in Times /\ s.time <= ob.lvt
        /\ s.state = {d \in ob.processed \cup C : d.recv < s.time}
        /\ \A d \in C : d.recv < s.time
    BY <1>0, <1>1 DEF SavedOK
  <2>2. ASSUME NEW d \in old PROVE d.recv < s.time
    <3>1. d.recv \in Nat /\ d.recv < oldest /\ s.time \in Nat /\ FirstTime(kept) <= s.time
      BY <1>2, <1>3, <1>7
    <3> QED
      BY <1>3, <1>4, <3>1
  <2> QED
    BY <1>5, <1>6, <2>1, <2>2
<1>12. cb.state = cb.processed \cup (C \cup old)
  BY <1>5, <1>6 DEF ObjectOK
<1>13. ObjectOK(o, cb, C \cup old)
  BY <1>5, <1>8, <1>9, <1>10, <1>11, <1>12 DEF ObjectOK
<1>14. CanRestore(cb, g)
  BY <1>1, <1>5 DEF CanRestore
<1> QED
  BY <1>5, <1>13, <1>14 DEF cb, kept, old
-----------------------------------------------------------------------------
(* The cascade of rollbacks *)

\* The rollback times asked of o when the objects are rolled back to R.
Asks(R, objs, m, req, o) ==
    {req[o]} \cup
    {e.recv : e \in {x \in UNION {Cancelled(objs[p], R[p]) : p \in Local(m)} : x.dst = o}}

LEMMA AsksAre ==
  ASSUME NEW R, NEW objs, NEW m, NEW req, NEW o, NEW x
  PROVE  x \in Asks(R, objs, m, req, o) <=>
           \/ x = req[o]
           \/ \E p \in Local(m) : \E e \in objs[p].outputs :
                 e.send >= R[p] /\ e.dst = o /\ e.recv = x
BY DEF Asks, Cancelled

\* What a cascade may start from.
Cascading(objs, m, req) ==
    /\ \A o \in Local(m) : req[o] \in Nat /\ req[o] <= Inf
    /\ \A p \in Local(m) : \A e \in objs[p].outputs : EventOK(e)

LEMMA AsksType ==
  ASSUME NEW R, NEW objs, NEW m, NEW req, Cascading(objs, m, req), NEW o \in Local(m)
  PROVE  LET A == Asks(R, objs, m, req, o) IN
         /\ A \in SUBSET Nat /\ A # {} /\ req[o] \in A
         /\ Min(A) \in A /\ (\A x \in A : Min(A) <= x) /\ Min(A) \in Times \cup {Inf}
<1> DEFINE A == Asks(R, objs, m, req, o)
<1>1. ASSUME NEW x \in A PROVE x \in Nat /\ x <= Inf
  <2>1. CASE x = req[o]
    BY <2>1 DEF Cascading
  <2>2. CASE \E p \in Local(m) : \E e \in objs[p].outputs : e.recv = x
    <3>1. x \in Times
      BY <2>2 DEF Cascading, EventOK
    <3> QED
      BY <3>1, RollbackTimes
  <2> QED
    BY <2>1, <2>2, AsksAre
<1>2. req[o] \in A
  BY AsksAre
<1> HIDE DEF A
<1>3. Min(A) \in A /\ \A x \in A : Min(A) <= x
  BY <1>1, <1>2, MinIsLeast
<1>4. Min(A) \in Nat /\ Min(A) <= Inf
  BY <1>1, <1>3
<1>5. Min(A) \in Times \cup {Inf}
  BY <1>4, BoundAssumption DEF Times, Inf
<1> QED
  BY <1>1, <1>2, <1>3, <1>5 DEF A

\* What is asked of the objects depends on the rollback times before it only.
LEMMA AsksAgree ==
  ASSUME NEW R, NEW Q, NEW objs, NEW m, NEW req, Cascading(objs, m, req), NEW n \in Nat,
         \A p \in Local(m) : R[p] \in Nat /\ Q[p] \in Nat,
         \A p \in Local(m) : \A k \in Nat : k < n => (R[p] = k <=> Q[p] = k),
         NEW o \in Local(m), NEW x \in Nat, x <= n
  PROVE  x \in Asks(R, objs, m, req, o) => x \in Asks(Q, objs, m, req, o)
<1> SUFFICES ASSUME NEW p \in Local(m), NEW e \in objs[p].outputs,
                    e.send >= R[p], e.dst = o, e.recv = x
             PROVE  e.send >= Q[p]
  BY AsksAre
<1>1. e.send \in Nat /\ e.send < e.recv
  BY TimesAreNat DEF Cascading, EventOK
<1>2. R[p] \in Nat /\ R[p] < n
  BY <1>1
<1> QED
  BY <1>2

LEMMA CascadeExists ==
  ASSUME NEW objs, NEW m, NEW req, Cascading(objs, m, req)
  PROVE  \E R \in [Local(m) -> Times \cup {Inf}] : IsCascade(R, objs, m, req)
<1> DEFINE L == Local(m)
           A(R, o) == Asks(R, objs, m, req, o)
           F(R) == [o \in L |-> Min(A(R, o))]
           Upto(R, n) == \A o \in L : \A k \in Nat : k < n => (R[o] = k <=> Min(A(R, o)) = k)
           P(n) == \E R \in [L -> Times \cup {Inf}] : Upto(R, n)
           B == {n \in Nat : ~P(n)}
<1> HIDE DEF A, L
<1>1. \A R : \A o \in L : /\ A(R, o) \in SUBSET Nat /\ A(R, o) # {}
                          /\ Min(A(R, o)) \in A(R, o) /\ (\A x \in A(R, o) : Min(A(R, o)) <= x)
                          /\ Min(A(R, o)) \in Times \cup {Inf}
  BY AsksType DEF A, L
<1>2. Times \cup {Inf} \subseteq Nat
  BY TimesAreNat
<1>3. P(0)
  <2> DEFINE R0 == [o \in L |-> Inf]
  <2>1. R0 \in [L -> Times \cup {Inf}]
    OBVIOUS
  <2>2. Upto(R0, 0)
    OBVIOUS
  <2> QED
    BY <2>1, <2>2
<1>4. ASSUME NEW n \in Nat, P(n) PROVE P(n + 1)
  <2>1. PICK R \in [L -> Times \cup {Inf}] : Upto(R, n)
    BY <1>4
  <2>2. PICK Q : Q = F(R)
    OBVIOUS
  <2>3. Q \in [L -> Times \cup {Inf}] /\ \A o \in L : Q[o] = Min(A(R, o))
    BY <1>1, <2>2
  <2>4. \A p \in L : R[p] \in Nat /\ Q[p] \in Nat
    BY <1>2, <2>1, <2>3
  <2>5. \A p \in L : \A k \in Nat : k < n => (R[p] = k <=> Q[p] = k)
    BY <2>1, <2>3
  <2>6. ASSUME NEW o \in L, NEW x \in Nat, x <= n PROVE x \in A(R, o) <=> x \in A(Q, o)
    <3>1. x \in A(R, o) => x \in A(Q, o)
      BY <2>4, <2>5, <2>6, AsksAgree DEF A, L
    <3>2. \A p \in L : \A k \in Nat : k < n => (Q[p] = k <=> R[p] = k)
      BY <2>5
    <3>3. x \in A(Q, o) => x \in A(R, o)
      BY <2>4, <2>6, <3>2, AsksAgree DEF A, L
    <3> QED
      BY <3>1, <3>3
  <2>7. ASSUME NEW o \in L, NEW k \in Nat, k < n + 1 PROVE Q[o] = k <=> Min(A(Q, o)) = k
    <3>1. k <= n
      BY <2>7
    <3>2. PICK u \in Nat : u = Min(A(R, o)) /\ u \in A(R, o) /\ \A x \in A(R, o) : u <= x
      BY <1>1
    <3>3. PICK v \in Nat : v = Min(A(Q, o)) /\ v \in A(Q, o) /\ \A x \in A(Q, o) : v <= x
      BY <1>1
    <3>4. u = k => v <= u
      BY <2>6, <3>1, <3>2, <3>3
    <3>5. v = k => u <= v
      BY <2>6, <3>1, <3>2, <3>3
    <3>6. u = k => v = k
      <4>1. SUFFICES ASSUME u = k PROVE v = k
        OBVIOUS
      <4>2. v <= n
        BY <3>1, <3>4, <4>1
      <4>3. v \in A(R, o)
        BY <2>6, <3>3, <4>2
      <4> QED
        BY <3>2, <3>4, <4>1, <4>3
    <3>7. v = k => u = k
      <4>1. SUFFICES ASSUME v = k PROVE u = k
        OBVIOUS
      <4>2. u <= n
        BY <3>1, <3>5, <4>1
      <4>3. u \in A(Q, o)
        BY <2>6, <3>2, <4>2
      <4> QED
        BY <3>3, <3>5, <4>1, <4>3
    <3> QED
      BY <2>3, <3>2, <3>3, <3>6, <3>7
  <2> QED
    BY <2>3, <2>7
<1>5. B = {}
  <2> SUFFICES ASSUME B # {} PROVE FALSE
    OBVIOUS
  <2> HIDE DEF P
  <2>1. PICK n \in B : \A x \in B : n <= x
    BY MinIsLeast
  <2>2. n \in Nat /\ ~P(n)
    OBVIOUS
  <2>3. n # 0
    BY <1>3, <2>2
  <2>4. n - 1 \in Nat /\ ~(n <= n - 1) /\ (n - 1) + 1 = n
    BY <2>2, <2>3
  <2>5. P(n - 1)
    BY <2>1, <2>4
  <2>6. P((n - 1) + 1)
    BY <1>4, <2>4, <2>5
  <2> QED
    BY <2>2, <2>4, <2>6
<1>6. P(Inf + 1)
  <2>1. Inf + 1 \in Nat
    BY TimesAreNat
  <2> HIDE DEF P
  <2> QED
    BY <1>5, <2>1
<1>7. PICK R \in [L -> Times \cup {Inf}] : Upto(R, Inf + 1)
  BY <1>6
<1>8. ASSUME NEW o \in L PROVE R[o] = Min(A(R, o))
  <2>1. R[o] \in Nat /\ R[o] < Inf + 1
    <3>1. R[o] \in Times \cup {Inf}
      BY <1>7
    <3> QED
      BY <3>1, RollbackTimes
  <2> QED
    BY <1>7, <2>1
<1>9. IsCascade(R, objs, m, req)
  BY <1>8 DEF IsCascade, A, Asks, L
<1> QED
  BY <1>7, <1>9 DEF L

\* The rollbacks R reach whoever was sent what they cancel.
Carries(objs, m, R) ==
    \A p, o \in Local(m) : \A e \in objs[p].outputs : e.send >= R[p] /\ e.dst = o => R[o] <= e.recv

\* The rollback times of a cascade: none before what was asked for, and no object
\* that is asked to roll back is left out.
LEMMA CascadeTimesOK ==
  ASSUME NEW objs, NEW m, NEW req, Cascading(objs, m, req),
         \A o \in Local(m) : objs[o].lvt \in Times
  PROVE  LET R == CascadeTimes(objs, m, req) IN
         /\ \A o \in Local(m) : R[o] \in Times \cup {Inf}
         /\ \A o \in Local(m) : R[o] <= req[o] \/ (R[o] = Inf /\ req[o] > objs[o].lvt)
         /\ \A b \in Nat : b <= Inf /\ (\A o \in Local(m) : b <= req[o]) => \A o \in Local(m) : b <= R[o]
         /\ Carries(objs, m, R)
<1> DEFINE R == CascadeTimes(objs, m, req)
<1>1. CASE \A o \in Local(m) : req[o] > objs[o].lvt
  <2>1. R = [o \in Local(m) |-> Inf]
    BY <1>1 DEF CascadeTimes
  <2> HIDE DEF R
  <2>2. \A o \in Local(m) : R[o] = Inf
    BY <2>1
  <2>3. ASSUME NEW p \in Local(m), NEW e \in objs[p].outputs PROVE ~(e.send >= Inf)
    <3>1. e.send \in Times
      BY DEF Cascading, EventOK
    <3> QED
      BY <3>1, TimesAreNat
  <2>4. Carries(objs, m, R)
    BY <2>2, <2>3 DEF Carries
  <2> QED
    BY <1>1, <2>2, <2>4 DEF R
<1>2. CASE ~\A o \in Local(m) : req[o] > objs[o].lvt
  <2>1. R = CHOOSE Q \in [Local(m) -> Times \cup {Inf}] : IsCascade(Q, objs, m, req)
    BY <1>2 DEF CascadeTimes
  <2>2. R \in [Local(m) -> Times \cup {Inf}] /\ IsCascade(R, objs, m, req)
    BY <2>1, CascadeExists
  <2> HIDE DEF R
  <2>3. \A o \in Local(m) : R[o] = Min(Asks(R, objs, m, req, o))
    BY <2>2 DEF IsCascade, Asks
  <2>4. \A o \in Local(m) : /\ R[o] \in Asks(R, objs, m, req, o)
                            /\ \A x \in Asks(R, objs, m, req, o) : R[o] <= x
                            /\ req[o] \in Asks(R, objs, m, req, o)
    BY <2>3, AsksType
  <2>5. \A o \in Local(m) : R[o] \in Times \cup {Inf} /\ R[o] \in Nat /\ R[o] <= req[o]
    BY <2>2, <2>4, TimesAreNat
  <2>6. ASSUME NEW b \in Nat, b <= Inf, \A o \in Local(m) : b <= req[o],
               NEW o \in Local(m), ~(b <= R[o])
        PROVE  FALSE
    <3> DEFINE T == {R[p] : p \in Local(m)}
    <3>1. T \in SUBSET Nat /\ T # {}
      BY <2>5
    <3>2. PICK t \in T : \A x \in T : t <= x
      BY <3>1, MinIsLeast
    <3>3. PICK q \in Local(m) : t = R[q]
      OBVIOUS
    <3>4. R[q] \in Nat /\ R[q] <= R[o] /\ R[q] < b
      BY <2>5, <2>6, <3>2, <3>3
    <3>5. R[q] # req[q]
      BY <2>6, <3>4 DEF Cascading
    <3>6. PICK p \in Local(m) : \E e \in objs[p].outputs : e.send >= R[p] /\ e.recv = R[q]
      BY <2>4, <3>5, AsksAre
    <3>7. PICK e \in objs[p].outputs : e.send >= R[p] /\ e.recv = R[q]
      BY <3>6
    <3>8. e.send \in Nat /\ e.send < e.recv
      BY TimesAreNat DEF Cascading, EventOK
    <3>9. R[p] \in Nat /\ R[p] \in T
      BY <2>5
    <3>10. R[p] < R[q]
      BY <3>4, <3>7, <3>8, <3>9
    <3>11. R[q] <= R[p]
      BY <3>2, <3>3, <3>9
    <3> QED
      BY <3>4, <3>9, <3>10, <3>11
  <2>7. Carries(objs, m, R)
    BY <2>4, AsksAre DEF Carries
  <2> QED
    BY <2>5, <2>6, <2>7 DEF R
<1> QED
  BY <1>1, <1>2
-----------------------------------------------------------------------------
(* What one handler does *)

LEMMA AskedOK ==
  ASSUME NEW es, \A e \in es : EventOK(e), NEW o \in Object
  PROVE  /\ Asked(es)[o] \in Nat /\ Asked(es)[o] <= Inf
         /\ \A e \in es : e.dst = o => Asked(es)[o] <= e.recv
         /\ \A b \in Nat : b <= Inf /\ (\A e \in es : b <= e.recv) => b <= Asked(es)[o]
<1> DEFINE T == {e.recv : e \in {x \in es : x.dst = o}} \cup {Inf}
<1>1. T \in SUBSET Nat /\ Inf \in T /\ \A e \in es : e.dst = o => e.recv \in T
  BY TimesAreNat DEF EventOK
<1>2. Min(T) \in T /\ \A t \in T : Min(T) <= t
  BY <1>1, MinIsLeast
<1>3. Asked(es)[o] = Min(T)
  BY DEF Asked
<1>4. Min(T) \in Nat /\ Min(T) <= Inf
  BY <1>1, <1>2
<1>5. ASSUME NEW b \in Nat, b <= Inf, \A e \in es : b <= e.recv PROVE b <= Min(T)
  BY <1>2, <1>5
<1> QED
  BY <1>1, <1>2, <1>3, <1>4, <1>5

Refilled(ob, r, gone, drop, U) ==
    LET c1 == [RollbackObject(ob, r) EXCEPT !.unprocessed = @ \ gone]
    IN  [c1 EXCEPT !.unprocessed = (@ \ drop) \cup U]

\* One object of the manager: rolled back to r, freed of "gone" and "drop", given U.
LEMMA ReceiverOK ==
  ASSUME NEW o, NEW ob, NEW C, ObjectOK(o, ob, C), NEW g \in Nat, CanRestore(ob, g), g <= Inf,
         NEW r \in Times \cup {Inf}, g <= r, NEW gone, NEW drop, NEW U, NEW a \in Nat,
         r <= a \/ (r = Inf /\ a > ob.lvt),
         \A u \in U : EventOK(u) /\ u.dst = o /\ a <= u.recv
  PROVE  LET c2 == Refilled(ob, r, gone, drop, U) IN
         /\ ObjectOK(o, c2, C)
         /\ CanRestore(c2, g)
         /\ \A u \in c2.unprocessed : u \in ob.unprocessed \/ u \in U \/ u.recv >= r
<1> DEFINE rb == RollbackObject(ob, r)
           U1 == rb.unprocessed \ gone
           c1 == [rb EXCEPT !.unprocessed = U1]
           U2 == (c1.unprocessed \ drop) \cup U
           c2 == [c1 EXCEPT !.unprocessed = U2]
<1>1. r \in Nat /\ r <= Inf /\ ob.lvt \in Nat /\ ob.lvt < Inf /\ ob.lvt \in Times
  BY RollbackTimes, TimesAreNat DEF ObjectOK, CountersOK
<1>2. r <= ob.lvt => \E s \in ob.states : s.time <= r
  <2> SUFFICES ASSUME r <= ob.lvt PROVE \E s \in ob.states : s.time <= r
    OBVIOUS
  <2>1. g # Inf
    BY <1>1
  <2>2. PICK s \in ob.states : s.time <= g
    BY <2>1 DEF CanRestore
  <2>3. s.time \in Nat
    BY TimesAreNat DEF ObjectOK, SavedOK
  <2> QED
    BY <1>1, <2>2, <2>3
<1>3. /\ ObjectOK(o, rb, C)
      /\ \A d \in rb.processed \cup C : d.recv < r
      /\ rb.lvt <= r
      /\ \A u \in rb.unprocessed : u \in ob.unprocessed \/ u.recv >= r
      /\ CanRestore(rb, g)
  BY <1>1, <1>2, RollbackOK
<1>4. r = Inf => rb = ob
  <2>1. r = Inf => r > ob.lvt
    BY <1>1
  <2> QED
    BY <2>1 DEF RollbackObject
<1> HIDE DEF rb
<1>5. Shape(rb)
  BY <1>3 DEF ObjectOK
<1>6. /\ c1.unprocessed = U1 /\ c1.processed = rb.processed /\ c1.lvt = rb.lvt
  BY <1>5, WaitingFields
<1>7. ObjectOK(o, c1, C) /\ CanRestore(c1, g)
  <2>1. \A u \in U1 : u \in rb.unprocessed
    OBVIOUS
  <2> HIDE DEF U1
  <2> QED
    BY <1>3, <2>1, InsertOK
<1>8. ASSUME NEW u \in U PROVE rb.lvt <= u.recv /\ \A d \in rb.processed \cup C : d.recv < u.recv
  <2>0. /\ u.recv \in Nat /\ a <= u.recv /\ rb.lvt \in Nat
        /\ \A d \in rb.processed \cup C : d.recv \in Nat
    BY <1>3, TimesAreNat DEF ObjectOK, EventsOK, EventOK, CountersOK
  <2>1. CASE r <= a
    <3>1. r <= u.recv
      BY <1>1, <2>0, <2>1
    <3> QED
      BY <1>1, <1>3, <2>0, <3>1
  <2>2. CASE r = Inf /\ a > ob.lvt
    <3>1. rb = ob /\ ob.lvt < u.recv
      BY <1>1, <1>4, <2>0, <2>2
    <3>2. \A d \in rb.processed \cup C : d.recv <= rb.lvt
      BY <1>3 DEF ObjectOK, Ordered
    <3> QED
      BY <1>1, <2>0, <3>1, <3>2
  <2> QED
    BY <2>1, <2>2
<1> HIDE DEF c1
<1>9. \A u \in U2 : \/ u \in c1.unprocessed
                    \/ /\ EventOK(u) /\ u.dst = o /\ c1.lvt <= u.recv
                       /\ \A d \in c1.processed \cup C : d.recv < u.recv
  BY <1>6, <1>8
<1>10. \A u \in U2 : u \in rb.unprocessed \/ u \in U
  BY <1>6
<1> HIDE DEF U2
<1>11. ObjectOK(o, c2, C) /\ CanRestore(c2, g) /\ c2.unprocessed = U2
  BY <1>7, <1>9, InsertOK
<1>12. \A u \in U2 : u \in ob.unprocessed \/ u \in U \/ u.recv >= r
  BY <1>3, <1>10
<1> QED
  BY <1>11, <1>12 DEF c2, U2, c1, U1, rb, Refilled

\* The objects of all managers after manager m has delivered es and dropped "drop".
AfterDelivery(base, m, es, drop, R) ==
    [o \in Object |-> [Cascade(base, m, R)[o] EXCEPT
                         !.unprocessed = (@ \ drop) \cup {e \in es : e.dst = o}]]

LEMMA DeliverObjects ==
  ASSUME NEW m \in Manager, NEW base, NEW com, NEW gv, ObjectsOK(base, com, gv),
         gv \in [Manager -> Times \cup {Inf}], NEW es, NEW drop,
         \A e \in es \cup drop : EventOK(e) /\ Home[e.dst] = m /\ gv[m] <= e.recv
  PROVE  LET R == CascadeTimes(base, m, Asked(es \cup drop))
             after == AfterDelivery(base, m, es, drop, R) IN
         /\ ObjectsOK(after, com, gv)
         /\ \A o \in Local(m) : R[o] \in Nat
         /\ \A b \in Nat : b <= Inf /\ (\A e \in es \cup drop : b <= e.recv) =>
               \A o \in Local(m) : b <= R[o]
         /\ \A b \in Nat : b <= Inf /\ (\A e \in es \cup drop : b <= e.recv) /\ WaitAfter(b, base) =>
               WaitAfter(b, after)
         /\ Carries(base, m, R)
         /\ \A e \in es \cup drop : R[e.dst] <= e.recv \/ (R[e.dst] = Inf /\ e.recv > base[e.dst].lvt)
<1> DEFINE req == Asked(es \cup drop)
           R == CascadeTimes(base, m, req)
           after == AfterDelivery(base, m, es, drop, R)
           gone == UNION {Cancelled(base[o], R[o]) : o \in Local(m)}
<1>0. PICK g \in Times \cup {Inf} : g = gv[m]
  OBVIOUS
<1>1. g \in Nat /\ g <= Inf
  BY RollbackTimes
<1>2. \A o \in Local(m) : o \in Object /\ Home[o] = m
  BY DEF Local
<1>3. \A o \in Object : /\ req[o] \in Nat /\ req[o] <= Inf
                        /\ \A e \in es \cup drop : e.dst = o => req[o] <= e.recv
                        /\ \A b \in Nat : b <= Inf /\ (\A e \in es \cup drop : b <= e.recv) => b <= req[o]
  BY AskedOK
<1> HIDE DEF req
<1>4. Cascading(base, m, req) /\ \A o \in Local(m) : base[o].lvt \in Times
  BY <1>2, <1>3 DEF Cascading, ObjectsOK, ObjectOK, EventsOK, CountersOK
<1>5. /\ \A o \in Local(m) : R[o] \in Times \cup {Inf}
      /\ \A o \in Local(m) : R[o] <= req[o] \/ (R[o] = Inf /\ req[o] > base[o].lvt)
      /\ \A b \in Nat : b <= Inf /\ (\A o \in Local(m) : b <= req[o]) => \A o \in Local(m) : b <= R[o]
      /\ Carries(base, m, R)
  BY <1>4, CascadeTimesOK
<1>6. \A b \in Nat : b <= Inf /\ (\A e \in es \cup drop : b <= e.recv) => \A o \in Local(m) : b <= R[o]
  BY <1>2, <1>3, <1>5
<1>7. \A o \in Local(m) : g <= R[o]
  BY <1>0, <1>1, <1>6
<1> HIDE DEF R, gone
<1>8. ASSUME NEW o \in Object
      PROVE  /\ ObjectOK(o, after[o], com[o]) /\ CanRestore(after[o], gv[Home[o]])
             /\ \A b \in Nat : b <= Inf /\ (\A e \in es \cup drop : b <= e.recv)
                                        /\ (\A e \in base[o].unprocessed : b <= e.recv)
                    => \A e \in after[o].unprocessed : b <= e.recv
  <2>0. ObjectOK(o, base[o], com[o]) /\ CanRestore(base[o], gv[Home[o]])
    BY DEF ObjectsOK
  <2> DEFINE U == {e \in es : e.dst = o}
  <2>1. after[o] = [Cascade(base, m, R)[o] EXCEPT !.unprocessed = (@ \ drop) \cup U]
    BY DEF AfterDelivery
  <2>2. \A u \in U : u \in es /\ EventOK(u) /\ u.dst = o /\ req[o] <= u.recv /\ Home[o] = m
    BY <1>3
  <2> HIDE DEF U, after
  <2>3. CASE o \in Local(m)
    <3> DEFINE c2 == Refilled(base[o], R[o], gone, drop, U)
    <3>1. Cascade(base, m, R)[o] = [RollbackObject(base[o], R[o]) EXCEPT !.unprocessed = @ \ gone]
      BY <2>3 DEF Cascade, gone
    <3>2. after[o] = c2
      BY <2>1, <3>1 DEF Refilled
    <3>3. Home[o] = m /\ R[o] \in Times \cup {Inf} /\ g <= R[o] /\ CanRestore(base[o], g)
      BY <1>0, <1>2, <1>5, <1>7, <2>0, <2>3
    <3>4. req[o] \in Nat /\ (R[o] <= req[o] \/ (R[o] = Inf /\ req[o] > base[o].lvt))
      BY <1>3, <1>5, <2>3
    <3>5. \A u \in U : EventOK(u) /\ u.dst = o /\ req[o] <= u.recv
      BY <2>2
    <3>6. /\ ObjectOK(o, c2, com[o])
          /\ CanRestore(c2, g)
          /\ \A u \in c2.unprocessed : u \in base[o].unprocessed \/ u \in U \/ u.recv >= R[o]
      <4>1. PICK ob : ob = base[o]
        OBVIOUS
      <4>2. PICK C : C = com[o]
        OBVIOUS
      <4>3. PICK r \in Times \cup {Inf} : r = R[o]
        BY <3>3
      <4>4. PICK a \in Nat : a = req[o]
        BY <3>4
      <4>5. /\ ObjectOK(o, ob, C) /\ CanRestore(ob, g) /\ g <= r
            /\ r <= a \/ (r = Inf /\ a > ob.lvt)
            /\ \A u \in U : EventOK(u) /\ u.dst = o /\ a <= u.recv
        BY <2>0, <3>3, <3>4, <3>5, <4>1, <4>2, <4>3, <4>4
      <4>6. /\ ObjectOK(o, Refilled(ob, r, gone, drop, U), C)
            /\ CanRestore(Refilled(ob, r, gone, drop, U), g)
            /\ \A u \in Refilled(ob, r, gone, drop, U).unprocessed :
                  u \in ob.unprocessed \/ u \in U \/ u.recv >= r
        BY <1>1, <4>5, ReceiverOK
      <4> QED
        BY <4>1, <4>2, <4>3, <4>6
    <3> HIDE DEF c2
    <3>7. ASSUME NEW b \in Nat, b <= Inf, \A e \in es \cup drop : b <= e.recv,
                 \A e \in base[o].unprocessed : b <= e.recv, NEW u \in c2.unprocessed
          PROVE  b <= u.recv
      <4>1. b <= R[o] /\ R[o] \in Nat
        BY <1>6, <2>3, <3>3, <3>7, RollbackTimes
      <4>2. u.recv \in Nat
        BY <3>6, TimesAreNat DEF ObjectOK, EventsOK, EventOK
      <4> QED
        BY <2>2, <3>6, <3>7, <4>1, <4>2
    <3> QED
      BY <1>0, <3>2, <3>3, <3>6, <3>7
  <2>4. CASE o \notin Local(m)
    <3>1. Cascade(base, m, R)[o] = base[o]
      BY <2>4 DEF Cascade
    <3>2. U = {}
      BY <2>2, <2>4 DEF Local
    <3> DEFINE V == base[o].unprocessed \ drop
    <3>3. after[o] = [base[o] EXCEPT !.unprocessed = V]
      <4>1. (base[o].unprocessed \ drop) \cup U = V
        BY <3>2
      <4> QED
        BY <2>1, <3>1, <4>1
    <3>4. \A u \in V : u \in base[o].unprocessed
      OBVIOUS
    <3> HIDE DEF V
    <3>5. ObjectOK(o, after[o], com[o]) /\ CanRestore(after[o], gv[Home[o]]) /\ after[o].unprocessed = V
      <4>1. PICK ob : ob = base[o]
        OBVIOUS
      <4>2. ObjectOK(o, ob, com[o]) /\ \A u \in V : u \in ob.unprocessed
        BY <2>0, <3>4, <4>1
      <4>3. /\ ObjectOK(o, [ob EXCEPT !.unprocessed = V], com[o])
            /\ [ob EXCEPT !.unprocessed = V].unprocessed = V
            /\ \A h : CanRestore(ob, h) => CanRestore([ob EXCEPT !.unprocessed = V], h)
        BY <4>2, InsertOK
      <4> QED
        BY <2>0, <3>3, <4>1, <4>3
    <3> QED
      BY <3>4, <3>5
  <2> QED
    BY <2>3, <2>4
<1>9. DOMAIN after = Object
  BY DEF AfterDelivery
<1> HIDE DEF after
<1>10. ObjectsOK(after, com, gv)
  BY <1>8, <1>9 DEF ObjectsOK
<1>11. ASSUME NEW b \in Nat, b <= Inf, \A e \in es \cup drop : b <= e.recv, WaitAfter(b, base)
       PROVE  WaitAfter(b, after)
  BY <1>8, <1>11 DEF WaitAfter
<1>12. \A o \in Local(m) : R[o] \in Nat
  BY <1>5, RollbackTimes
<1>13. ASSUME NEW e \in es \cup drop
       PROVE  R[e.dst] <= e.recv \/ (R[e.dst] = Inf /\ e.recv > base[e.dst].lvt)
  <2>1. e.dst \in Local(m) /\ e.dst \in Object /\ e.recv \in Nat
    BY TimesAreNat DEF Local, EventOK
  <2>2. PICK o \in Local(m) : o = e.dst
    BY <2>1
  <2>3. req[o] \in Nat /\ req[o] <= e.recv /\ R[o] \in Nat /\ base[o].lvt \in Nat
    BY <1>3, <1>4, <1>12, <2>1, <2>2, TimesAreNat
  <2> QED
    BY <1>5, <2>1, <2>2, <2>3
<1> QED
  BY <1>5, <1>6, <1>10, <1>11, <1>12, <1>13 DEF after, R, req

LEMMA ImageFinite ==
  ASSUME NEW I, IsFiniteSet(I), NEW f
  PROVE  IsFiniteSet({f[i] : i \in I})
<1> DEFINE g == [i \in I |-> f[i]]
           T == {f[i] : i \in I}
<1>1. g \in Surjection(I, T)
  BY DEF Surjection
<1> QED
  BY <1>1, FS_Surjection

\* Sequences as they are in the channels.
LEMMA RangeOf ==
  ASSUME NEW T, NEW s \in Seq(T)
  PROVE  s \in Seq(Range(s)) /\ Range(s) \subseteq T /\ Range(s) = {s[k] : k \in 1..Len(s)}
<1>1. DOMAIN s = 1..Len(s) /\ Len(s) \in Nat
  OBVIOUS
<1>2. Range(s) = {s[k] : k \in 1..Len(s)}
  BY <1>1 DEF Range
<1> HIDE DEF Range
<1>3. \A k \in 1..Len(s) : s[k] \in Range(s)
  BY <1>2
<1>4. s \in Seq(Range(s))
  BY <1>1, <1>3
<1> QED
  BY <1>2, <1>4

LEMMA ConcatRange ==
  ASSUME NEW s, s \in Seq(Range(s)), NEW t, t \in Seq(Range(t))
  PROVE  s \o t \in Seq(Range(s \o t)) /\ Range(s \o t) \subseteq Range(s) \cup Range(t)
<1> DEFINE T == Range(s) \cup Range(t)
<1>1. s \in Seq(T) /\ t \in Seq(T)
  OBVIOUS
<1> HIDE DEF T
<1>2. s \o t \in Seq(T)
  BY <1>1
<1> QED
  BY <1>2, RangeOf DEF T

LEMMA TailRange ==
  ASSUME NEW s, s \in Seq(Range(s)), s # <<>>
  PROVE  Tail(s) \in Seq(Range(Tail(s))) /\ Range(Tail(s)) \subseteq Range(s) /\ Head(s) \in Range(s)
<1> DEFINE T == Range(s)
<1>1. s \in Seq(T)
  OBVIOUS
<1> HIDE DEF T
<1>2. Tail(s) \in Seq(T) /\ Head(s) \in T
  BY <1>1
<1> QED
  BY <1>2, RangeOf DEF T

\* The messages of a handler leave in sequence.
LEMMA OrdersOK ==
  ASSUME NEW msgs, IsFiniteSet(msgs), NEW order \in Orders(msgs), NEW n \in Manager
  PROVE  /\ order[n] \in Seq(Range(order[n]))
         /\ \A x \in Range(order[n]) : x \in msgs /\ Addressed(x, n)
<1> DEFINE S == {x \in msgs : Addressed(x, n)}
<1>1. order[n] \in SetToSeqs(S)
  BY DEF Orders
<1>2. IsFiniteSet(S)
  BY FS_Subset
<1>3. \A x \in S : x \in msgs /\ Addressed(x, n)
  OBVIOUS
<1> HIDE DEF S
<1>4. Cardinality(S) \in Nat
  BY <1>2, FS_CardinalityType
<1>5. order[n] \in [1..Cardinality(S) -> S]
  BY <1>1 DEF SetToSeqs
<1>6. order[n] \in Seq(S)
  BY <1>4, <1>5
<1>7. order[n] \in Seq(Range(order[n])) /\ Range(order[n]) \subseteq S
  BY <1>6, RangeOf
<1> QED
  BY <1>3, <1>7
MessagesOK(msgs) ==
    \A x \in msgs : x.type \in {"event", "negative"} /\ \A e \in x.events : EventOK(e)
MessagesAfter(b, msgs) == \A x \in msgs : \A e \in x.events : b <= e.recv

LEMMA SendOK ==
  ASSUME NEW ch, ChannelsOK(ch), NEW m, NEW msgs, IsFiniteSet(msgs), MessagesOK(msgs),
         Send(ch, m, msgs)
  PROVE  /\ ChannelsOK(chan')
         /\ \A b : TravelAfter(b, ch) /\ MessagesAfter(b, msgs) => TravelAfter(b, chan')
<1>1. PICK order \in Orders(msgs) :
         chan' = [c \in Manager \X Manager |-> IF c[1] = m THEN ch[c] \o order[c[2]] ELSE ch[c]]
  BY DEF Send
<1>2. ASSUME NEW c \in Manager \X Manager
      PROVE  /\ chan'[c] \in Seq(Range(chan'[c]))
             /\ \A x \in Range(chan'[c]) : x \in Range(ch[c]) \/ (x \in msgs /\ Addressed(x, c[2]))
  <2>1. ch[c] \in Seq(Range(ch[c]))
    BY DEF ChannelsOK, ChannelOK
  <2>2. c[2] \in Manager
    OBVIOUS
  <2>3. /\ order[c[2]] \in Seq(Range(order[c[2]]))
        /\ \A x \in Range(order[c[2]]) : x \in msgs /\ Addressed(x, c[2])
    BY <2>2, OrdersOK
  <2>4. CASE c[1] = m
    <3>1. chan'[c] = ch[c] \o order[c[2]]
      BY <1>1, <2>4
    <3>2. /\ ch[c] \o order[c[2]] \in Seq(Range(ch[c] \o order[c[2]]))
          /\ Range(ch[c] \o order[c[2]]) \subseteq Range(ch[c]) \cup Range(order[c[2]])
      BY <2>1, <2>3, ConcatRange
    <3> QED
      BY <2>3, <3>1, <3>2
  <2>5. CASE c[1] # m
    <3>1. chan'[c] = ch[c]
      BY <1>1, <2>5
    <3> QED
      BY <2>1, <3>1
  <2> QED
    BY <2>4, <2>5
<1>3. DOMAIN chan' = Manager \X Manager
  BY <1>1
<1>4. \A c \in Manager \X Manager : ChannelOK(chan'[c], c[2])
  BY <1>2 DEF ChannelsOK, ChannelOK, MessagesOK, Addressed
<1>5. ASSUME NEW b, TravelAfter(b, ch), MessagesAfter(b, msgs) PROVE TravelAfter(b, chan')
  BY <1>2, <1>5 DEF TravelAfter, MessagesAfter
<1> QED
  BY <1>3, <1>4, <1>5 DEF ChannelsOK

LEMMA AntiMessagesOK ==
  ASSUME NEW m, NEW objs, NEW R, \A o \in Local(m) : R[o] \in Nat,
         \A o \in Local(m) : \A e \in objs[o].outputs : EventOK(e)
  PROVE  /\ IsFiniteSet(AntiMessages(objs, m, R)) /\ MessagesOK(AntiMessages(objs, m, R))
         /\ \A b \in Nat : (\A o \in Local(m) : b <= R[o]) => MessagesAfter(b, AntiMessages(objs, m, R))
<1> DEFINE to(o, d) == {e \in Cancelled(objs[o], R[o]) : e.dst = d}
           I == Local(m) \X (Object \ Local(m))
           J == {q \in I : to(q[1], q[2]) # {}}
           f == [p \in J |-> NegativeEventMessage(to(p[1], p[2]))]
           A == {f[p] : p \in J}
<1>1. AntiMessages(objs, m, R) = A
  <2>1. AntiMessages(objs, m, R) = {NegativeEventMessage(to(p[1], p[2])) : p \in J}
    BY DEF AntiMessages
  <2>2. \A p \in J : f[p] = NegativeEventMessage(to(p[1], p[2]))
    OBVIOUS
  <2> HIDE DEF f, J
  <2>3. A = {NegativeEventMessage(to(p[1], p[2])) : p \in J}
    BY <2>2
  <2> QED
    BY <2>1, <2>3
<1>2. IsFiniteSet(Local(m)) /\ IsFiniteSet(Object \ Local(m))
  <2>1. Local(m) \in SUBSET Object /\ Object \ Local(m) \in SUBSET Object
    BY DEF Local
  <2> QED
    BY <2>1, HomeAssumption, FS_Subset
<1>3. IsFiniteSet(I)
  BY <1>2, FS_Product
<1>4. J \in SUBSET I
  OBVIOUS
<1>5. IsFiniteSet(J)
  BY <1>3, <1>4, FS_Subset
<1>6. IsFiniteSet(A)
  <2> HIDE DEF f, J
  <2> QED
    BY <1>5, ImageFinite
<1>7. ASSUME NEW x \in A
      PROVE  /\ x.type = "negative"
             /\ \A e \in x.events : EventOK(e) /\ \E o \in Local(m) : R[o] <= e.send
  <2>1. PICK p \in J : x = NegativeEventMessage(to(p[1], p[2]))
    OBVIOUS
  <2>2. p[1] \in Local(m)
    OBVIOUS
  <2>3. x.type = "negative" /\ x.events = to(p[1], p[2])
    BY <2>1 DEF NegativeEventMessage
  <2>4. \A e \in to(p[1], p[2]) : e \in objs[p[1]].outputs /\ e.send >= R[p[1]]
    BY DEF Cancelled
  <2>5. ASSUME NEW e \in x.events PROVE EventOK(e) /\ R[p[1]] <= e.send
    <3>1. e \in objs[p[1]].outputs /\ e.send >= R[p[1]]
      BY <2>3, <2>4
    <3>2. EventOK(e)
      BY <2>2, <3>1
    <3>3. e.send \in Nat /\ R[p[1]] \in Nat
      BY <2>2, <3>2, TimesAreNat DEF EventOK
    <3> QED
      BY <3>1, <3>2, <3>3
  <2> QED
    BY <2>2, <2>3, <2>5
<1> HIDE DEF A
<1>8. ASSUME NEW b \in Nat, \A o \in Local(m) : b <= R[o], NEW x \in A, NEW e \in x.events
      PROVE  b <= e.recv
  <2>1. PICK o \in Local(m) : R[o] <= e.send
    BY <1>7
  <2>2. EventOK(e)
    BY <1>7
  <2>3. e.send \in Nat /\ e.recv \in Nat /\ e.send < e.recv /\ R[o] \in Nat /\ b <= R[o]
    BY <1>8, <2>2, TimesAreNat DEF EventOK
  <2> QED
    BY <2>1, <2>3
<1>9. MessagesOK(A)
  BY <1>7 DEF MessagesOK
<1>10. \A b \in Nat : (\A o \in Local(m) : b <= R[o]) => MessagesAfter(b, A)
  BY <1>8 DEF MessagesAfter
<1> QED
  BY <1>1, <1>6, <1>9, <1>10

LEMMA DeliverOK ==
  ASSUME NEW m \in Manager, NEW base, NEW ch, NEW es, NEW drop, NEW msgs,
         ObjectsOK(base, committed, gvt), ChannelsOK(ch),
         gvt \in [Manager -> Times \cup {Inf}],
         \A e \in es \cup drop : EventOK(e) /\ Home[e.dst] = m /\ gvt[m] <= e.recv,
         IsFiniteSet(msgs), MessagesOK(msgs),
         Deliver(ch, m, base, es, drop, msgs), UNCHANGED <<gvt, committed>>
  PROVE  /\ ObjectsOK(obj', committed', gvt') /\ ChannelsOK(chan')
         /\ \A b \in Nat :
               /\ b <= Inf /\ (\A e \in es \cup drop : b <= e.recv) /\ WaitAfter(b, base)
               /\ TravelAfter(b, ch) /\ MessagesAfter(b, msgs)
               => WaitAfter(b, obj') /\ TravelAfter(b, chan')
<1>1. PICK R : R = CascadeTimes(base, m, Asked(es \cup drop))
  OBVIOUS
<1>2. /\ obj' = AfterDelivery(base, m, es, drop, R)
      /\ Send(ch, m, AntiMessages(base, m, R) \cup msgs)
  BY <1>1 DEF Deliver, AfterDelivery
<1>3. PICK com : com = committed
  OBVIOUS
<1>4. PICK gv \in [Manager -> Times \cup {Inf}] : gv = gvt
  OBVIOUS
<1>5. /\ ObjectsOK(base, com, gv)
      /\ \A e \in es \cup drop : EventOK(e) /\ Home[e.dst] = m /\ gv[m] <= e.recv
  BY <1>3, <1>4
<1>6. /\ ObjectsOK(AfterDelivery(base, m, es, drop, R), com, gv)
      /\ \A o \in Local(m) : R[o] \in Nat
      /\ \A b \in Nat : b <= Inf /\ (\A e \in es \cup drop : b <= e.recv) =>
            \A o \in Local(m) : b <= R[o]
      /\ \A b \in Nat : b <= Inf /\ (\A e \in es \cup drop : b <= e.recv) /\ WaitAfter(b, base) =>
            WaitAfter(b, AfterDelivery(base, m, es, drop, R))
  BY <1>1, <1>5, DeliverObjects
<1>7. \A o \in Local(m) : \A e \in base[o].outputs : EventOK(e)
  BY DEF Local, ObjectsOK, ObjectOK, EventsOK
<1>8. /\ IsFiniteSet(AntiMessages(base, m, R)) /\ MessagesOK(AntiMessages(base, m, R))
      /\ \A b \in Nat : (\A o \in Local(m) : b <= R[o]) => MessagesAfter(b, AntiMessages(base, m, R))
  BY <1>6, <1>7, AntiMessagesOK
<1> DEFINE all == AntiMessages(base, m, R) \cup msgs
<1>9. IsFiniteSet(all) /\ MessagesOK(all)
  <2>1. IsFiniteSet(all)
    BY <1>8, FS_Union
  <2>2. MessagesOK(all)
    BY <1>8 DEF MessagesOK
  <2> QED
    BY <2>1, <2>2
<1>10. \A b : MessagesAfter(b, AntiMessages(base, m, R)) /\ MessagesAfter(b, msgs) => MessagesAfter(b, all)
  BY DEF MessagesAfter
<1> HIDE DEF all
<1>11. /\ ChannelsOK(chan')
       /\ \A b : TravelAfter(b, ch) /\ MessagesAfter(b, all) => TravelAfter(b, chan')
  <2>1. Send(ch, m, all)
    BY <1>2 DEF all
  <2> QED
    BY <1>9, <2>1, SendOK
<1>12. ObjectsOK(obj', committed', gvt')
  BY <1>2, <1>3, <1>4, <1>6
<1>13. ASSUME NEW b \in Nat, b <= Inf, \A e \in es \cup drop : b <= e.recv, WaitAfter(b, base),
              TravelAfter(b, ch), MessagesAfter(b, msgs)
       PROVE  WaitAfter(b, obj') /\ TravelAfter(b, chan')
  <2>1. \A o \in Local(m) : b <= R[o]
    BY <1>6, <1>13
  <2>2. MessagesAfter(b, AntiMessages(base, m, R))
    BY <1>8, <2>1
  <2>3. TravelAfter(b, chan')
    BY <1>10, <1>11, <1>13, <2>2
  <2>4. WaitAfter(b, AfterDelivery(base, m, es, drop, R))
    BY <1>6, <1>13
  <2> QED
    BY <1>2, <2>3, <2>4
<1> QED
  BY <1>11, <1>12, <1>13
-----------------------------------------------------------------------------
(* The actions *)

\* What a step does to whatever waits or travels: nothing gets earlier.
NothingEarlier ==
    \A b \in Nat : b <= Inf /\ WaitAfter(b, obj) /\ TravelAfter(b, chan)
        => WaitAfter(b, obj') /\ TravelAfter(b, chan')

LEMMA InvFromStep ==
  ASSUME KernelInv, UNCHANGED <<gvt, committed>>, ObjectsOK(obj', committed', gvt'),
         ChannelsOK(chan'), NothingEarlier
  PROVE  KernelInv'
<1>1. ASSUME NEW m \in Manager PROVE WaitAfter(gvt'[m], obj') /\ TravelAfter(gvt'[m], chan')
  <2>1. PICK b \in Times \cup {Inf} : b = gvt[m]
    BY DEF KernelInv
  <2>2. b \in Nat /\ b <= Inf
    BY RollbackTimes
  <2>3. WaitAfter(b, obj) /\ TravelAfter(b, chan)
    BY <2>1 DEF KernelInv
  <2> QED
    BY <2>1, <2>2, <2>3 DEF NothingEarlier
<1> QED
  BY <1>1 DEF KernelInv

\* A message leaves its channel.
LEMMA ReceivedOK ==
  ASSUME ChannelsOK(chan), NEW n \in Manager, NEW m \in Manager, chan[<<n, m>>] # <<>>
  PROVE  /\ ChannelsOK(Received(n, m))
         /\ \A b : TravelAfter(b, chan) => /\ TravelAfter(b, Received(n, m))
                                           /\ \A e \in Head(chan[<<n, m>>]).events : b <= e.recv
         /\ \A e \in Head(chan[<<n, m>>]).events : EventOK(e) /\ Home[e.dst] = m
<1> DEFINE c0 == <<n, m>>
           s == chan[c0]
<1>1. c0 \in Manager \X Manager /\ c0[2] = m
  OBVIOUS
<1> HIDE DEF c0
<1>2. s \in Seq(Range(s)) /\ s # <<>>
  BY <1>1 DEF ChannelsOK, ChannelOK, c0
<1>3. Tail(s) \in Seq(Range(Tail(s))) /\ Range(Tail(s)) \subseteq Range(s) /\ Head(s) \in Range(s)
  BY <1>2, TailRange
<1>4. /\ DOMAIN Received(n, m) = Manager \X Manager
      /\ Received(n, m)[c0] = Tail(s)
      /\ \A c \in Manager \X Manager : c # c0 => Received(n, m)[c] = chan[c]
  BY <1>1 DEF Received, ChannelsOK, c0
<1>5. ASSUME NEW c \in Manager \X Manager PROVE ChannelOK(Received(n, m)[c], c[2])
  BY <1>3, <1>4 DEF ChannelsOK, ChannelOK
<1>6. ASSUME NEW b, TravelAfter(b, chan)
      PROVE  TravelAfter(b, Received(n, m)) /\ \A e \in Head(s).events : b <= e.recv
  BY <1>1, <1>3, <1>4, <1>6 DEF TravelAfter
<1>7. \A e \in Head(s).events : EventOK(e) /\ Home[e.dst] = m
  BY <1>1, <1>3 DEF ChannelsOK, ChannelOK
<1> QED
  BY <1>4, <1>5, <1>6, <1>7 DEF ChannelsOK, c0

LEMMA ReceiveStep ==
  ASSUME KernelInv, NEW n \in Manager, NEW m \in Manager, ReceiveEvent(n, m) \/ ReceiveNegative(n, m)
  PROVE  KernelInv' /\ NothingEarlier /\ UNCHANGED gvt
<1>1. PICK h : h = Head(chan[<<n, m>>]).events
  OBVIOUS
<1>2. PICK ch : ch = Received(n, m)
  OBVIOUS
<1>3. PICK objs : objs = obj
  OBVIOUS
<1>4. chan[<<n, m>>] # <<>> /\ UNCHANGED <<gvt, committed>>
  BY DEF ReceiveEvent, ReceiveNegative
<1>5. /\ ObjectsOK(objs, committed, gvt) /\ ChannelsOK(chan) /\ gvt \in [Manager -> Times \cup {Inf}]
      /\ WaitAfter(gvt[m], obj) /\ TravelAfter(gvt[m], chan)
  BY <1>3 DEF KernelInv
<1>6. /\ ChannelsOK(ch)
      /\ \A b : TravelAfter(b, chan) => TravelAfter(b, ch) /\ \A e \in h : b <= e.recv
      /\ \A e \in h : EventOK(e) /\ Home[e.dst] = m
  BY <1>1, <1>2, <1>4, <1>5, ReceivedOK
<1>7. \A e \in h : gvt[m] <= e.recv
  BY <1>5, <1>6
<1>8. IsFiniteSet({}) /\ MessagesOK({}) /\ \A b : MessagesAfter(b, {})
  BY FS_EmptySet DEF MessagesOK, MessagesAfter
<1>9. PICK es, drop : /\ (es = h /\ drop = {}) \/ (es = {} /\ drop = h)
                      /\ Deliver(ch, m, objs, es, drop, {})
  <2>1. CASE ReceiveEvent(n, m)
    <3>1. Deliver(Received(n, m), m, obj, Head(chan[<<n, m>>]).events, {}, {})
      BY <2>1 DEF ReceiveEvent
    <3>2. Deliver(ch, m, objs, h, {}, {})
      BY <1>1, <1>2, <1>3, <3>1
    <3> QED
      BY <3>2
  <2>2. CASE ReceiveNegative(n, m)
    <3>1. Deliver(Received(n, m), m, obj, {}, Head(chan[<<n, m>>]).events, {})
      BY <2>2 DEF ReceiveNegative
    <3>2. Deliver(ch, m, objs, {}, h, {})
      BY <1>1, <1>2, <1>3, <3>1
    <3> QED
      BY <3>2
  <2> QED
    BY <2>1, <2>2
<1>10. \A e \in es \cup drop : e \in h
  BY <1>9
<1>11. \A e \in es \cup drop : EventOK(e) /\ Home[e.dst] = m /\ gvt[m] <= e.recv
  BY <1>6, <1>7, <1>10
<1>12. /\ ObjectsOK(obj', committed', gvt') /\ ChannelsOK(chan')
       /\ \A b \in Nat :
               /\ b <= Inf /\ (\A e \in es \cup drop : b <= e.recv) /\ WaitAfter(b, objs)
               /\ TravelAfter(b, ch) /\ MessagesAfter(b, {})
               => WaitAfter(b, obj') /\ TravelAfter(b, chan')
  BY <1>4, <1>5, <1>6, <1>8, <1>9, <1>11, DeliverOK
<1>13. NothingEarlier
  BY <1>3, <1>6, <1>8, <1>10, <1>12 DEF NothingEarlier
<1> QED
  BY <1>4, <1>12, <1>13, InvFromStep

\* The state an object has when it schedules is made of events.
LEMMA StateAfter ==
  ASSUME NEW o, NEW ob, NEW C, ObjectOK(o, ob, C), NEW t
  PROVE  Events(Executed(SaveState(ob, t), t).state)
<1>1. PICK sv, now : sv = SaveState(ob, t) /\ now = {e \in ob.unprocessed : e.recv = t}
  OBVIOUS
<1>2. Shape(sv) /\ sv.unprocessed = ob.unprocessed /\ sv.state = ob.state
  BY <1>1, SaveStateFields DEF ObjectOK
<1>3. Executed(sv, t).state = ob.state \cup now
  BY <1>1, <1>2, ExecutedFields
<1>4. \A e \in ob.state \cup now : EventOK(e)
  BY <1>1 DEF ObjectOK, EventsOK
<1> QED
  BY <1>1, <1>3, <1>4 DEF Events

\* What an object schedules at time t.
LEMMA ScheduledOK ==
  ASSUME AppOK, NEW o \in Object, NEW t \in Times, NEW S, Events(S), NEW out,
         out = {NewEvent(o, t, c) : c \in App(o, t, S)}
  PROVE  IsFiniteSet(out) /\ \A e \in out : EventOK(e) /\ e.src = o /\ t < e.recv
<1> DEFINE f == [c \in App(o, t, S) |-> NewEvent(o, t, c)]
           T == {f[c] : c \in App(o, t, S)}
<1>1. IsFiniteSet(App(o, t, S))
  BY DEF AppOK
<1>2. \A c \in App(o, t, S) : f[c] = NewEvent(o, t, c)
  OBVIOUS
<1> HIDE DEF f
<1>3. IsFiniteSet(T)
  BY <1>1, ImageFinite
<1>4. out = T
  BY <1>2
<1>5. ASSUME NEW e \in out PROVE EventOK(e) /\ e.src = o /\ t < e.recv
  <2>1. PICK c \in App(o, t, S) : e = NewEvent(o, t, c)
    OBVIOUS
  <2>2. c.dst \in Object /\ c.recv \in (t + 1)..MaxTime
    BY DEF AppOK
  <2>3. e.src = o /\ e.dst = c.dst /\ e.send = t /\ e.recv = c.recv
    BY <2>1 DEF NewEvent, Named
  <2>4. c.recv \in Times /\ t < c.recv
    BY <2>2, BoundAssumption DEF Times
  <2> QED
    BY <2>2, <2>3, <2>4 DEF EventOK
<1> QED
  BY <1>3, <1>4, <1>5

LEMMA EventMessagesOK ==
  ASSUME NEW E, IsFiniteSet(E), \A e \in E : EventOK(e), NEW msgs, msgs = {EventMessage(e) : e \in E}
  PROVE  /\ IsFiniteSet(msgs) /\ MessagesOK(msgs)
         /\ \A b : (\A e \in E : b <= e.recv) => MessagesAfter(b, msgs)
<1> DEFINE f == [e \in E |-> EventMessage(e)]
           T == {f[e] : e \in E}
<1>2. \A e \in E : f[e] = EventMessage(e)
  OBVIOUS
<1> HIDE DEF f
<1>3. IsFiniteSet(T)
  BY ImageFinite
<1>4. msgs = T
  BY <1>2
<1>5. ASSUME NEW x \in msgs PROVE x.type = "event" /\ \A e \in x.events : e \in E
  BY DEF EventMessage
<1>6. MessagesOK(msgs)
  BY <1>5 DEF MessagesOK
<1>7. \A b : (\A e \in E : b <= e.recv) => MessagesAfter(b, msgs)
  BY <1>5 DEF MessagesAfter
<1> QED
  BY <1>3, <1>4, <1>6, <1>7

\* Manager m executes the events of object o at time t; ran is the object then, and
\* out what it schedules, "near" of it for objects of the same manager.
Executes(m, o, t, ran, out, near, msgs, base) ==
    /\ o \in Local(m) /\ o \in Object /\ Home[o] = m /\ t \in Times
    /\ \E e \in obj[o].unprocessed : e.recv = t
    /\ \A e \in obj[o].unprocessed : t <= e.recv
    /\ ran = Executed(SaveState(obj[o], t), t)
    /\ \A c \in App(o, t, ran.state) : FreeIds(o, t, c) # {}
    /\ out = {NewEvent(o, t, c) : c \in App(o, t, ran.state)}
    /\ near = {e \in out : e.dst \in Local(m)}
    /\ msgs = {EventMessage(e) : e \in out \ near}
    /\ Deliver(chan, m, base, near, {}, msgs) /\ UNCHANGED <<gvt, committed>>
    /\ IsFiniteSet(out) /\ \A e \in out : EventOK(e) /\ e.src = o /\ t < e.recv
    /\ ObjectsOK(base, committed, gvt)
    /\ base[o] = Sent(ran, out) /\ base[o].unprocessed \subseteq obj[o].unprocessed
    /\ \A p \in Object : p # o => base[p] = obj[p]

LEMMA ExecuteIs ==
  ASSUME AppOK, KernelInv, NEW m \in Manager, Execute(m)
  PROVE  \E o, t, ran, out, near, msgs, base : Executes(m, o, t, ran, out, near, msgs, base)
<1>1. PICK o \in Local(m) :
        /\ obj[o].unprocessed # {}
        /\ \E t \in {Min({e.recv : e \in obj[o].unprocessed})} :
             /\ \A p \in Local(m) : \A e \in obj[p].unprocessed : e.recv >= t
             /\ \E ran \in {Executed(SaveState(obj[o], t), t)} :
                   /\ \A c \in App(o, t, ran.state) : FreeIds(o, t, c) # {}
                   /\ \E out \in {{NewEvent(o, t, c) : c \in App(o, t, ran.state)}} :
                         LET near == {e \in out : e.dst \in Local(m)}
                         IN  Deliver(chan, m, [obj EXCEPT ![o] = [ran EXCEPT !.outputs = @ \cup out]],
                                     near, {}, {EventMessage(e) : e \in out \ near})
             /\ UNCHANGED <<gvt, committed>>
  BY DEF Execute
<1>2. PICK t : t = Min({e.recv : e \in obj[o].unprocessed})
  OBVIOUS
<1>3. PICK ran : ran = Executed(SaveState(obj[o], t), t)
  OBVIOUS
<1>4. PICK out : out = {NewEvent(o, t, c) : c \in App(o, t, ran.state)}
  OBVIOUS
<1>5. PICK near : near = {e \in out : e.dst \in Local(m)}
  OBVIOUS
<1>6. PICK msgs : msgs = {EventMessage(e) : e \in out \ near}
  OBVIOUS
<1>7. PICK base : base = [obj EXCEPT ![o] = Sent(ran, out)]
  OBVIOUS
<1>8. Deliver(chan, m, base, near, {}, msgs) /\ UNCHANGED <<gvt, committed>>
  BY <1>1, <1>2, <1>3, <1>4, <1>5, <1>6, <1>7, ZenonT(60) DEF Sent
<1>9. o \in Object /\ Home[o] = m /\ \A d \in Object : d \in Local(m) <=> Home[d] = m
  BY DEF Local
<1>10. PICK ob : ob = obj[o]
  OBVIOUS
<1>11. PICK C : C = committed[o]
  OBVIOUS
<1>12. ObjectOK(o, ob, C) /\ CanRestore(ob, gvt[m])
  BY <1>9, <1>10, <1>11 DEF KernelInv, ObjectsOK
<1>13. /\ t \in Times
       /\ \E e \in ob.unprocessed : e.recv = t
       /\ \A e \in ob.unprocessed : t <= e.recv
  <2> DEFINE T == {e.recv : e \in ob.unprocessed}
  <2>1. \A e \in ob.unprocessed : e.recv \in Times /\ e.recv \in Nat
    BY <1>12, TimesAreNat DEF ObjectOK, EventsOK, EventOK
  <2>2. T \in SUBSET Nat /\ T # {}
    BY <1>1, <1>10, <2>1
  <2>3. Min(T) \in T /\ \A x \in T : Min(T) <= x
    BY <2>2, MinIsLeast
  <2>4. t = Min(T)
    BY <1>2, <1>10
  <2> QED
    BY <2>1, <2>3, <2>4
<1>14. IsFiniteSet(out) /\ \A e \in out : EventOK(e) /\ e.src = o /\ t < e.recv
  <2>1. PICK S : S = ran.state
    OBVIOUS
  <2>2. out = {NewEvent(o, t, c) : c \in App(o, t, S)}
    BY <1>4, <2>1
  <2>3. Events(S)
    BY <1>3, <1>10, <1>12, <2>1, StateAfter
  <2> QED
    BY <1>9, <1>13, <2>2, <2>3, ScheduledOK
<1>15. /\ ObjectOK(o, Sent(ran, out), C)
       /\ Sent(ran, out).unprocessed \subseteq ob.unprocessed
       /\ CanRestore(Sent(ran, out), gvt[m])
  BY <1>3, <1>10, <1>12, <1>13, <1>14, ExecuteOK
<1>16. base[o] = Sent(ran, out) /\ DOMAIN base = Object /\ \A p \in Object : p # o => base[p] = obj[p]
  BY <1>7, <1>9 DEF KernelInv, ObjectsOK
<1>17. ObjectsOK(base, committed, gvt)
  BY <1>9, <1>11, <1>15, <1>16 DEF KernelInv, ObjectsOK
<1>18. Executes(m, o, t, ran, out, near, msgs, base)
  <2>1. \A c \in App(o, t, ran.state) : FreeIds(o, t, c) # {}
    BY <1>1, <1>2, <1>3
  <2> QED
    BY <1>3, <1>4, <1>5, <1>6, <1>8, <1>9, <1>10, <1>13, <1>14, <1>15, <1>16, <1>17, <2>1 DEF Executes
<1> QED
  BY <1>18

LEMMA ExecuteStep ==
  ASSUME AppOK, KernelInv, NEW m \in Manager, Execute(m)
  PROVE  KernelInv' /\ NothingEarlier /\ UNCHANGED gvt
<1>1. PICK o, t, ran, out, near, msgs, base : Executes(m, o, t, ran, out, near, msgs, base)
  BY ExecuteIs
<1>2. near = {e \in out : e.dst \in Local(m)}
  BY <1>1 DEF Executes
<1>3. msgs = {EventMessage(e) : e \in out \ near}
  BY <1>1 DEF Executes
<1>4. Deliver(chan, m, base, near, {}, msgs) /\ UNCHANGED <<gvt, committed>>
  BY <1>1 DEF Executes
<1>5. o \in Object /\ Home[o] = m
  BY <1>1 DEF Executes
<1>6. PICK ob : ob = obj[o]
  OBVIOUS
<1>7. /\ t \in Times
      /\ \E e \in ob.unprocessed : e.recv = t
      /\ \A e \in ob.unprocessed : t <= e.recv
  BY <1>1, <1>6 DEF Executes
<1>8. IsFiniteSet(out) /\ \A e \in out : EventOK(e) /\ e.src = o /\ t < e.recv
  BY <1>1 DEF Executes
<1>9. base[o].unprocessed \subseteq ob.unprocessed
  BY <1>1, <1>6 DEF Executes
<1>10. \A p \in Object : p # o => base[p] = obj[p]
  BY <1>1 DEF Executes
<1>11. ObjectsOK(base, committed, gvt)
  BY <1>1 DEF Executes
<1>12. IsFiniteSet(msgs) /\ MessagesOK(msgs) /\ \A b : (\A e \in out : b <= e.recv) => MessagesAfter(b, msgs)
  <2> DEFINE E == out \ near
  <2>1. IsFiniteSet(E) /\ \A e \in E : e \in out /\ EventOK(e)
    BY <1>8, FS_Difference
  <2> HIDE DEF E
  <2>2. msgs = {EventMessage(e) : e \in E}
    BY <1>3 DEF E
  <2> QED
    BY <2>1, <2>2, EventMessagesOK
<1>13. ASSUME NEW b \in Nat, WaitAfter(b, obj) PROVE WaitAfter(b, base) /\ \A e \in out : b <= e.recv
  <2>1. PICK e \in ob.unprocessed : e.recv = t
    BY <1>7
  <2>2. b <= t /\ t \in Nat
    BY <1>5, <1>6, <1>7, <1>13, <2>1, TimesAreNat DEF WaitAfter
  <2>3. ASSUME NEW x \in out PROVE b <= x.recv
    <3>1. x.recv \in Nat /\ t < x.recv
      BY <1>8, TimesAreNat DEF EventOK
    <3> QED
      BY <2>2, <3>1
  <2>4. WaitAfter(b, base)
    BY <1>6, <1>9, <1>10, <1>13 DEF WaitAfter
  <2> QED
    BY <2>3, <2>4
<1>14. \A e \in near : e \in out /\ EventOK(e) /\ Home[e.dst] = m
  <2>1. \A e \in near : e \in out /\ e.dst \in Local(m)
    BY <1>2
  <2> QED
    BY <1>8, <2>1 DEF Local
<1>15. /\ gvt \in [Manager -> Times \cup {Inf}] /\ ChannelsOK(chan) /\ WaitAfter(gvt[m], obj)
       /\ gvt[m] \in Nat
  BY RollbackTimes DEF KernelInv
<1>16. \A e \in near \cup {} : EventOK(e) /\ Home[e.dst] = m /\ gvt[m] <= e.recv
  BY <1>13, <1>14, <1>15
<1>17. PICK ch : ch = chan
  OBVIOUS
<1>18. Deliver(ch, m, base, near, {}, msgs) /\ ChannelsOK(ch)
  BY <1>4, <1>15, <1>17
<1>19. /\ ObjectsOK(obj', committed', gvt') /\ ChannelsOK(chan')
       /\ \A b \in Nat :
               /\ b <= Inf /\ (\A e \in near \cup {} : b <= e.recv) /\ WaitAfter(b, base)
               /\ TravelAfter(b, ch) /\ MessagesAfter(b, msgs)
               => WaitAfter(b, obj') /\ TravelAfter(b, chan')
  BY <1>4, <1>11, <1>12, <1>15, <1>16, <1>18, DeliverOK
<1>20. NothingEarlier
  <2> SUFFICES ASSUME NEW b \in Nat, b <= Inf, WaitAfter(b, obj), TravelAfter(b, chan)
               PROVE  WaitAfter(b, obj') /\ TravelAfter(b, chan')
    BY DEF NothingEarlier
  <2>1. WaitAfter(b, base) /\ \A e \in out : b <= e.recv
    BY <1>13
  <2>2. \A e \in near \cup {} : b <= e.recv
    BY <1>14, <2>1
  <2> QED
    BY <1>12, <1>17, <1>19, <2>1, <2>2
<1> QED
  BY <1>4, <1>19, <1>20, InvFromStep

\* fossilCollect() of manager m with the new GVT value g gives back what is older than "oldest".
Collects(m, g, oldest) ==
    /\ oldest \in Nat /\ g \in Nat /\ \A o \in Local(m) : oldest <= g
    /\ \A o \in Local(m) : \A e :
          /\ e \in obj'[o].processed <=> e \in obj[o].processed /\ ~(e.recv < oldest)
          /\ e \in committed'[o] <=> e \in committed[o] \/ (e \in obj[o].processed /\ e.recv < oldest)
          /\ e \in obj'[o].outputs <=> e \in obj[o].outputs /\ e.send >= oldest
    /\ \A o \in Object \ Local(m) : obj'[o] = obj[o] /\ committed'[o] = committed[o]

LEMMA FossilStep ==
  ASSUME KernelInv, NEW m \in Manager, NEW g \in Estimates, FossilCollect(m, g),
         Floor \in Nat, Floor <= Inf, WaitAfter(Floor, obj), TravelAfter(Floor, chan)
  PROVE  KernelInv' /\ gvt' = [gvt EXCEPT ![m] = g]
         /\ (\A o \in Object : obj'[o].unprocessed = obj[o].unprocessed) /\ UNCHANGED chan
         /\ \E oldest : Collects(m, g, oldest)
<1> DEFINE kept(o) == StatesAfterCollect(obj[o].states, g)
           firsts == {FirstTime(kept(o)) : o \in Local(m)} \cup {Inf}
<1>1. PICK oldest : oldest = Min(firsts)
  OBVIOUS
<1>2. /\ gvt[m] < g /\ g <= Floor
      /\ gvt' = [gvt EXCEPT ![m] = g]
      /\ obj' = [o \in Object |-> IF o \in Local(m) THEN Collected(obj[o], kept(o), oldest) ELSE obj[o]]
      /\ committed' = [o \in Object |-> committed[o] \cup
                           IF o \in Local(m) THEN {e \in obj[o].processed : e.recv < oldest} ELSE {}]
      /\ UNCHANGED chan
  BY <1>1 DEF FossilCollect, Collected
<1>3. g \in Nat /\ g <= Inf /\ g \in Times \cup {Inf}
  BY <1>2, BoundAssumption DEF Times, Inf
<1>4. /\ gvt \in [Manager -> Times \cup {Inf}] /\ gvt[m] \in Nat /\ DOMAIN committed = Object
      /\ \A o \in Object : ObjectOK(o, obj[o], committed[o]) /\ CanRestore(obj[o], gvt[Home[o]])
  BY RollbackTimes DEF KernelInv, ObjectsOK
<1>5. \A o \in Local(m) : o \in Object /\ Home[o] = m
  BY DEF Local
<1>6. ASSUME NEW o \in Local(m)
      PROVE  FirstTime(kept(o)) \in Nat /\ FirstTime(kept(o)) <= g
  <2>1. SavedOK(obj[o], committed[o]) /\ CanRestore(obj[o], gvt[m])
    BY <1>4, <1>5 DEF ObjectOK
  <2>2. kept(o) \subseteq obj[o].states /\ (g = Inf \/ \E s \in kept(o) : s.time <= g)
    BY <1>2, <1>3, <1>4, <2>1, StatesCollected
  <2>3. \A s \in kept(o) : s.time \in Times
    BY <2>1, <2>2 DEF SavedOK
  <2> HIDE DEF kept
  <2>4. /\ FirstTime(kept(o)) \in Nat /\ FirstTime(kept(o)) <= Inf
        /\ \A s \in kept(o) : FirstTime(kept(o)) <= s.time /\ s.time \in Nat
    BY <2>3, FirstTimeIsLeast, TimesAreNat
  <2> QED
    BY <1>3, <2>2, <2>4
<1> HIDE DEF kept
<1>7. oldest \in Nat /\ \A o \in Local(m) : oldest <= FirstTime(kept(o))
  <2>1. firsts \in SUBSET Nat /\ firsts # {} /\ \A o \in Local(m) : FirstTime(kept(o)) \in firsts
    BY <1>6, TimesAreNat
  <2> HIDE DEF firsts
  <2> QED
    BY <1>1, <2>1, MinIsLeast
<1>8. ASSUME NEW o \in Object
      PROVE  /\ ObjectOK(o, obj'[o], committed'[o]) /\ CanRestore(obj'[o], gvt'[Home[o]])
             /\ obj'[o].unprocessed = obj[o].unprocessed
  <2>1. CASE o \in Local(m)
    <3>1. PICK ob, C, h : ob = obj[o] /\ C = committed[o] /\ h = gvt[m]
      OBVIOUS
    <3>2. ObjectOK(o, ob, C) /\ h \in Nat /\ h < g /\ CanRestore(ob, h)
      BY <1>2, <1>4, <1>5, <2>1, <3>1
    <3>3. kept(o) = StatesAfterCollect(ob.states, g) /\ oldest <= FirstTime(StatesAfterCollect(ob.states, g))
      BY <1>7, <2>1, <3>1 DEF kept
    <3>4. /\ ObjectOK(o, Collected(ob, kept(o), oldest), C \cup {e \in ob.processed : e.recv < oldest})
          /\ Collected(ob, kept(o), oldest).unprocessed = ob.unprocessed
          /\ CanRestore(Collected(ob, kept(o), oldest), g)
      BY <1>3, <1>7, <3>2, <3>3, CollectOK
    <3>5. /\ obj'[o] = Collected(ob, kept(o), oldest) /\ gvt'[Home[o]] = g
          /\ committed'[o] = C \cup {e \in ob.processed : e.recv < oldest}
      BY <1>2, <1>4, <1>5, <2>1, <3>1
    <3> QED
      BY <3>1, <3>4, <3>5
  <2>2. CASE o \notin Local(m)
    <3>1. obj'[o] = obj[o] /\ committed'[o] = committed[o] /\ gvt'[Home[o]] = gvt[Home[o]]
      BY <1>2, <1>4, <2>2, HomeAssumption DEF Local
    <3> QED
      BY <1>4, <3>1
  <2> QED
    BY <2>1, <2>2
<1>9. ObjectsOK(obj', committed', gvt') /\ DOMAIN committed' = Object
  BY <1>2, <1>8 DEF ObjectsOK
<1>10. Collects(m, g, oldest)
  <2>1. ASSUME NEW o \in Local(m), NEW e
        PROVE  /\ e \in obj'[o].processed <=> e \in obj[o].processed /\ ~(e.recv < oldest)
               /\ e \in committed'[o] <=> e \in committed[o] \/ (e \in obj[o].processed /\ e.recv < oldest)
               /\ e \in obj'[o].outputs <=> e \in obj[o].outputs /\ e.send >= oldest
    <3>1. PICK ob, cb : ob = obj[o] /\ cb = Collected(ob, kept(o), oldest)
      OBVIOUS
    <3>2. obj'[o] = cb /\ committed'[o] = committed[o] \cup {d \in ob.processed : d.recv < oldest}
      BY <1>2, <1>5, <3>1
    <3>3. Shape(ob)
      BY <1>4, <1>5, <3>1 DEF ObjectOK
    <3>4. /\ cb.processed = ob.processed \ {d \in ob.processed : d.recv < oldest}
          /\ \A d : d \in cb.outputs <=> d \in ob.outputs /\ d.send >= oldest
      BY <3>1, <3>3, CollectedFields
    <3> QED
      BY <3>1, <3>2, <3>4
  <2>2. \A o \in Object \ Local(m) : obj'[o] = obj[o] /\ committed'[o] = committed[o]
    BY <1>2
  <2>3. \A o \in Local(m) : oldest <= g
    BY <1>3, <1>6, <1>7
  <2> QED
    BY <1>3, <1>7, <2>1, <2>2, <2>3 DEF Collects
<1>11. gvt' \in [Manager -> Times \cup {Inf}] /\ ChannelsOK(chan')
  BY <1>2, <1>3, <1>4 DEF KernelInv
<1>12. ASSUME NEW n \in Manager PROVE WaitAfter(gvt'[n], obj') /\ TravelAfter(gvt'[n], chan')
  <2>1. CASE n = m
    <3>1. gvt'[n] = g
      BY <1>2, <1>4, <2>1
    <3>2. ASSUME NEW o \in Object, NEW e \in obj[o].unprocessed PROVE g <= e.recv
      <4>1. e.recv \in Nat /\ Floor <= e.recv
        BY <1>4, TimesAreNat DEF ObjectOK, EventsOK, EventOK, WaitAfter
      <4> QED
        BY <1>2, <1>3, <4>1
    <3>3. ASSUME NEW c \in Manager \X Manager, NEW x \in Range(chan[c]), NEW e \in x.events
          PROVE  g <= e.recv
      <4>1. EventOK(e) /\ Floor <= e.recv
        BY DEF KernelInv, ChannelsOK, ChannelOK, TravelAfter
      <4>2. e.recv \in Nat
        BY <4>1, TimesAreNat DEF EventOK
      <4> QED
        BY <1>2, <1>3, <4>1, <4>2
    <3> QED
      BY <1>2, <1>8, <3>1, <3>2, <3>3 DEF WaitAfter, TravelAfter
  <2>2. CASE n # m
    <3>1. gvt'[n] = gvt[n]
      BY <1>2, <1>4, <2>2
    <3>2. WaitAfter(gvt[n], obj) /\ TravelAfter(gvt[n], chan)
      BY DEF KernelInv
    <3> QED
      BY <1>2, <1>8, <3>1, <3>2 DEF WaitAfter, TravelAfter
  <2> QED
    BY <2>1, <2>2
<1> QED
  BY <1>2, <1>8, <1>9, <1>11, <1>12, <1>10 DEF KernelInv
-----------------------------------------------------------------------------
(* The exact global virtual time *)

LEMMA CarriedAre ==
  ASSUME NEW type, NEW e
  PROVE  e \in Carried(type) <=>
           \E c \in DOMAIN chan : \E x \in Range(chan[c]) : x.type = type /\ e \in x.events
BY DEF Carried

\* Floor is the greatest time that nothing is earlier than.
FloorIsGreatest ==
    /\ Floor \in Nat /\ Floor <= Inf /\ WaitAfter(Floor, obj) /\ TravelAfter(Floor, chan)
    /\ \A b \in Nat : b <= Inf /\ WaitAfter(b, obj) /\ TravelAfter(b, chan) => b <= Floor

LEMMA FloorFacts == KernelInv => FloorIsGreatest
<1> SUFFICES ASSUME KernelInv PROVE FloorIsGreatest
  OBVIOUS
<1> DEFINE W == Carried("event") \cup Carried("negative") \cup (UNION {obj[o].unprocessed : o \in Object})
           T == {Inf} \cup {e.recv : e \in W}
<1>1. DOMAIN chan = Manager \X Manager
  BY DEF KernelInv, ChannelsOK
<1>2. \A c \in Manager \X Manager : \A x \in Range(chan[c]) :
         x.type \in {"event", "negative"} /\ \A e \in x.events : EventOK(e)
  BY DEF KernelInv, ChannelsOK, ChannelOK
<1>3. \A o \in Object : \A e \in obj[o].unprocessed : EventOK(e)
  BY DEF KernelInv, ObjectsOK, ObjectOK, EventsOK
<1>4. ASSUME NEW e
      PROVE  e \in W <=> \/ \E o \in Object : e \in obj[o].unprocessed
                         \/ \E c \in Manager \X Manager : \E x \in Range(chan[c]) : e \in x.events
  BY <1>1, <1>2, CarriedAre
<1> HIDE DEF W
<1>5. \A e \in W : EventOK(e)
  BY <1>2, <1>3, <1>4
<1>6. T \in SUBSET Nat /\ Inf \in T /\ \A e \in W : e.recv \in T
  BY <1>5, TimesAreNat DEF EventOK
<1>7. Min(T) \in T /\ \A t \in T : Min(T) <= t
  BY <1>6, MinIsLeast
<1>8. Floor = Min(T)
  BY DEF Floor, W
<1>9. Floor \in Nat /\ Floor <= Inf /\ \A e \in W : Floor <= e.recv
  BY <1>6, <1>7, <1>8
<1>10. WaitAfter(Floor, obj) /\ TravelAfter(Floor, chan)
  BY <1>4, <1>9 DEF WaitAfter, TravelAfter
<1>11. ASSUME NEW b \in Nat, b <= Inf, WaitAfter(b, obj), TravelAfter(b, chan) PROVE b <= Floor
  <2>1. \A e \in W : b <= e.recv
    BY <1>4, <1>11 DEF WaitAfter, TravelAfter
  <2> QED
    BY <1>7, <1>8, <1>11, <2>1
<1> QED
  BY <1>9, <1>10, <1>11 DEF FloorIsGreatest

LEMMA FloorFactsNext == (KernelInv => FloorIsGreatest)'
BY FloorFacts, PTL

LEMMA KernelStep ==
  ASSUME AppOK, KernelInv, [Next]_vars
  PROVE  KernelInv' /\ Floor <= Floor'
         /\ \/ UNCHANGED gvt
            \/ /\ \E m \in Manager : \E g \in gvt[m]..Floor : gvt' = [gvt EXCEPT ![m] = g]
               /\ Floor' = Floor
<1>0. /\ Floor \in Nat /\ Floor <= Inf /\ WaitAfter(Floor, obj) /\ TravelAfter(Floor, chan)
      /\ \A b \in Nat : b <= Inf /\ WaitAfter(b, obj) /\ TravelAfter(b, chan) => b <= Floor
  BY FloorFacts DEF FloorIsGreatest
<1>1. KernelInv' =>
        /\ Floor' \in Nat /\ Floor' <= Inf /\ WaitAfter(Floor', obj') /\ TravelAfter(Floor', chan')
        /\ \A b \in Nat : b <= Inf /\ WaitAfter(b, obj') /\ TravelAfter(b, chan') => b <= Floor'
  BY FloorFactsNext DEF FloorIsGreatest
<1>2. ASSUME KernelInv', NothingEarlier, UNCHANGED gvt
      PROVE  KernelInv' /\ Floor <= Floor' /\ UNCHANGED gvt
  BY <1>0, <1>1, <1>2 DEF NothingEarlier
<1>3. CASE UNCHANGED vars
  <2>1. KernelInv' /\ Floor' = Floor /\ UNCHANGED gvt
    BY <1>3 DEF vars, KernelInv, Floor, Carried
  <2> QED
    BY <1>0, <2>1
<1>4. ASSUME NEW m \in Manager, Execute(m) PROVE KernelInv' /\ Floor <= Floor' /\ UNCHANGED gvt
  BY <1>2, <1>4, ExecuteStep
<1>5. ASSUME NEW n \in Manager, NEW m \in Manager, ReceiveEvent(n, m) \/ ReceiveNegative(n, m)
      PROVE  KernelInv' /\ Floor <= Floor' /\ UNCHANGED gvt
  BY <1>2, <1>5, ReceiveStep
<1>6. ASSUME NEW m \in Manager, NEW g \in Estimates, FossilCollect(m, g)
      PROVE  KernelInv' /\ Floor' = Floor /\ \E v \in gvt[m]..Floor : gvt' = [gvt EXCEPT ![m] = v]
  <2>1. /\ KernelInv' /\ gvt' = [gvt EXCEPT ![m] = g]
        /\ (\A o \in Object : obj'[o].unprocessed = obj[o].unprocessed) /\ UNCHANGED chan
    BY <1>0, <1>6, FossilStep
  <2>2. g \in gvt[m]..Floor
    <3>1. gvt[m] \in Nat /\ g \in Nat /\ gvt[m] < g /\ g <= Floor
      BY <1>6, RollbackTimes, BoundAssumption DEF FossilCollect, KernelInv
    <3> QED
      BY <1>0, <3>1
  <2>3. \A b : WaitAfter(b, obj') <=> WaitAfter(b, obj)
    BY <2>1 DEF WaitAfter
  <2>4. \A b : TravelAfter(b, chan') <=> TravelAfter(b, chan)
    BY <2>1 DEF TravelAfter
  <2>5. Floor <= Floor' /\ Floor' <= Floor
    BY <1>0, <1>1, <2>1, <2>3, <2>4
  <2>6. Floor = Floor'
    BY <1>0, <1>1, <2>1, <2>5
  <2> QED
    BY <2>1, <2>2, <2>6
<1>7. Floor <= Floor
  BY <1>0
<1> QED
  BY <1>3, <1>4, <1>5, <1>6, <1>7 DEF Next
-----------------------------------------------------------------------------
(* The initial state *)

FirstEvent(o, c) == Named(o, 0, c, 0)

LEMMA FirstEventsOK == IsFiniteSet(FirstEvents) /\ \A e \in FirstEvents : EventOK(e)
<1>1. ASSUME NEW e \in FirstEvents PROVE EventOK(e)
  <2>1. PICK o \in Object : e \in {FirstEvent(o, c) : c \in Initial(o)}
    BY DEF FirstEvents, FirstEvent
  <2>2. PICK c \in Initial(o) : e = FirstEvent(o, c)
    BY <2>1
  <2>3. c.dst \in Object /\ c.recv \in 1..MaxTime
    BY InitialAssumption
  <2>4. e.src = o /\ e.dst = c.dst /\ e.send = 0 /\ e.recv = c.recv
    BY <2>2 DEF FirstEvent, Named
  <2>5. 0 \in Times /\ c.recv \in Times /\ 0 < c.recv
    BY <2>3, BoundAssumption DEF Times
  <2> QED
    BY <2>3, <2>4, <2>5 DEF EventOK
<1> DEFINE G(o) == {FirstEvent(o, c) : c \in Initial(o)}
           g == [o \in Object |-> G(o)]
           H == {g[o] : o \in Object}
<1>2. ASSUME NEW o \in Object PROVE IsFiniteSet(G(o))
  <2> DEFINE f == [c \in Initial(o) |-> FirstEvent(o, c)]
             T == {f[c] : c \in Initial(o)}
  <2>1. IsFiniteSet(Initial(o))
    BY InitialAssumption
  <2>2. \A c \in Initial(o) : f[c] = FirstEvent(o, c)
    OBVIOUS
  <2> HIDE DEF f
  <2>3. IsFiniteSet(T)
    BY <2>1, ImageFinite
  <2>4. T = G(o)
    BY <2>2
  <2> QED
    BY <2>3, <2>4
<1>3. \A o \in Object : g[o] = G(o)
  OBVIOUS
<1>4. FirstEvents = UNION H
  <2> HIDE DEF G, g
  <2>1. H = {G(o) : o \in Object}
    BY <1>3
  <2> QED
    BY <2>1 DEF FirstEvents, G, FirstEvent
<1> HIDE DEF G, g
<1>5. IsFiniteSet(H) /\ \A T \in H : IsFiniteSet(T)
  BY <1>2, <1>3, HomeAssumption, ImageFinite
<1>6. IsFiniteSet(UNION H)
  BY <1>5, FS_UNION
<1> QED
  BY <1>1, <1>4, <1>6

LEMMA KernelInitial == Init => KernelInv
<1> SUFFICES ASSUME Init PROVE KernelInv
  OBVIOUS
<1>1. /\ obj = [o \in Object |->
                  Record({e \in FirstEvents : e.dst = o /\ Home[e.src] = Home[o]}, {},
                         {e \in FirstEvents : e.src = o}, {[time |-> 0, state |-> {}]},
                         StatePeriod, {}, 0)]
      /\ DOMAIN chan = Manager \X Manager
      /\ gvt = [m \in Manager |-> 0]
      /\ committed = [o \in Object |-> {}]
      /\ \A m, n \in Manager : \E order \in Orders(FirstMessages(m)) : chan[<<m, n>>] = order[n]
  <2>1. obj = [o \in Object |->
                 Record({e \in FirstEvents : e.dst = o /\ Home[e.src] = Home[o]}, {},
                        {e \in FirstEvents : e.src = o}, {[time |-> 0, state |-> {}]},
                        StatePeriod, {}, 0)]
    BY DEF Init, Record
  <2>2. /\ gvt = [m \in Manager |-> 0]
        /\ committed = [o \in Object |-> {}]
    BY DEF Init
  <2>3. PICK order :
          /\ \A m \in Manager : order[m] \in Orders(FirstMessages(m))
          /\ chan = [c \in Manager \X Manager |-> order[c[1]][c[2]]]
    BY DEF Init
  <2>4. DOMAIN chan = Manager \X Manager /\ \A m, n \in Manager : chan[<<m, n>>] = order[m][n]
    BY <2>3
  <2> QED
    BY <2>1, <2>2, <2>3, <2>4
<1>2. 0 \in Times /\ 0 \in Nat /\ \A e \in FirstEvents : EventOK(e) /\ e.recv \in Nat /\ 0 <= e.recv
  <2>1. \A e \in FirstEvents : EventOK(e) /\ e.recv \in Times
    BY FirstEventsOK DEF EventOK
  <2>2. \A t \in Times : t \in Nat /\ 0 <= t
    BY TimesAreNat
  <2> QED
    BY <2>1, <2>2, TimesAreNat
<1>3. ASSUME NEW o \in Object
      PROVE  /\ ObjectOK(o, obj[o], committed[o]) /\ CanRestore(obj[o], gvt[Home[o]])
             /\ \A e \in obj[o].unprocessed : 0 <= e.recv
  <2> DEFINE u == {e \in FirstEvents : e.dst = o /\ Home[e.src] = Home[o]}
             q == {e \in FirstEvents : e.src = o}
  <2>1. \A e \in u : e \in FirstEvents /\ e.dst = o
    OBVIOUS
  <2>2. \A e \in q : e \in FirstEvents /\ e.src = o
    OBVIOUS
  <2>3. obj[o] = Record(u, {}, q, {[time |-> 0, state |-> {}]}, StatePeriod, {}, 0)
    BY <1>1
  <2> HIDE DEF u, q
  <2>4. /\ Shape(obj[o]) /\ obj[o].unprocessed = u /\ obj[o].processed = {} /\ obj[o].outputs = q
        /\ obj[o].states = {[time |-> 0, state |-> {}]} /\ obj[o].periodCounter = StatePeriod
        /\ obj[o].state = {} /\ obj[o].lvt = 0
    BY <2>3, RecordFields
  <2>5. committed[o] = {} /\ gvt[Home[o]] = 0
    BY <1>1, HomeAssumption
  <2>6. EventsOK(o, obj[o], {})
    BY <1>2, <2>1, <2>2, <2>4 DEF EventsOK
  <2>7. CountersOK(obj[o])
    BY <1>2, <2>4, BoundAssumption DEF CountersOK
  <2>8. Ordered(obj[o], {})
    BY <1>2, <2>1, <2>4 DEF Ordered
  <2>9. SavedOK(obj[o], {}) /\ CanRestore(obj[o], 0)
    BY <1>2, <2>4 DEF SavedOK, CanRestore
  <2> QED
    BY <1>2, <2>1, <2>4, <2>5, <2>6, <2>7, <2>8, <2>9 DEF ObjectOK
<1>4. ASSUME NEW m \in Manager, NEW n \in Manager
      PROVE  ChannelOK(chan[<<m, n>>], n)
             /\ \A x \in Range(chan[<<m, n>>]) : \A e \in x.events : 0 <= e.recv
  <2> DEFINE E == {x \in FirstEvents : Home[x.src] = m /\ Home[x.dst] # m}
  <2>1. IsFiniteSet(E) /\ \A e \in E : e \in FirstEvents /\ EventOK(e)
    BY <1>2, FirstEventsOK, FS_Subset
  <2>2. FirstMessages(m) = {EventMessage(e) : e \in E}
    BY DEF FirstMessages
  <2> HIDE DEF E
  <2>3. IsFiniteSet(FirstMessages(m)) /\ MessagesOK(FirstMessages(m))
        /\ \A b : (\A e \in E : b <= e.recv) => MessagesAfter(b, FirstMessages(m))
    BY <2>1, <2>2, EventMessagesOK
  <2>4. MessagesAfter(0, FirstMessages(m))
    BY <1>2, <2>1, <2>3
  <2>5. PICK order \in Orders(FirstMessages(m)) : chan[<<m, n>>] = order[n]
    BY <1>1
  <2>6. /\ chan[<<m, n>>] \in Seq(Range(chan[<<m, n>>]))
        /\ \A x \in Range(chan[<<m, n>>]) : x \in FirstMessages(m) /\ Addressed(x, n)
    BY <2>3, <2>5, OrdersOK
  <2> QED
    BY <2>3, <2>4, <2>6 DEF ChannelOK, MessagesOK, MessagesAfter, Addressed
<1>5. ObjectsOK(obj, committed, gvt) /\ DOMAIN committed = Object
  BY <1>1, <1>3 DEF ObjectsOK
<1>6. ASSUME NEW c \in Manager \X Manager
      PROVE  ChannelOK(chan[c], c[2]) /\ \A x \in Range(chan[c]) : \A e \in x.events : 0 <= e.recv
  <2>1. PICK m \in Manager, n \in Manager : c = <<m, n>>
    OBVIOUS
  <2> QED
    BY <1>4, <2>1
<1>7. ChannelsOK(chan)
  BY <1>1, <1>6 DEF ChannelsOK
<1>8. gvt \in [Manager -> Times \cup {Inf}] /\ \A m \in Manager : gvt[m] = 0
  BY <1>1, <1>2
<1>9. WaitAfter(0, obj) /\ TravelAfter(0, chan)
  BY <1>3, <1>6 DEF WaitAfter, TravelAfter
<1> QED
  BY <1>5, <1>7, <1>8, <1>9 DEF KernelInv

-----------------------------------------------------------------------------
(* What follows from the invariant *)

LEMMA TypesFollow ==
  ASSUME KernelInv
  PROVE  TypeOK
<1>1. \A o \in Object : ObjectOK(o, obj[o], committed[o])
  BY DEF KernelInv, ObjectsOK
<1>2. ASSUME NEW type, NEW e \in Carried(type) PROVE EventOK(e)
  <2>1. PICK c \in DOMAIN chan : \E x \in Range(chan[c]) : x.type = type /\ e \in x.events
    BY CarriedAre
  <2>2. c \in Manager \X Manager
    BY DEF KernelInv, ChannelsOK
  <2> QED
    BY <2>1, <2>2 DEF KernelInv, ChannelsOK, ChannelOK
<1>3. ASSUME NEW e \in LiveEvents PROVE EventOK(e)
  <2>1. CASE e \in Carried("event") \/ e \in Carried("negative")
    BY <1>2, <2>1
  <2>2. CASE \E o \in Object :
               e \in obj[o].unprocessed \cup obj[o].processed \cup obj[o].outputs \cup committed[o]
    BY <1>1, <2>2 DEF ObjectOK, EventsOK
  <2> QED
    BY <2>1, <2>2 DEF LiveEvents
<1>4. ASSUME NEW o \in Object
      PROVE  /\ \A e \in obj[o].unprocessed \cup Done(o) : e.dst = o
             /\ \A e \in obj[o].outputs : e.src = o
             /\ obj[o].periodCounter \in 0..StatePeriod
             /\ obj[o].lvt \in Times
  BY <1>1 DEF ObjectOK, EventsOK, CountersOK, Done
<1>5. \A m \in Manager : gvt[m] \in Times \cup {Inf}
  BY DEF KernelInv
<1> QED
  BY <1>3, <1>4, <1>5 DEF TypeOK

LEMMA ReplayFollows ==
  ASSUME KernelInv
  PROVE  StateIsReplay
BY DEF KernelInv, ObjectsOK, ObjectOK, SavedOK, StateIsReplay, Done

LEMMA RestoreFollows ==
  ASSUME KernelInv
  PROVE  RestorePoint
<1> SUFFICES ASSUME NEW o \in Object, Floor # Inf
             PROVE  /\ FirstTime(obj[o].states) <= Floor
                    /\ \A e \in committed[o] : e.recv < FirstTime(obj[o].states)
  BY DEF RestorePoint
<1>1. /\ Floor \in Nat /\ Floor <= Inf
      /\ \A b \in Nat : b <= Inf /\ WaitAfter(b, obj) /\ TravelAfter(b, chan) => b <= Floor
  BY FloorFacts DEF FloorIsGreatest
<1>2. ObjectOK(o, obj[o], committed[o]) /\ CanRestore(obj[o], gvt[Home[o]]) /\ Home[o] \in Manager
  BY HomeAssumption DEF KernelInv, ObjectsOK
<1>3. PICK g \in Times \cup {Inf} : g = gvt[Home[o]]
  BY <1>2 DEF KernelInv
<1>4. g \in Nat /\ g <= Inf /\ WaitAfter(g, obj) /\ TravelAfter(g, chan)
  BY <1>2, <1>3, RollbackTimes DEF KernelInv
<1>5. g <= Floor /\ g # Inf
  BY <1>1, <1>4, TimesAreNat
<1>6. PICK s \in obj[o].states : s.time <= g
  BY <1>2, <1>3, <1>5 DEF CanRestore
<1>7. \A x \in obj[o].states : x.time \in Times /\ x.time \in Nat /\ \A d \in committed[o] : d.recv < x.time
  BY <1>2, TimesAreNat DEF ObjectOK, SavedOK
<1> DEFINE T == {x.time : x \in obj[o].states} \cup {Inf}
<1>8. T \in SUBSET Nat /\ s.time \in T
  BY <1>7, TimesAreNat
<1>9. Min(T) \in T /\ \A t \in T : Min(T) <= t
  BY <1>8, MinIsLeast
<1>10. FirstTime(obj[o].states) = Min(T)
  BY DEF FirstTime
<1>11. \A e \in committed[o] : e.recv \in Times
  BY <1>2 DEF ObjectOK, EventsOK, EventOK
<1>12. \A e \in committed[o] : \A t \in T : e.recv < t
  BY <1>7, <1>11, TimesAreNat
<1>13. Min(T) \in Nat /\ Min(T) <= s.time /\ s.time \in Nat
  BY <1>7, <1>8, <1>9
<1>14. Min(T) <= Floor
  BY <1>1, <1>4, <1>5, <1>6, <1>13
<1> QED
  BY <1>9, <1>10, <1>12, <1>14

-----------------------------------------------------------------------------
(* Every event is well formed and with the object it was sent to, after any    *)
(* number of rollbacks, cancellations and messages.                            *)
THEOREM EventsKept ==
  ASSUME AppOK
  PROVE  Spec => []TypeOK
<1>1. Init => KernelInv
  BY KernelInitial
<1>2. KernelInv /\ [Next]_vars => KernelInv'
  BY KernelStep
<1>3. KernelInv => TypeOK
  BY TypesFollow
<1> QED
  BY <1>1, <1>2, <1>3, PTL DEF Spec

(* rollback(), coastForward(), saveState() and fossilCollect() keep the state of *)
(* an object, and every state it can go back to, what its processed events make  *)
(* of it.                                                                        *)
THEOREM StateKeptTrue ==
  ASSUME AppOK
  PROVE  Spec => []StateIsReplay
<1>1. Init => KernelInv
  BY KernelInitial
<1>2. KernelInv /\ [Next]_vars => KernelInv'
  BY KernelStep
<1>3. KernelInv => StateIsReplay
  BY ReplayFollows
<1> QED
  BY <1>1, <1>2, <1>3, PTL DEF Spec

(* The assertion in rollback() on the restored time never fails: whatever may      *)
(* still arrive, fossil collection left a state to go back to and every event    *)
(* after it.                                                                     *)
THEOREM RestorePointKept ==
  ASSUME AppOK
  PROVE  Spec => []RestorePoint
<1>1. Init => KernelInv
  BY KernelInitial
<1>2. KernelInv /\ [Next]_vars => KernelInv'
  BY KernelStep
<1>3. KernelInv => RestorePoint
  BY RestoreFollows
<1> QED
  BY <1>1, <1>2, <1>3, PTL DEF Spec

LEMMA GVTInitial ==
  ASSUME Init
  PROVE  GVT!Init
<1>1. Floor \in Nat
  BY KernelInitial, FloorFacts DEF FloorIsGreatest
<1>2. gvt = [m \in Manager |-> 0]
  BY DEF Init
<1> QED
  BY <1>1, <1>2 DEF GVT!Init

LEMMA GVTStep ==
  ASSUME AppOK, KernelInv, [Next]_vars
  PROVE  [GVT!Next]_(GVT!vars)
<1>1. /\ KernelInv' /\ Floor <= Floor'
      /\ \/ UNCHANGED gvt
         \/ /\ \E m \in Manager : \E g \in gvt[m]..Floor : gvt' = [gvt EXCEPT ![m] = g]
            /\ Floor' = Floor
  BY KernelStep
<1>2. Floor \in Nat /\ Floor' \in Nat
  BY <1>1, FloorFacts, FloorFactsNext DEF FloorIsGreatest
<1>3. CASE UNCHANGED gvt
  <2>1. Floor' >= Floor
    BY <1>1, <1>2
  <2> QED
    BY <1>2, <1>3, <2>1 DEF GVT!Next, GVT!Progress
<1>4. CASE /\ \E m \in Manager : \E g \in gvt[m]..Floor : gvt' = [gvt EXCEPT ![m] = g]
           /\ Floor' = Floor
  BY <1>4 DEF GVT!Next, GVT!Announce
<1> QED
  BY <1>1, <1>3, <1>4

(* No rollback, cancellation or message takes global virtual time back, and what *)
(* a manager holds for GVT only grows and stays below it: the kernel keeps its    *)
(* half of the contract with the GVT manager.                                    *)
THEOREM GVTRespected ==
  ASSUME AppOK
  PROVE  Spec => RespectsGVT
<1>1. Init => KernelInv /\ GVT!Init
  BY KernelInitial, GVTInitial
<1>2. KernelInv /\ [Next]_vars => KernelInv'
  BY KernelStep
<1>3. KernelInv /\ [Next]_vars => [GVT!Next]_(GVT!vars)
  BY GVTStep
<1> QED
  BY <1>1, <1>2, <1>3, PTL DEF Spec, RespectsGVT, GVT!Spec

-----------------------------------------------------------------------------
(* No orphans: the inductive invariant *)

Active(objs, o)    == objs[o].unprocessed \cup objs[o].processed
Held(objs, com, o) == Active(objs, o) \cup com[o]

\* The sender of e has executed the time e was sent at.
Grounded(objs, com, e) ==
    e.send = 0 \/ \E d \in objs[e.src].processed \cup com[e.src] : d.recv = e.send

\* The sender of e has it among its outputs, or will never take it back.
StandsBy(objs, com, gv, e) ==
    \/ e \in objs[e.src].outputs
    \/ Grounded(objs, com, e) /\ e.send < gv[Home[e.src]]

\* Pos are the events on their way, Neg those that an anti-message chases.
OutputsOK(objs, com, Pos, Neg) ==
    \A p \in Object : \A e \in objs[p].outputs :
        /\ Grounded(objs, com, e)
        /\ e \notin Neg
        /\ e \in Pos \/ e \in Held(objs, com, e.dst)

There(objs, com, Pos, e) == e \in Pos \/ \E o \in Object : e \in Held(objs, com, o)

ArrivedOK(objs, com, gv, Pos, Neg) ==
    \A e : There(objs, com, Pos, e) => e \in Neg \/ StandsBy(objs, com, gv, e)

ChasedOK(objs, Pos, Neg) == \A e \in Neg : e \in Pos \/ e \in Active(objs, e.dst)

\* The events that count, sent by object p at time t.
SentAt(objs, com, Pos, Neg, p, t) ==
    {e \in Pos \cup (UNION {Held(objs, com, o) : o \in Object}) : e \notin Neg /\ e.src = p /\ e.send = t}

UpTo(objs, com, p, t) == {d \in objs[p].processed \cup com[p] : d.recv <= t}

\* Object p sent at time t what the application sends then, once.
SentOK(objs, com, Pos, Neg, p, t) ==
    LET sent == SentAt(objs, com, Pos, Neg, p, t)
        upTo == UpTo(objs, com, p, t)
    IN  /\ {Content(e) : e \in sent} = IF \E d \in upTo : d.recv = t THEN App(p, t, upTo) ELSE {}
        /\ \A a, b \in sent : Content(a) = Content(b) => a = b

Accounts(objs, com, gv, Pos, Neg) ==
    /\ OutputsOK(objs, com, Pos, Neg)
    /\ ArrivedOK(objs, com, gv, Pos, Neg)
    /\ ChasedOK(objs, Pos, Neg)
    /\ \A p \in Object : \A t \in Times \ {0} : SentOK(objs, com, Pos, Neg, p, t)

\* A channel from p to n: positive events come before what cancels them, and
\* nothing is cancelled twice.
QueueOK(s, p, n) ==
    \A k \in 1..Len(s) :
        /\ s[k].type = "event" => \A e \in s[k].events : s[k] = EventMessage(e)
        /\ \A e \in s[k].events : Home[e.src] = p /\ p # n
        /\ s[k].type = "negative" => \A e \in s[k].events : \A j \in 1..Len(s) :
              /\ s[j].type = "event" /\ e \in s[j].events => j < k
              /\ s[j].type = "negative" /\ e \in s[j].events => j = k

QueuesOK(ch) == \A p, n \in Manager : QueueOK(ch[<<p, n>>], p, n)

OrphanInv ==
    /\ KernelInv
    /\ Accounts(obj, committed, gvt, Carried("event"), Carried("negative"))
    /\ QueuesOK(chan)

-----------------------------------------------------------------------------
(* What a delivery moves *)

Gone(base, m, R) == UNION {Cancelled(base[o], R[o]) : o \in Local(m)}

LEMMA GoneAre ==
  ASSUME NEW base, NEW m, NEW R, NEW e
  PROVE  e \in Gone(base, m, R) <=> \E p \in Local(m) : e \in base[p].outputs /\ e.send >= R[p]
BY DEF Gone, Cancelled

\* Sent times are past times.
LEMMA SendsArePast ==
  ASSUME NEW base, NEW com, NEW gv, ObjectsOK(base, com, gv), NEW Pos, NEW Neg,
         OutputsOK(base, com, Pos, Neg), NEW p \in Object, NEW e \in base[p].outputs
  PROVE  EventOK(e) /\ e.src = p /\ e.send \in Nat /\ e.recv \in Nat /\ e.send <= base[p].lvt
<1>1. /\ ObjectOK(p, base[p], com[p])
  BY DEF ObjectsOK
<1>2. EventOK(e) /\ e.src = p
  BY <1>1 DEF ObjectOK, EventsOK
<1>3. e.send \in Nat /\ e.recv \in Nat /\ base[p].lvt \in Nat
  BY <1>1, <1>2, TimesAreNat DEF EventOK, ObjectOK, CountersOK
<1>4. e.send = 0 \/ \E d \in base[p].processed \cup com[p] : d.recv = e.send
  BY <1>2 DEF OutputsOK, Grounded
<1>5. \A d \in base[p].processed \cup com[p] : d.recv <= base[p].lvt
  BY <1>1 DEF ObjectOK, Ordered
<1> QED
  BY <1>2, <1>3, <1>4, <1>5

\* What is given back lies before every GVT value, and can come back no more.
LEMMA CommittedArePast ==
  ASSUME NEW objs, NEW com, NEW gv \in [Manager -> Times \cup {Inf}], ObjectsOK(objs, com, gv),
         NEW o \in Object, NEW d \in com[o]
  PROVE  d.recv \in Nat /\ d.recv < gv[Home[o]]
<1>1. ObjectOK(o, objs[o], com[o]) /\ CanRestore(objs[o], gv[Home[o]])
  BY DEF ObjectsOK
<1>2. d.recv \in Times /\ d.recv \in Nat /\ d.recv < Inf /\ gv[Home[o]] \in Nat
  BY <1>1, TimesAreNat, RollbackTimes, HomeAssumption DEF ObjectOK, EventsOK, EventOK
<1>3. CASE \E s \in objs[o].states : s.time <= gv[Home[o]]
  <2>1. PICK s \in objs[o].states : s.time <= gv[Home[o]]
    BY <1>3
  <2>2. s.time \in Nat /\ d.recv < s.time
    BY <1>1, TimesAreNat DEF ObjectOK, SavedOK
  <2> QED
    BY <1>2, <2>1, <2>2
<1> QED
  BY <1>1, <1>2, <1>3 DEF CanRestore

Moves(base, m, es, drop, R, after) ==
    /\ \A o \in Local(m) : \A e :
          /\ e \in after[o].processed <=> e \in base[o].processed /\ e.recv < R[o]
          /\ e \in after[o].unprocessed <=>
                \/ /\ e \in base[o].unprocessed \/ (e \in base[o].processed /\ e.recv >= R[o])
                   /\ e \notin Gone(base, m, R) /\ e \notin drop
                \/ e \in es /\ e.dst = o
          /\ e \in after[o].outputs <=> e \in base[o].outputs /\ e.send < R[o]
    /\ \A o \in Object \ Local(m) :
          /\ after[o].processed = base[o].processed
          /\ after[o].unprocessed = base[o].unprocessed
          /\ after[o].outputs = base[o].outputs

LEMMA DeliveryMoves ==
  ASSUME NEW m \in Manager, NEW base, NEW com, NEW gv \in [Manager -> Times \cup {Inf}],
         ObjectsOK(base, com, gv), NEW es, NEW drop,
         \A e \in es \cup drop : EventOK(e) /\ Home[e.dst] = m,
         NEW R, \A o \in Local(m) : R[o] \in Nat /\ gv[m] <= R[o],
         NEW Pos, NEW Neg, OutputsOK(base, com, Pos, Neg)
  PROVE  Moves(base, m, es, drop, R, AfterDelivery(base, m, es, drop, R))
<1> DEFINE after == AfterDelivery(base, m, es, drop, R)
<1>1. ASSUME NEW o \in Local(m)
      PROVE  \A e :
          /\ e \in after[o].processed <=> e \in base[o].processed /\ e.recv < R[o]
          /\ e \in after[o].unprocessed <=>
                \/ /\ e \in base[o].unprocessed \/ (e \in base[o].processed /\ e.recv >= R[o])
                   /\ e \notin Gone(base, m, R) /\ e \notin drop
                \/ e \in es /\ e.dst = o
          /\ e \in after[o].outputs <=> e \in base[o].outputs /\ e.send < R[o]
  <2>1. PICK ob : ob = base[o]
    OBVIOUS
  <2>2. PICK r \in Nat : r = R[o]
    OBVIOUS
  <2>3. PICK C : C = com[o]
    OBVIOUS
  <2>4. o \in Object /\ Home[o] = m
    BY DEF Local
  <2>5. ObjectOK(o, ob, C) /\ CanRestore(ob, gv[m])
    BY <2>1, <2>3, <2>4 DEF ObjectsOK
  <2>6. ob.lvt \in Nat /\ ob.lvt < Inf /\ gv[m] \in Nat /\ gv[m] <= r
    BY <2>2, <2>5, TimesAreNat, RollbackTimes DEF ObjectOK, CountersOK
  <2>7. r <= ob.lvt => \E s \in ob.states : s.time <= r
    <3> SUFFICES ASSUME r <= ob.lvt PROVE \E s \in ob.states : s.time <= r
      OBVIOUS
    <3>1. gv[m] # Inf
      BY <2>6, TimesAreNat
    <3>2. PICK s \in ob.states : s.time <= gv[m]
      BY <2>5, <3>1 DEF CanRestore
    <3>3. s.time \in Nat
      BY <2>5, TimesAreNat DEF ObjectOK, SavedOK
    <3> QED
      BY <2>6, <3>2, <3>3
  <2> DEFINE rb == RollbackObject(ob, r)
             U == {e \in es : e.dst = o}
             U1 == rb.unprocessed \ Gone(base, m, R)
             c1 == [rb EXCEPT !.unprocessed = U1]
             U2 == (c1.unprocessed \ drop) \cup U
             c2 == [c1 EXCEPT !.unprocessed = U2]
  <2>8. Shape(rb) /\ RollsTo(ob, r, rb)
    BY <2>5, <2>7, RollbackOK DEF ObjectOK
  <2>9. after[o] = c2
    <3>1. Cascade(base, m, R)[o] = c1
      BY <2>1, <2>2, <2>4 DEF Cascade, Gone
    <3> HIDE DEF c1
    <3> QED
      BY <2>4, <3>1 DEF AfterDelivery
  <2> HIDE DEF rb
  <2>10. Shape(c1) /\ c1.unprocessed = U1 /\ c1.processed = rb.processed /\ c1.outputs = rb.outputs
    BY <2>8, WaitingFields
  <2> HIDE DEF c1, U1
  <2>11. c2.unprocessed = U2 /\ c2.processed = c1.processed /\ c2.outputs = c1.outputs
    BY <2>10, WaitingFields
  <2> HIDE DEF c2
  <2>12. \A e \in ob.outputs : e.send \in Nat /\ e.send <= ob.lvt
    BY <2>1, <2>4, SendsArePast
  <2>13. \A e \in ob.outputs : (r > ob.lvt \/ e.send < r) <=> e.send < r
    BY <2>6, <2>12
  <2> HIDE DEF after
  <2> SUFFICES ASSUME NEW e
               PROVE  /\ e \in c2.processed <=> e \in ob.processed /\ e.recv < r
                      /\ e \in c2.unprocessed <=>
                            \/ /\ e \in ob.unprocessed \/ (e \in ob.processed /\ e.recv >= r)
                               /\ e \notin Gone(base, m, R) /\ e \notin drop
                            \/ e \in es /\ e.dst = o
                      /\ e \in c2.outputs <=> e \in ob.outputs /\ e.send < r
    BY <2>1, <2>2, <2>9
  <2>14. e \in c2.processed <=> e \in ob.processed /\ e.recv < r
    BY <2>8, <2>10, <2>11 DEF RollsTo
  <2>15. e \in c2.unprocessed <=> e \in U2
    BY <2>11
  <2>16. e \in U2 <=> (e \in U1 /\ e \notin drop) \/ (e \in es /\ e.dst = o)
    BY <2>10
  <2>17. e \in U1 <=> /\ e \in ob.unprocessed \/ (e \in ob.processed /\ e.recv >= r)
                      /\ e \notin Gone(base, m, R)
    BY <2>8 DEF RollsTo, U1
  <2>18. e \in c2.outputs <=> e \in ob.outputs /\ e.send < r
    BY <2>8, <2>10, <2>11, <2>13 DEF RollsTo
  <2> HIDE DEF U2, U
  <2> QED
    BY <2>14, <2>15, <2>16, <2>17, <2>18
<1>2. ASSUME NEW o \in Object \ Local(m)
      PROVE  /\ after[o].processed = base[o].processed
             /\ after[o].unprocessed = base[o].unprocessed
             /\ after[o].outputs = base[o].outputs
  <2> DEFINE U == (base[o].unprocessed \ drop) \cup {e \in es : e.dst = o}
  <2>1. after[o] = [base[o] EXCEPT !.unprocessed = U]
    <3>1. Cascade(base, m, R)[o] = base[o]
      BY DEF Cascade
    <3> QED
      BY <3>1 DEF AfterDelivery
  <2>2. ObjectOK(o, base[o], com[o]) /\ Home[o] # m
    BY DEF ObjectsOK, Local
  <2>3. \A e \in base[o].unprocessed : e.dst = o
    BY <2>2 DEF ObjectOK, EventsOK
  <2>4. \A e \in es \cup drop : e.dst # o
    BY <2>2
  <2>5. U = base[o].unprocessed
    BY <2>3, <2>4
  <2> HIDE DEF U, after
  <2>6. PICK ob : ob = base[o]
    OBVIOUS
  <2>7. Shape(ob)
    BY <2>2, <2>6 DEF ObjectOK
  <2>8. LET w == [ob EXCEPT !.unprocessed = U]
        IN  w.unprocessed = U /\ w.processed = ob.processed /\ w.outputs = ob.outputs
    BY <2>7, WaitingFields
  <2> QED
    BY <2>1, <2>5, <2>6, <2>8
<1> HIDE DEF after
<1>3. Moves(base, m, es, drop, R, after)
  BY <1>1, <1>2 DEF Moves
<1> QED
  BY <1>3 DEF after
-----------------------------------------------------------------------------
(* A delivery keeps the accounts *)

\* Manager m delivers es and annihilates "drop" with rollbacks to R.
Delivery(m, base, com, gv, es, drop, R) ==
    /\ m \in Manager /\ gv \in [Manager -> Times \cup {Inf}] /\ ObjectsOK(base, com, gv)
    /\ \A e \in es \cup drop : EventOK(e) /\ Home[e.dst] = m /\ \A k \in Manager : gv[k] <= e.recv
    /\ \A o \in Local(m) : R[o] \in Nat /\ \A k \in Manager : gv[k] <= R[o]
    /\ Carries(base, m, R)
    /\ \A e \in es \cup drop : R[e.dst] <= e.recv \/ e.recv > base[e.dst].lvt
    /\ \A e \in es : e \notin Gone(base, m, R) /\ e \notin drop

Reaching(base, com, m, es, drop, R, after) ==
    /\ \A o \in Object : \A e :
          /\ e \in Held(after, com, o) => e \in Held(base, com, o) \/ (e \in es /\ e.dst = o)
          /\ e \in Held(base, com, o) /\ e \notin Gone(base, m, R) /\ e \notin drop
                => e \in Held(after, com, o)
          /\ e \in Active(base, o) /\ e \notin Gone(base, m, R) /\ e \notin drop
                => e \in Active(after, o)
          /\ e \in Held(after, com, o) => e \notin drop
          /\ e \in Held(after, com, o) /\ e \in Gone(base, m, R) => Home[e.dst] # m
          /\ o \notin Local(m) => (e \in Active(base, o) <=> e \in Active(after, o))
    /\ \A e \in es : e \in Active(after, e.dst)
    /\ \A p \in Object : \A d :
          d \in after[p].processed \cup com[p] <=>
             d \in base[p].processed \cup com[p] /\ (p \in Local(m) => d.recv < R[p])

LEMMA HeldFacts ==
  ASSUME NEW objs, NEW com, NEW gv, ObjectsOK(objs, com, gv), NEW o \in Object,
         NEW e \in Held(objs, com, o)
  PROVE  EventOK(e) /\ e.dst = o /\ e.recv \in Nat /\ e.send \in Nat /\ e.send < e.recv
<1>1. ObjectOK(o, objs[o], com[o])
  BY DEF ObjectsOK
<1>2. EventOK(e) /\ e.dst = o
  BY <1>1 DEF ObjectOK, EventsOK, Held, Active
<1> QED
  BY <1>2, TimesAreNat DEF EventOK

LEMMA DeliveryReaches ==
  ASSUME NEW m, NEW base, NEW com, NEW gv, NEW es, NEW drop, NEW R, NEW after,
         Delivery(m, base, com, gv, es, drop, R), Moves(base, m, es, drop, R, after)
  PROVE  Reaching(base, com, m, es, drop, R, after)
<1> USE DEF Delivery
<1>1. \A o \in Local(m) : o \in Object /\ Home[o] = m
  BY DEF Local
<1>2. ASSUME NEW o \in Object, NEW e \in com[o], o \in Local(m) PROVE e.recv \in Nat /\ e.recv < R[o]
  <2>1. e.recv \in Nat /\ e.recv < gv[m]
    BY <1>1, <1>2, CommittedArePast
  <2>2. gv[m] \in Nat /\ R[o] \in Nat /\ gv[m] <= R[o]
    BY <1>2, RollbackTimes
  <2> QED
    BY <2>1, <2>2
<1>3. ASSUME NEW p \in Object, NEW d
      PROVE  d \in after[p].processed \cup com[p] <=>
                d \in base[p].processed \cup com[p] /\ (p \in Local(m) => d.recv < R[p])
  <2>1. CASE p \in Local(m)
    BY <1>2, <2>1 DEF Moves
  <2>2. CASE p \notin Local(m)
    BY <2>2 DEF Moves
  <2> QED
    BY <2>1, <2>2
<1>4. \A e \in es : e.dst \in Local(m) /\ e \in Active(after, e.dst)
  <2>1. \A e \in es : e.dst \in Local(m)
    BY DEF Local, EventOK
  <2> QED
    BY <2>1 DEF Moves, Active
<1>5. ASSUME NEW o \in Object, NEW e
      PROVE  /\ e \in Held(after, com, o) => e \in Held(base, com, o) \/ (e \in es /\ e.dst = o)
             /\ e \in Active(base, o) /\ e \notin Gone(base, m, R) /\ e \notin drop
                   => e \in Active(after, o)
             /\ o \notin Local(m) => (e \in Active(base, o) <=> e \in Active(after, o))
  <2>1. CASE o \in Local(m)
    <3>1. e \in base[o].processed => e.recv \in Nat /\ R[o] \in Nat
      <4> SUFFICES ASSUME e \in base[o].processed PROVE e.recv \in Nat
        BY <2>1
      <4>1. e \in Held(base, com, o)
        BY DEF Held, Active
      <4> QED
        BY <4>1, HeldFacts
    <3>2. e \in base[o].processed => e.recv < R[o] \/ e.recv >= R[o]
      BY <3>1
    <3> QED
      BY <2>1, <3>2 DEF Moves, Held, Active
  <2>2. CASE o \notin Local(m)
    BY <2>2 DEF Moves, Held, Active
  <2> QED
    BY <2>1, <2>2
<1>6. ASSUME NEW o \in Object, NEW e \in Held(after, com, o), e \in drop PROVE FALSE
  <2>1. e \notin es /\ EventOK(e) /\ Home[e.dst] = m /\ e.recv \in Nat
    BY <1>6, TimesAreNat DEF EventOK
  <2>2. e \in Held(base, com, o) /\ e.dst = o /\ o \in Local(m)
    BY <1>5, <1>6, <2>1, HeldFacts DEF Local
  <2>3. R[o] \in Nat /\ base[o].lvt \in Nat /\ (R[o] <= e.recv \/ e.recv > base[o].lvt)
    BY <1>6, <2>2, TimesAreNat DEF ObjectsOK, ObjectOK, CountersOK
  <2>4. e \notin after[o].unprocessed
    BY <1>6, <2>1, <2>2 DEF Moves
  <2>5. e \notin after[o].processed
    <3>1. e \in base[o].processed => e.recv <= base[o].lvt
      BY DEF ObjectsOK, ObjectOK, Ordered
    <3> QED
      BY <2>1, <2>2, <2>3, <3>1 DEF Moves
  <2>6. e \notin com[o]
    <3>1. e \in com[o] => e.recv < gv[m]
      BY <2>1, <2>2, CommittedArePast
    <3>2. gv[m] <= e.recv /\ gv[m] \in Nat
      BY <1>6, RollbackTimes
    <3> QED
      BY <2>1, <3>1, <3>2
  <2> QED
    BY <2>4, <2>5, <2>6 DEF Held, Active
<1>7. ASSUME NEW o \in Object, NEW e \in Held(after, com, o), e \in Gone(base, m, R) PROVE Home[e.dst] # m
  <2> SUFFICES ASSUME Home[e.dst] = m PROVE FALSE
    OBVIOUS
  <2>1. e \notin es /\ e \in Held(base, com, o)
    BY <1>5, <1>7
  <2>2. EventOK(e) /\ e.dst = o /\ e.recv \in Nat /\ e.send \in Nat /\ e.send < e.recv
    BY <2>1, HeldFacts
  <2>3. o \in Local(m) /\ R[o] \in Nat
    BY <2>2 DEF Local
  <2>4. PICK p \in Local(m) : e \in base[p].outputs /\ e.send >= R[p]
    BY <1>7, GoneAre
  <2>5. R[o] <= e.recv
    BY <2>2, <2>3, <2>4 DEF Carries
  <2>6. e \notin after[o].unprocessed
    BY <1>7, <2>1, <2>3 DEF Moves
  <2>7. e \notin after[o].processed
    BY <2>2, <2>3, <2>5 DEF Moves
  <2>8. e \notin com[o]
    BY <1>2, <2>3, <2>5, <2>2
  <2> QED
    BY <2>6, <2>7, <2>8 DEF Held, Active
<1>8. ASSUME NEW o \in Object, NEW e \in Held(base, com, o), e \notin Gone(base, m, R), e \notin drop
      PROVE  e \in Held(after, com, o)
  BY <1>5, <1>8 DEF Held
<1> QED
  BY <1>3, <1>4, <1>5, <1>6, <1>7, <1>8 DEF Reaching

\* What goes to other managers as anti-messages.
Remote(base, m, R) == {e \in Gone(base, m, R) : Home[e.dst] # m}

\* What travels goes from one manager to another, and is not what is being annihilated.
Travelling(Pos, Neg, drop) ==
    /\ \A e \in Pos : EventOK(e) /\ Home[e.src] # Home[e.dst]
    /\ \A e \in drop : e \notin Pos /\ e \notin Neg

LEMMA GoneFacts ==
  ASSUME NEW m, NEW base, NEW com, NEW gv, NEW R, NEW e \in Gone(base, m, R), ObjectsOK(base, com, gv)
  PROVE  /\ EventOK(e) /\ e.src \in Local(m) /\ Home[e.src] = m /\ e \in base[e.src].outputs
         /\ e.send >= R[e.src]
<1>1. PICK p \in Local(m) : e \in base[p].outputs /\ e.send >= R[p]
  BY GoneAre
<1>2. p \in Object /\ Home[p] = m
  BY DEF Local
<1>3. EventOK(e) /\ e.src = p
  BY <1>1, <1>2 DEF ObjectsOK, ObjectOK, EventsOK
<1> QED
  BY <1>1, <1>2, <1>3

\* An event stands unless it is cancelled.
LEMMA DeliveryStands ==
  ASSUME NEW m, NEW base, NEW com, NEW gv, NEW es, NEW drop, NEW R, NEW after,
         Delivery(m, base, com, gv, es, drop, R), Moves(base, m, es, drop, R, after),
         Reaching(base, com, m, es, drop, R, after),
         NEW Pos, NEW Neg, OutputsOK(base, com, Pos, Neg),
         NEW e, EventOK(e), StandsBy(base, com, gv, e)
  PROVE  e \in Gone(base, m, R) \/ StandsBy(after, com, gv, e)
<1>1. PICK p \in Object : p = e.src
  BY DEF EventOK
<1>2. /\ e.send \in Nat /\ \A k \in Manager : gv[k] \in Nat
      /\ p \in Local(m) => R[p] \in Nat /\ gv[m] <= R[p] /\ Home[p] = m /\ m \in Manager
  BY TimesAreNat, RollbackTimes DEF EventOK, Delivery, Local
<1>3. CASE e \in base[p].outputs
  <2>1. CASE p \notin Local(m)
    BY <1>1, <1>3, <2>1 DEF Moves, StandsBy
  <2>2. CASE p \in Local(m)
    <3>1. e.send >= R[p] => e \in Gone(base, m, R)
      BY <1>3, <2>2, GoneAre
    <3>2. e.send < R[p] => e \in after[p].outputs
      BY <1>3, <2>2 DEF Moves
    <3> QED
      BY <1>1, <1>2, <2>2, <3>1, <3>2 DEF StandsBy
  <2> QED
    BY <2>1, <2>2
<1>4. CASE Grounded(base, com, e) /\ e.send < gv[Home[p]]
  <2>1. p \in Local(m) => e.send < R[p]
    BY <1>2, <1>4
  <2>2. Grounded(after, com, e)
    BY <1>1, <1>4, <2>1 DEF Grounded, Reaching
  <2> QED
    BY <1>1, <1>4, <2>2 DEF StandsBy
<1> QED
  BY <1>1, <1>3, <1>4 DEF StandsBy

LEMMA DeliveryOutputs ==
  ASSUME NEW m, NEW base, NEW com, NEW gv, NEW es, NEW drop, NEW R, NEW after,
         Delivery(m, base, com, gv, es, drop, R), Moves(base, m, es, drop, R, after),
         Reaching(base, com, m, es, drop, R, after),
         NEW Pos, NEW Neg, OutputsOK(base, com, Pos \cup es, Neg \cup drop)
  PROVE  OutputsOK(after, com, Pos, Neg \cup Remote(base, m, R))
<1> SUFFICES ASSUME NEW p \in Object, NEW e \in after[p].outputs
             PROVE  /\ Grounded(after, com, e)
                    /\ e \notin Neg /\ e \notin Remote(base, m, R)
                    /\ e \in Pos \/ e \in Held(after, com, e.dst)
  BY DEF OutputsOK
<1>1. e \in base[p].outputs /\ (p \in Local(m) => e.send < R[p])
  BY DEF Moves
<1>2. EventOK(e) /\ e.src = p /\ e.dst \in Object /\ e.send \in Nat
  BY <1>1, TimesAreNat DEF Delivery, ObjectsOK, ObjectOK, EventsOK, EventOK
<1>3. /\ Grounded(base, com, e) /\ e \notin Neg /\ e \notin drop
      /\ e \in Pos \/ e \in es \/ e \in Held(base, com, e.dst)
  BY <1>1 DEF OutputsOK
<1>4. Grounded(after, com, e)
  BY <1>1, <1>2, <1>3 DEF Grounded, Reaching
<1>5. e \notin Gone(base, m, R)
  <2> SUFFICES ASSUME e \in Gone(base, m, R) PROVE FALSE
    OBVIOUS
  <2>1. p \in Local(m) /\ e.send >= R[p]
    BY <1>2, GoneFacts DEF Delivery
  <2> QED
    BY <1>1, <1>2, <2>1 DEF Delivery
<1>6. e \in Pos \/ e \in Held(after, com, e.dst)
  <2>1. e \in es => e \in Held(after, com, e.dst)
    BY DEF Reaching, Held
  <2>2. e \in Held(base, com, e.dst) => e \in Held(after, com, e.dst)
    BY <1>2, <1>3, <1>5 DEF Reaching
  <2> QED
    BY <1>3, <2>1, <2>2
<1> QED
  BY <1>3, <1>4, <1>5, <1>6 DEF Remote

LEMMA DeliveryArrived ==
  ASSUME NEW m, NEW base, NEW com, NEW gv, NEW es, NEW drop, NEW R, NEW after,
         Delivery(m, base, com, gv, es, drop, R), Moves(base, m, es, drop, R, after),
         Reaching(base, com, m, es, drop, R, after),
         NEW Pos, NEW Neg, OutputsOK(base, com, Pos \cup es, Neg \cup drop),
         ArrivedOK(base, com, gv, Pos \cup es, Neg \cup drop), Travelling(Pos, Neg, drop)
  PROVE  ArrivedOK(after, com, gv, Pos, Neg \cup Remote(base, m, R))
<1> SUFFICES ASSUME NEW e, There(after, com, Pos, e), e \notin Neg
             PROVE  e \in Remote(base, m, R) \/ StandsBy(after, com, gv, e)
  BY DEF ArrivedOK
<1>1. CASE e \in Pos
  <2>1. e \notin drop /\ EventOK(e) /\ Home[e.src] # Home[e.dst]
    BY <1>1 DEF Travelling
  <2>2. There(base, com, Pos \cup es, e)
    BY <1>1 DEF There
  <2>3. StandsBy(base, com, gv, e)
    BY <2>1, <2>2 DEF ArrivedOK
  <2>4. e \in Gone(base, m, R) \/ StandsBy(after, com, gv, e)
    BY <2>1, <2>3, DeliveryStands
  <2>5. e \in Gone(base, m, R) => Home[e.src] = m
    BY GoneFacts DEF Delivery
  <2> QED
    BY <2>1, <2>4, <2>5 DEF Remote
<1>2. ASSUME NEW o \in Object, e \in Held(after, com, o)
      PROVE  e \in Remote(base, m, R) \/ StandsBy(after, com, gv, e)
  <2>1. /\ e \notin drop /\ (e \in Gone(base, m, R) => Home[e.dst] # m)
        /\ e \in Held(base, com, o) \/ (e \in es /\ e.dst = o)
    BY <1>2 DEF Reaching
  <2>2. EventOK(e)
    BY <2>1, HeldFacts DEF Delivery
  <2>3. There(base, com, Pos \cup es, e)
    BY <2>1 DEF There
  <2>4. StandsBy(base, com, gv, e)
    BY <2>1, <2>3 DEF ArrivedOK
  <2>5. e \in Gone(base, m, R) \/ StandsBy(after, com, gv, e)
    BY <2>2, <2>4, DeliveryStands
  <2> QED
    BY <2>1, <2>5 DEF Remote
<1> QED
  BY <1>1, <1>2 DEF There

LEMMA DeliveryChased ==
  ASSUME NEW m, NEW base, NEW com, NEW gv, NEW es, NEW drop, NEW R, NEW after,
         Delivery(m, base, com, gv, es, drop, R), Moves(base, m, es, drop, R, after),
         Reaching(base, com, m, es, drop, R, after),
         NEW Pos, NEW Neg, OutputsOK(base, com, Pos \cup es, Neg \cup drop),
         ChasedOK(base, Pos \cup es, Neg \cup drop), Travelling(Pos, Neg, drop),
         \A e \in Neg : EventOK(e)
  PROVE  ChasedOK(after, Pos, Neg \cup Remote(base, m, R))
<1>1. ASSUME NEW e \in Neg PROVE e \in Pos \/ e \in Active(after, e.dst)
  <2>1. e \in Pos \/ e \in es \/ e \in Active(base, e.dst)
    BY DEF ChasedOK
  <2>2. e \notin drop /\ e.dst \in Object
    BY DEF Travelling, EventOK
  <2>3. e \notin Gone(base, m, R)
    <3> SUFFICES ASSUME e \in Gone(base, m, R) PROVE FALSE
      OBVIOUS
    <3>1. e.src \in Object /\ e \in base[e.src].outputs
      BY GoneFacts DEF Delivery, Local
    <3> QED
      BY <3>1 DEF OutputsOK
  <2> QED
    BY <2>1, <2>2, <2>3 DEF Reaching
<1>2. ASSUME NEW e \in Remote(base, m, R) PROVE e \in Pos \/ e \in Active(after, e.dst)
  <2>1. e \in Gone(base, m, R) /\ Home[e.dst] # m
    BY DEF Remote
  <2>2. EventOK(e) /\ e.src \in Local(m) /\ e \in base[e.src].outputs /\ e.send >= R[e.src]
    BY <2>1, GoneFacts DEF Delivery
  <2>3. PICK p \in Local(m) : p = e.src
    BY <2>2
  <2>4. e.dst \in Object /\ e.dst \notin Local(m) /\ p \in Object
    BY <2>1, <2>2 DEF Local, EventOK
  <2>5. e \in Pos \/ e \in es \/ e \in Held(base, com, e.dst)
    BY <2>2, <2>3, <2>4 DEF OutputsOK
  <2>6. e \notin es
    BY <2>1 DEF Delivery
  <2>7. e \notin com[e.dst]
    <3> SUFFICES ASSUME e \in com[e.dst] PROVE FALSE
      OBVIOUS
    <3>1. PICK k \in Manager : k = Home[e.dst]
      BY <2>4, HomeAssumption
    <3>2. e.recv < gv[k]
      BY <2>4, <3>1, CommittedArePast DEF Delivery
    <3>3. R[p] \in Nat /\ gv[k] <= R[p] /\ gv[k] \in Nat
      BY RollbackTimes DEF Delivery
    <3>4. e.send \in Nat /\ e.recv \in Nat /\ e.send < e.recv
      BY <2>2, TimesAreNat DEF EventOK
    <3> QED
      BY <2>2, <2>3, <3>2, <3>3, <3>4
  <2> QED
    BY <2>4, <2>5, <2>6, <2>7 DEF Reaching, Held
<1> QED
  BY <1>1, <1>2 DEF ChasedOK

LEMMA SentAtAre ==
  ASSUME NEW objs, NEW com, NEW Pos, NEW Neg, NEW p, NEW t, NEW e
  PROVE  e \in SentAt(objs, com, Pos, Neg, p, t) <=>
           There(objs, com, Pos, e) /\ e \notin Neg /\ e.src = p /\ e.send = t
BY DEF SentAt, There

\* A delivery takes back what object p sent at t, or leaves it as it is.
TakesBack(m, R, p, t, before, now) ==
    /\ p \in Local(m) /\ t >= R[p] => now = {}
    /\ ~(p \in Local(m) /\ t >= R[p]) => now = before

LEMMA DeliverySentAt ==
  ASSUME NEW m, NEW base, NEW com, NEW gv, NEW es, NEW drop, NEW R, NEW after,
         Delivery(m, base, com, gv, es, drop, R), Moves(base, m, es, drop, R, after),
         Reaching(base, com, m, es, drop, R, after),
         NEW Pos, NEW Neg, OutputsOK(base, com, Pos \cup es, Neg \cup drop),
         ArrivedOK(base, com, gv, Pos \cup es, Neg \cup drop), Travelling(Pos, Neg, drop),
         NEW p \in Object, NEW t \in Times
  PROVE  TakesBack(m, R, p, t, SentAt(base, com, Pos \cup es, Neg \cup drop, p, t),
                   SentAt(after, com, Pos, Neg \cup Remote(base, m, R), p, t))
<1> DEFINE before == SentAt(base, com, Pos \cup es, Neg \cup drop, p, t)
           now == SentAt(after, com, Pos, Neg \cup Remote(base, m, R), p, t)
<1>1. ASSUME NEW e \in now PROVE e \in before /\ e \notin Gone(base, m, R)
  <2>1. There(after, com, Pos, e) /\ e \notin Neg /\ e \notin Remote(base, m, R) /\ e.src = p /\ e.send = t
    BY SentAtAre
  <2>2. CASE e \in Pos
    <3>1. e \notin drop /\ EventOK(e) /\ Home[e.src] # Home[e.dst]
      BY <2>2 DEF Travelling
    <3>2. e \in Gone(base, m, R) => Home[e.src] = m
      BY GoneFacts DEF Delivery
    <3>3. e \notin Gone(base, m, R)
      BY <2>1, <3>1, <3>2 DEF Remote
    <3>4. There(base, com, Pos \cup es, e)
      BY <2>2 DEF There
    <3> QED
      BY <2>1, <3>1, <3>3, <3>4, SentAtAre
  <2>3. ASSUME NEW o \in Object, e \in Held(after, com, o) PROVE e \in before /\ e \notin Gone(base, m, R)
    <3>1. /\ e \notin drop /\ (e \in Gone(base, m, R) => Home[e.dst] # m)
          /\ e \in Held(base, com, o) \/ e \in es
      BY <2>3 DEF Reaching
    <3>2. e \notin Gone(base, m, R)
      BY <2>1, <3>1 DEF Remote
    <3>3. There(base, com, Pos \cup es, e)
      BY <3>1 DEF There
    <3> QED
      BY <2>1, <3>1, <3>2, <3>3, SentAtAre
  <2> QED
    BY <2>1, <2>2, <2>3 DEF There
<1>2. ASSUME NEW e \in before
      PROVE  /\ e \notin Gone(base, m, R) => e \in now
             /\ p \in Local(m) /\ t >= R[p] => e \in Gone(base, m, R)
             /\ e \in Gone(base, m, R) => p \in Local(m) /\ t >= R[p]
  <2>1. /\ There(base, com, Pos \cup es, e) /\ e \notin Neg /\ e \notin drop /\ e.src = p /\ e.send = t
    BY SentAtAre
  <2>2. ASSUME e \notin Gone(base, m, R) PROVE e \in now
    <3>1. There(after, com, Pos, e)
      <4>1. CASE e \in Pos
        BY <4>1 DEF There
      <4>2. CASE e \in es
        <5>1. e.dst \in Object /\ e \in Active(after, e.dst)
          BY <4>2 DEF Reaching, Delivery, EventOK
        <5> QED
          BY <5>1 DEF There, Held
      <4>3. ASSUME NEW o \in Object, e \in Held(base, com, o) PROVE There(after, com, Pos, e)
        BY <2>1, <2>2, <4>3 DEF Reaching, There
      <4> QED
        BY <2>1, <4>1, <4>2, <4>3 DEF There
    <3>2. e \notin Remote(base, m, R)
      BY <2>2 DEF Remote
    <3> QED
      BY <2>1, <3>1, <3>2, SentAtAre
  <2>3. ASSUME p \in Local(m), t >= R[p] PROVE e \in Gone(base, m, R)
    <3>1. StandsBy(base, com, gv, e)
      BY <2>1 DEF ArrivedOK
    <3>2. Home[p] = m /\ R[p] \in Nat /\ gv[m] \in Nat /\ gv[m] <= R[p] /\ t \in Nat
      BY <2>3, TimesAreNat, RollbackTimes DEF Delivery, Local
    <3>3. ~(e.send < gv[Home[e.src]])
      BY <2>1, <2>3, <3>2
    <3>4. e \in base[p].outputs /\ e.send >= R[p]
      BY <2>1, <2>3, <3>1, <3>3 DEF StandsBy
    <3> QED
      BY <2>3, <3>4, GoneAre
  <2>4. ASSUME e \in Gone(base, m, R) PROVE p \in Local(m) /\ t >= R[p]
    BY <2>1, <2>4, GoneFacts DEF Delivery
  <2> QED
    BY <2>2, <2>3, <2>4
<1> HIDE DEF before, now
<1>3. /\ p \in Local(m) /\ t >= R[p] => now = {}
      /\ ~(p \in Local(m) /\ t >= R[p]) => now = before
  <2>1. CASE p \in Local(m) /\ t >= R[p]
    BY <1>1, <1>2, <2>1
  <2>2. CASE ~(p \in Local(m) /\ t >= R[p])
    BY <1>1, <1>2, <2>2
  <2> QED
    BY <2>1, <2>2
<1> QED
  BY <1>3 DEF before, now, TakesBack

LEMMA DeliverySent ==
  ASSUME NEW m, NEW base, NEW com, NEW gv, NEW es, NEW drop, NEW R, NEW after,
         Delivery(m, base, com, gv, es, drop, R), Moves(base, m, es, drop, R, after),
         Reaching(base, com, m, es, drop, R, after),
         NEW Pos, NEW Neg, OutputsOK(base, com, Pos \cup es, Neg \cup drop),
         ArrivedOK(base, com, gv, Pos \cup es, Neg \cup drop), Travelling(Pos, Neg, drop),
         NEW p \in Object, NEW t \in Times, SentOK(base, com, Pos \cup es, Neg \cup drop, p, t)
  PROVE  SentOK(after, com, Pos, Neg \cup Remote(base, m, R), p, t)
<1> DEFINE before == SentAt(base, com, Pos \cup es, Neg \cup drop, p, t)
           now == SentAt(after, com, Pos, Neg \cup Remote(base, m, R), p, t)
<1>0. TakesBack(m, R, p, t, before, now)
  BY DeliverySentAt
<1>1. /\ p \in Local(m) /\ t >= R[p] => now = {}
      /\ ~(p \in Local(m) /\ t >= R[p]) => now = before
  BY <1>0 DEF TakesBack
<1>2. \A d \in base[p].processed \cup com[p] : d.recv \in Nat
  BY TimesAreNat DEF Delivery, ObjectsOK, ObjectOK, EventsOK, EventOK
<1>3. t \in Nat /\ (p \in Local(m) => R[p] \in Nat)
  BY TimesAreNat DEF Delivery
<1> HIDE DEF before, now
<1>4. CASE p \in Local(m) /\ t >= R[p]
  <2>1. now = {}
    BY <1>1, <1>4
  <2>2. \A d \in UpTo(after, com, p, t) : d.recv # t
    BY <1>2, <1>3, <1>4 DEF Reaching, UpTo
  <2>3. {Content(e) : e \in now} = {}
    BY <2>1
  <2> QED
    BY <2>1, <2>2, <2>3 DEF SentOK, now
<1>5. CASE ~(p \in Local(m) /\ t >= R[p])
  <2>1. now = before
    BY <1>1, <1>5
  <2>2. \A d \in base[p].processed \cup com[p] : d.recv <= t => (p \in Local(m) => d.recv < R[p])
    BY <1>2, <1>3, <1>5
  <2>3. UpTo(after, com, p, t) = UpTo(base, com, p, t)
    BY <2>2 DEF Reaching, UpTo
  <2> QED
    BY <2>1, <2>3 DEF SentOK, now, before
<1> QED
  BY <1>4, <1>5

LEMMA DeliveryAccounts ==
  ASSUME NEW m, NEW base, NEW com, NEW gv, NEW es, NEW drop, NEW R,
         Delivery(m, base, com, gv, es, drop, R),
         NEW Pos, NEW Neg, Accounts(base, com, gv, Pos \cup es, Neg \cup drop),
         Travelling(Pos, Neg, drop), \A e \in Neg : EventOK(e)
  PROVE  Accounts(AfterDelivery(base, m, es, drop, R), com, gv, Pos, Neg \cup Remote(base, m, R))
<1>1. PICK after : after = AfterDelivery(base, m, es, drop, R)
  OBVIOUS
<1>2. OutputsOK(base, com, Pos \cup es, Neg \cup drop)
  BY DEF Accounts
<1>3. Moves(base, m, es, drop, R, after)
  <2>1. /\ m \in Manager /\ gv \in [Manager -> Times \cup {Inf}] /\ ObjectsOK(base, com, gv)
        /\ \A e \in es \cup drop : EventOK(e) /\ Home[e.dst] = m
        /\ \A o \in Local(m) : R[o] \in Nat /\ gv[m] <= R[o]
    BY DEF Delivery
  <2> QED
    BY <1>1, <1>2, <2>1, DeliveryMoves
<1>4. Reaching(base, com, m, es, drop, R, after)
  BY <1>3, DeliveryReaches
<1>5. OutputsOK(after, com, Pos, Neg \cup Remote(base, m, R))
  BY <1>2, <1>3, <1>4, DeliveryOutputs
<1>6. ArrivedOK(after, com, gv, Pos, Neg \cup Remote(base, m, R))
  BY <1>2, <1>3, <1>4, DeliveryArrived DEF Accounts
<1>7. ChasedOK(after, Pos, Neg \cup Remote(base, m, R))
  BY <1>2, <1>3, <1>4, DeliveryChased DEF Accounts
<1>8. ASSUME NEW p \in Object, NEW t \in Times \ {0}
      PROVE  SentOK(after, com, Pos, Neg \cup Remote(base, m, R), p, t)
  BY <1>2, <1>3, <1>4, DeliverySent DEF Accounts
<1> QED
  BY <1>1, <1>5, <1>6, <1>7, <1>8 DEF Accounts
-----------------------------------------------------------------------------
(* The channels *)

Flying(ch, type) ==
    UNION {UNION {x.events : x \in {y \in Range(ch[c]) : y.type = type}} : c \in DOMAIN ch}

Said(msgs, type) == UNION {x.events : x \in {y \in msgs : y.type = type}}

LEMMA FlyingAre ==
  ASSUME NEW ch, NEW type, NEW e
  PROVE  e \in Flying(ch, type) <=>
           \E c \in DOMAIN ch : \E x \in Range(ch[c]) : x.type = type /\ e \in x.events
BY DEF Flying

LEMMA SaidAre ==
  ASSUME NEW msgs, NEW type, NEW e
  PROVE  e \in Said(msgs, type) <=> \E x \in msgs : x.type = type /\ e \in x.events
BY DEF Said

\* s holds the messages of msgs for manager n, each once.
Batch(s, msgs, n) ==
    /\ s \in Seq(Range(s))
    /\ \A x : x \in Range(s) <=> x \in msgs /\ Addressed(x, n)
    /\ \A i, j \in 1..Len(s) : s[i] = s[j] => i = j

LEMMA OrdersAre ==
  ASSUME NEW msgs, IsFiniteSet(msgs), NEW order \in Orders(msgs), NEW n \in Manager
  PROVE  Batch(order[n], msgs, n)
<1> DEFINE S == {x \in msgs : Addressed(x, n)}
<1>1. order[n] \in SetToSeqs(S)
  BY DEF Orders
<1>2. IsFiniteSet(S)
  BY FS_Subset
<1>3. \A x : x \in S <=> x \in msgs /\ Addressed(x, n)
  OBVIOUS
<1> HIDE DEF S
<1>4. PICK k \in Nat : k = Cardinality(S)
  BY <1>2, FS_CardinalityType
<1>5. PICK f : f = order[n]
  OBVIOUS
<1>6. f \in [1..k -> S] /\ \A i, j \in 1..k : i # j => f[i] # f[j]
  BY <1>1, <1>4, <1>5 DEF SetToSeqs
<1>7. f \in Injection(1..k, S)
  BY <1>6 DEF Injection, IsInjective
<1>8. IsFiniteSet(1..k) /\ Cardinality(1..k) = k
  BY FS_Interval
<1>9. f \in Surjection(1..k, S)
  BY <1>2, <1>4, <1>7, <1>8, FS_Injection
<1>10. \A x \in S : \E i \in 1..k : f[i] = x
  BY <1>9 DEF Surjection
<1>11. f \in Seq(S) /\ Len(f) = k
  BY <1>6
<1>12. f \in Seq(Range(f)) /\ Range(f) = {f[i] : i \in 1..k}
  BY <1>11, RangeOf
<1>13. \A x : x \in Range(f) <=> x \in S
  BY <1>6, <1>10, <1>12
<1> QED
  BY <1>3, <1>5, <1>6, <1>11, <1>12, <1>13 DEF Batch

LEMMA SendAre ==
  ASSUME NEW ch, NEW m, NEW msgs, IsFiniteSet(msgs), Send(ch, m, msgs)
  PROVE  /\ DOMAIN chan' = Manager \X Manager
         /\ \E batch :
              /\ \A n \in Manager : Batch(batch[n], msgs, n)
              /\ \A p, n \in Manager : chan'[<<p, n>>] =
                    IF p = m THEN ch[<<p, n>>] \o batch[n] ELSE ch[<<p, n>>]
<1>1. PICK order \in Orders(msgs) :
         chan' = [c \in Manager \X Manager |-> IF c[1] = m THEN ch[c] \o order[c[2]] ELSE ch[c]]
  BY DEF Send
<1>2. \A n \in Manager : Batch(order[n], msgs, n)
  BY OrdersAre
<1>3. \A p, n \in Manager : chan'[<<p, n>>] = IF p = m THEN ch[<<p, n>>] \o order[n] ELSE ch[<<p, n>>]
  BY <1>1
<1> QED
  BY <1>1, <1>2, <1>3

LEMMA ConcatAt ==
  ASSUME NEW s, s \in Seq(Range(s)), NEW t, t \in Seq(Range(t))
  PROVE  /\ Len(s \o t) = Len(s) + Len(t) /\ Len(s) \in Nat /\ Len(t) \in Nat
         /\ s \o t \in Seq(Range(s \o t))
         /\ \A k \in 1..Len(s) : (s \o t)[k] = s[k] /\ s[k] \in Range(s)
         /\ \A k \in 1..Len(s) + Len(t) : k > Len(s) =>
               /\ (s \o t)[k] = t[k - Len(s)] /\ k - Len(s) \in 1..Len(t)
               /\ t[k - Len(s)] \in Range(t)
         /\ \A x : x \in Range(s \o t) <=> x \in Range(s) \/ x \in Range(t)
<1>1. PICK A : A = Range(s) \cup Range(t)
  OBVIOUS
<1>2. s \in Seq(A) /\ t \in Seq(A)
  <2>1. \A i \in 1..Len(s) : s[i] \in A
    BY <1>1
  <2>2. \A i \in 1..Len(t) : t[i] \in A
    BY <1>1
  <2> QED
    BY <2>1, <2>2
<1>3. s \o t \in Seq(A) /\ Len(s \o t) = Len(s) + Len(t) /\ Len(s) \in Nat /\ Len(t) \in Nat
  BY <1>2
<1>4. \A k \in 1..Len(s) : (s \o t)[k] = s[k] /\ s[k] \in Range(s)
  BY <1>2
<1>5. ASSUME NEW k \in 1..Len(s) + Len(t), k > Len(s)
      PROVE  (s \o t)[k] = t[k - Len(s)] /\ k - Len(s) \in 1..Len(t) /\ t[k - Len(s)] \in Range(t)
  BY <1>2, <1>3, <1>5
<1>6. /\ Range(s) = {s[k] : k \in 1..Len(s)} /\ Range(t) = {t[k] : k \in 1..Len(t)}
      /\ Range(s \o t) = {(s \o t)[k] : k \in 1..Len(s \o t)}
      /\ s \o t \in Seq(Range(s \o t))
  BY <1>2, <1>3, RangeOf
<1>7. ASSUME NEW x, x \in Range(s) \/ x \in Range(t) PROVE x \in Range(s \o t)
  <2>1. CASE x \in Range(s)
    <3>1. PICK k \in 1..Len(s) : x = s[k]
      BY <1>6, <2>1
    <3>2. k \in 1..Len(s \o t) /\ x = (s \o t)[k]
      BY <1>3, <1>4, <3>1
    <3> QED
      BY <1>6, <3>2
  <2>2. CASE x \in Range(t)
    <3>1. PICK k \in 1..Len(t) : x = t[k]
      BY <1>6, <2>2
    <3>2. Len(s) + k \in 1..Len(s \o t) /\ x = (s \o t)[Len(s) + k]
      BY <1>2, <1>3, <3>1
    <3> QED
      BY <1>6, <3>2
  <2> QED
    BY <1>7, <2>1, <2>2
<1>8. ASSUME NEW x \in Range(s \o t) PROVE x \in Range(s) \/ x \in Range(t)
  <2>1. PICK k \in 1..Len(s) + Len(t) : x = (s \o t)[k]
    BY <1>3, <1>6
  <2>2. k <= Len(s) \/ k > Len(s)
    BY <1>3
  <2> QED
    BY <1>3, <1>4, <1>5, <2>1, <2>2
<1> QED
  BY <1>3, <1>4, <1>5, <1>6, <1>7, <1>8

\* What manager p may send to n after s.
MayFollow(s, t, p, n) ==
    /\ \A x \in Range(t) :
          /\ x.type = "event" => \A e \in x.events : x = EventMessage(e)
          /\ \A e \in x.events : Home[e.src] = p /\ p # n
    /\ \A x \in Range(t) : x.type = "event" => \A e \in x.events : \A y :
          (y \in Range(s) \/ y \in Range(t)) /\ y.type = "negative" => e \notin y.events
    /\ \A x \in Range(t) : x.type = "negative" => \A e \in x.events :
          /\ \A y \in Range(s) : y.type = "negative" => e \notin y.events
          /\ \A y \in Range(t) : y.type = "negative" /\ e \in y.events => y = x
    /\ \A i, j \in 1..Len(t) : t[i] = t[j] => i = j

LEMMA QueueAppend ==
  ASSUME NEW s, s \in Seq(Range(s)), NEW t, t \in Seq(Range(t)), NEW p, NEW n,
         QueueOK(s, p, n), MayFollow(s, t, p, n)
  PROVE  QueueOK(s \o t, p, n)
<1>1. /\ Len(s \o t) = Len(s) + Len(t) /\ Len(s) \in Nat /\ Len(t) \in Nat
      /\ \A k \in 1..Len(s) : (s \o t)[k] = s[k] /\ s[k] \in Range(s)
      /\ \A k \in 1..Len(s) + Len(t) : k > Len(s) =>
            /\ (s \o t)[k] = t[k - Len(s)] /\ k - Len(s) \in 1..Len(t)
            /\ t[k - Len(s)] \in Range(t)
  BY ConcatAt
<1>2. PICK q : q = s \o t
  OBVIOUS
<1>3. PICK L \in Nat : L = Len(s)
  BY <1>1
<1>4. PICK M \in Nat : M = Len(q) /\ M = L + Len(t)
  BY <1>1, <1>2, <1>3
<1>5. ASSUME NEW k \in 1..M
      PROVE  \/ k \in 1..L /\ q[k] = s[k] /\ q[k] \in Range(s)
             \/ k > L /\ q[k] = t[k - L] /\ k - L \in 1..Len(t) /\ q[k] \in Range(t)
  BY <1>1, <1>2, <1>3, <1>4
<1>6. ASSUME NEW k \in 1..M
      PROVE  /\ q[k].type = "event" => \A e \in q[k].events : q[k] = EventMessage(e)
             /\ \A e \in q[k].events : Home[e.src] = p /\ p # n
  <2>1. CASE k \in 1..L /\ q[k] = s[k]
    BY <1>3, <2>1 DEF QueueOK
  <2>2. CASE q[k] \in Range(t)
    BY <2>2 DEF MayFollow
  <2> QED
    BY <1>5, <2>1, <2>2
<1>7. ASSUME NEW k \in 1..M, q[k].type = "negative", NEW e \in q[k].events, NEW j \in 1..M,
             q[j].type = "event", e \in q[j].events
      PROVE  j < k
  <2>1. CASE j > L
    <3>1. q[j] \in Range(t)
      BY <1>3, <1>5, <2>1
    <3>2. q[k] \in Range(s) \/ q[k] \in Range(t)
      BY <1>5
    <3> QED
      BY <1>7, <3>1, <3>2 DEF MayFollow
  <2>2. CASE j \in 1..L /\ k > L
    BY <1>3, <2>2
  <2>3. CASE j \in 1..L /\ q[j] = s[j] /\ k \in 1..L /\ q[k] = s[k]
    BY <1>3, <1>7, <2>3 DEF QueueOK
  <2> QED
    BY <1>5, <2>1, <2>2, <2>3
<1>8. ASSUME NEW k \in 1..M, q[k].type = "negative", NEW e \in q[k].events, NEW j \in 1..M,
             q[j].type = "negative", e \in q[j].events
      PROVE  j = k
  <2>1. CASE q[j] \in Range(s) /\ q[k] \in Range(t)
    BY <1>8, <2>1 DEF MayFollow
  <2>2. CASE q[k] \in Range(s) /\ q[j] \in Range(t)
    BY <1>8, <2>2 DEF MayFollow
  <2>3. CASE j \in 1..L /\ q[j] = s[j] /\ k \in 1..L /\ q[k] = s[k]
    BY <1>3, <1>8, <2>3 DEF QueueOK
  <2>4. CASE /\ j > L /\ q[j] = t[j - L] /\ j - L \in 1..Len(t) /\ q[j] \in Range(t)
             /\ k > L /\ q[k] = t[k - L] /\ k - L \in 1..Len(t) /\ q[k] \in Range(t)
    <3>1. q[j] = q[k]
      BY <1>8, <2>4 DEF MayFollow
    <3>2. j - L = k - L
      BY <2>4, <3>1, ZenonT(60) DEF MayFollow
    <3> QED
      BY <3>2
  <2> QED
    BY <1>5, <2>1, <2>2, <2>3, <2>4
<1>9. QueueOK(q, p, n)
  BY <1>4, <1>6, <1>7, <1>8 DEF QueueOK
<1> QED
  BY <1>2, <1>9

LEMMA TailAt ==
  ASSUME NEW s, s \in Seq(Range(s)), s # <<>>
  PROVE  /\ Len(s) \in Nat /\ Len(s) >= 1 /\ Len(Tail(s)) = Len(s) - 1 /\ Head(s) = s[1]
         /\ \A k \in 1..Len(s) - 1 : Tail(s)[k] = s[k + 1]
         /\ \A x : x \in Range(s) <=> x = Head(s) \/ x \in Range(Tail(s))
         /\ Tail(s) \in Seq(Range(Tail(s)))
<1>1. PICK A : A = Range(s)
  OBVIOUS
<1>2. s \in Seq(A)
  BY <1>1
<1>3. /\ Len(s) \in Nat /\ Len(s) >= 1 /\ Len(Tail(s)) = Len(s) - 1 /\ Head(s) = s[1]
      /\ \A k \in 1..Len(s) - 1 : Tail(s)[k] = s[k + 1]
      /\ Tail(s) \in Seq(A)
  BY <1>2
<1>4. /\ Range(s) = {s[k] : k \in 1..Len(s)} /\ Range(Tail(s)) = {Tail(s)[k] : k \in 1..Len(Tail(s))}
      /\ Tail(s) \in Seq(Range(Tail(s)))
  BY <1>2, <1>3, RangeOf
<1>5. ASSUME NEW x \in Range(s), x # Head(s) PROVE x \in Range(Tail(s))
  <2>1. PICK k \in 1..Len(s) : x = s[k]
    BY <1>4
  <2>2. k # 1
    BY <1>3, <1>5, <2>1
  <2>3. k - 1 \in 1..Len(s) - 1 /\ x = Tail(s)[k - 1]
    BY <1>3, <2>1, <2>2
  <2> QED
    BY <1>3, <1>4, <2>3
<1>6. ASSUME NEW x \in Range(Tail(s)) PROVE x \in Range(s)
  <2>1. PICK k \in 1..Len(s) - 1 : x = Tail(s)[k]
    BY <1>3, <1>4
  <2>2. k + 1 \in 1..Len(s) /\ x = s[k + 1]
    BY <1>3, <2>1
  <2> QED
    BY <1>4, <2>2
<1>7. Head(s) \in Range(s)
  <2>1. 1 \in 1..Len(s)
    BY <1>3
  <2> QED
    BY <1>3, <1>4, <2>1
<1> QED
  BY <1>3, <1>4, <1>5, <1>6, <1>7

LEMMA QueueTail ==
  ASSUME NEW s, s \in Seq(Range(s)), s # <<>>, NEW p, NEW n, QueueOK(s, p, n)
  PROVE  /\ QueueOK(Tail(s), p, n)
         /\ Head(s).type = "event" => \A e \in Head(s).events : Head(s) = EventMessage(e)
         /\ \A e \in Head(s).events : Home[e.src] = p /\ p # n
         /\ Head(s).type = "negative" => \A e \in Head(s).events : \A y \in Range(Tail(s)) :
               y.type \in {"event", "negative"} => e \notin y.events
<1>1. PICK L \in Nat : L = Len(s) /\ L >= 1
  BY TailAt
<1>2. PICK q : q = Tail(s)
  OBVIOUS
<1>3. Len(q) = L - 1 /\ Head(s) = s[1] /\ \A k \in 1..L - 1 : q[k] = s[k + 1]
  BY <1>1, <1>2, TailAt
<1>4. ASSUME NEW k \in 1..L - 1 PROVE k + 1 \in 1..L /\ q[k] = s[k + 1]
  BY <1>3
<1>5. QueueOK(q, p, n)
  <2>1. ASSUME NEW k \in 1..L - 1
        PROVE  /\ q[k].type = "event" => \A e \in q[k].events : q[k] = EventMessage(e)
               /\ \A e \in q[k].events : Home[e.src] = p /\ p # n
    BY <1>1, <1>4 DEF QueueOK
  <2>2. ASSUME NEW k \in 1..L - 1, q[k].type = "negative", NEW e \in q[k].events, NEW j \in 1..L - 1
        PROVE  /\ q[j].type = "event" /\ e \in q[j].events => j < k
               /\ q[j].type = "negative" /\ e \in q[j].events => j = k
    <3>1. /\ q[j].type = "event" /\ e \in q[j].events => j + 1 < k + 1
          /\ q[j].type = "negative" /\ e \in q[j].events => j + 1 = k + 1
      BY <1>1, <1>4, <2>2 DEF QueueOK
    <3> QED
      BY <3>1
  <2> QED
    BY <1>3, <2>1, <2>2 DEF QueueOK
<1>6. 1 \in 1..L
  BY <1>1
<1>7. /\ Head(s).type = "event" => \A e \in Head(s).events : Head(s) = EventMessage(e)
      /\ \A e \in Head(s).events : Home[e.src] = p /\ p # n
  BY <1>1, <1>3, <1>6 DEF QueueOK
<1>8. ASSUME Head(s).type = "negative", NEW e \in Head(s).events, NEW y \in Range(q),
             y.type \in {"event", "negative"}, e \in y.events
      PROVE  FALSE
  <2>1. q \in Seq(Range(q))
    BY <1>2, TailAt
  <2>2. PICK k \in 1..L - 1 : y = q[k]
    BY <1>3, <2>1, RangeOf
  <2>3. k + 1 \in 1..L /\ y = s[k + 1]
    BY <1>4, <2>2
  <2>4. k + 1 < 1 \/ k + 1 = 1
    BY <1>1, <1>3, <1>6, <1>8, <2>3 DEF QueueOK
  <2> QED
    BY <2>4
<1> QED
  BY <1>2, <1>5, <1>7, <1>8
-----------------------------------------------------------------------------
(* What leaves with a handler *)

\* The messages msgs that manager m may send when ch is on its way.
Letters(ch, m, msgs) ==
    /\ \A x \in msgs : x.type = "event" => \A e \in x.events : x = EventMessage(e)
    /\ \A x \in msgs : \A e \in x.events :
          Home[e.src] = m /\ \E n \in Manager : n # m /\ Home[e.dst] = n /\ Addressed(x, n)
    /\ \A e \in Said(msgs, "event") : e \notin Flying(ch, "negative") /\ e \notin Said(msgs, "negative")
    /\ \A e \in Said(msgs, "negative") : e \notin Flying(ch, "negative")
    /\ \A x, y \in msgs : \A e \in x.events :
          x.type = "negative" /\ y.type = "negative" /\ e \in y.events => x = y

LEMMA SendQueues ==
  ASSUME NEW ch, ChannelsOK(ch), QueuesOK(ch), NEW m \in Manager, NEW msgs, IsFiniteSet(msgs),
         Letters(ch, m, msgs), Send(ch, m, msgs)
  PROVE  /\ QueuesOK(chan')
         /\ \A type, e : e \in Flying(chan', type) <=> e \in Flying(ch, type) \/ e \in Said(msgs, type)
<1>1. PICK batch :
        /\ DOMAIN chan' = Manager \X Manager
        /\ \A n \in Manager : Batch(batch[n], msgs, n)
        /\ \A p, n \in Manager : chan'[<<p, n>>] =
              IF p = m THEN ch[<<p, n>>] \o batch[n] ELSE ch[<<p, n>>]
  BY SendAre
<1>2. ASSUME NEW p \in Manager, NEW n \in Manager
      PROVE  <<p, n>> \in DOMAIN ch /\ ch[<<p, n>>] \in Seq(Range(ch[<<p, n>>]))
  <2>1. <<p, n>> \in Manager \X Manager
    OBVIOUS
  <2> QED
    BY <2>1 DEF ChannelsOK, ChannelOK
<1>3. ASSUME NEW n \in Manager PROVE MayFollow(ch[<<m, n>>], batch[n], m, n)
  <2>1. PICK s, t : s = ch[<<m, n>>] /\ t = batch[n]
    OBVIOUS
  <2>2. Batch(t, msgs, n)
    BY <1>1, <2>1
  <2>3. \A x \in Range(t) : x \in msgs /\ Addressed(x, n)
    BY <2>2 DEF Batch
  <2>4. ASSUME NEW y \in Range(s), y.type = "negative", NEW e \in y.events
        PROVE  e \in Flying(ch, "negative")
    BY <1>2, <2>1, <2>4, FlyingAre
  <2>5. ASSUME NEW x \in Range(t), NEW e \in x.events
        PROVE  x \in msgs /\ Home[e.src] = m /\ m # n /\ e \in Said(msgs, x.type)
    <3>1. x \in msgs /\ Addressed(x, n)
      BY <2>3
    <3>2. Home[e.src] = m /\ Home[e.dst] # m
      BY <3>1 DEF Letters
    <3>3. Home[e.dst] = n
      BY <3>1 DEF Addressed
    <3> QED
      BY <3>1, <3>2, <3>3, SaidAre
  <2>6. \A x \in Range(t) :
          /\ x.type = "event" => \A e \in x.events : x = EventMessage(e)
          /\ \A e \in x.events : Home[e.src] = m /\ m # n
    BY <2>3, <2>5 DEF Letters
  <2>7. ASSUME NEW x \in Range(t), x.type = "event", NEW e \in x.events, NEW y,
               y \in Range(s) \/ y \in Range(t), y.type = "negative", e \in y.events
        PROVE  FALSE
    <3>1. e \in Said(msgs, "event")
      BY <2>5, <2>7
    <3>2. y \in Range(s) => e \in Flying(ch, "negative")
      BY <2>4, <2>7
    <3>3. y \in Range(t) => e \in Said(msgs, "negative")
      BY <2>5, <2>7
    <3> QED
      BY <2>7, <3>1, <3>2, <3>3 DEF Letters
  <2>8. ASSUME NEW x \in Range(t), x.type = "negative", NEW e \in x.events
        PROVE  /\ \A y \in Range(s) : y.type = "negative" => e \notin y.events
               /\ \A y \in Range(t) : y.type = "negative" /\ e \in y.events => y = x
    <3>1. e \in Said(msgs, "negative")
      BY <2>5, <2>8
    <3>2. e \notin Flying(ch, "negative")
      BY <3>1 DEF Letters
    <3> QED
      BY <2>3, <2>4, <2>8, <3>2 DEF Letters
  <2>9. MayFollow(s, t, m, n)
    BY <2>2, <2>6, <2>7, <2>8 DEF MayFollow, Batch
  <2> QED
    BY <2>1, <2>9
<1>4. ASSUME NEW p \in Manager, NEW n \in Manager PROVE QueueOK(chan'[<<p, n>>], p, n)
  <2>1. PICK s, t : s = ch[<<p, n>>] /\ t = batch[n]
    OBVIOUS
  <2>2. s \in Seq(Range(s)) /\ t \in Seq(Range(t)) /\ QueueOK(s, p, n)
    BY <1>1, <1>2, <2>1 DEF Batch, QueuesOK
  <2>3. CASE p = m
    <3>1. MayFollow(s, t, p, n)
      BY <1>3, <2>1, <2>3
    <3>2. QueueOK(s \o t, p, n)
      BY <2>2, <3>1, QueueAppend
    <3> QED
      BY <1>1, <2>1, <2>3, <3>2
  <2>4. CASE p # m
    BY <1>1, <2>1, <2>2, <2>4
  <2> QED
    BY <2>3, <2>4
<1>5. ASSUME NEW p \in Manager, NEW n \in Manager, NEW x
      PROVE  x \in Range(chan'[<<p, n>>]) <=>
               x \in Range(ch[<<p, n>>]) \/ (p = m /\ x \in msgs /\ Addressed(x, n))
  <2>1. PICK s, t : s = ch[<<p, n>>] /\ t = batch[n]
    OBVIOUS
  <2>2. s \in Seq(Range(s)) /\ t \in Seq(Range(t)) /\ (x \in Range(t) <=> x \in msgs /\ Addressed(x, n))
    BY <1>1, <1>2, <2>1 DEF Batch
  <2>3. CASE p = m
    <3>1. x \in Range(s \o t) <=> x \in Range(s) \/ x \in Range(t)
      BY <2>2, ConcatAt
    <3> QED
      BY <1>1, <2>1, <2>2, <2>3, <3>1
  <2>4. CASE p # m
    BY <1>1, <2>1, <2>4
  <2> QED
    BY <2>3, <2>4
<1>6. DOMAIN ch = Manager \X Manager /\ DOMAIN chan' = Manager \X Manager
  BY <1>1 DEF ChannelsOK
<1>7. ASSUME NEW type, NEW e, e \in Flying(chan', type) PROVE e \in Flying(ch, type) \/ e \in Said(msgs, type)
  <2>1. PICK p \in Manager, n \in Manager : \E x \in Range(chan'[<<p, n>>]) : x.type = type /\ e \in x.events
    <3>1. PICK c \in Manager \X Manager : \E x \in Range(chan'[c]) : x.type = type /\ e \in x.events
      BY <1>6, <1>7, FlyingAre
    <3>2. PICK p \in Manager, n \in Manager : c = <<p, n>>
      OBVIOUS
    <3> QED
      BY <3>1, <3>2
  <2>2. PICK x \in Range(chan'[<<p, n>>]) : x.type = type /\ e \in x.events
    BY <2>1
  <2>3. x \in Range(ch[<<p, n>>]) \/ x \in msgs
    BY <1>5
  <2> QED
    BY <1>2, <2>2, <2>3, FlyingAre, SaidAre
<1>8. ASSUME NEW type, NEW e, e \in Flying(ch, type) \/ e \in Said(msgs, type) PROVE e \in Flying(chan', type)
  <2>1. CASE e \in Flying(ch, type)
    <3>1. PICK p \in Manager, n \in Manager : \E x \in Range(ch[<<p, n>>]) : x.type = type /\ e \in x.events
      <4>1. PICK c \in Manager \X Manager : \E x \in Range(ch[c]) : x.type = type /\ e \in x.events
        BY <1>6, <2>1, FlyingAre
      <4>2. PICK p \in Manager, n \in Manager : c = <<p, n>>
        OBVIOUS
      <4> QED
        BY <4>1, <4>2
    <3>2. PICK x \in Range(ch[<<p, n>>]) : x.type = type /\ e \in x.events
      BY <3>1
    <3>3. x \in Range(chan'[<<p, n>>]) /\ <<p, n>> \in DOMAIN chan'
      BY <1>5, <1>6
    <3> QED
      BY <3>2, <3>3, FlyingAre
  <2>2. CASE e \in Said(msgs, type)
    <3>1. PICK x \in msgs : x.type = type /\ e \in x.events
      BY <2>2, SaidAre
    <3>2. PICK n \in Manager : Addressed(x, n)
      BY <3>1 DEF Letters
    <3>3. x \in Range(chan'[<<m, n>>]) /\ <<m, n>> \in DOMAIN chan'
      BY <1>5, <1>6, <3>2
    <3> QED
      BY <3>1, <3>3, FlyingAre
  <2> QED
    BY <1>8, <2>1, <2>2
<1> QED
  BY <1>4, <1>7, <1>8 DEF QueuesOK

\* An anti-message is about what one object sent to another one elsewhere.
LEMMA AntiMessageAre ==
  ASSUME NEW base, NEW m, NEW R, NEW x
  PROVE  x \in AntiMessages(base, m, R) <=>
           \E p \in Local(m), d \in Object \ Local(m) :
              /\ {e \in Cancelled(base[p], R[p]) : e.dst = d} # {}
              /\ x = NegativeEventMessage({e \in Cancelled(base[p], R[p]) : e.dst = d})
<1> DEFINE to(o, d) == {e \in Cancelled(base[o], R[o]) : e.dst = d}
           J == {q \in Local(m) \X (Object \ Local(m)) : to(q[1], q[2]) # {}}
<1>1. AntiMessages(base, m, R) = {NegativeEventMessage(to(q[1], q[2])) : q \in J}
  BY DEF AntiMessages
<1>2. ASSUME NEW p \in Local(m), NEW d \in Object \ Local(m), to(p, d) # {}, x = NegativeEventMessage(to(p, d))
      PROVE  x \in AntiMessages(base, m, R)
  <2>1. PICK q : q = <<p, d>>
    OBVIOUS
  <2>2. q \in Local(m) \X (Object \ Local(m)) /\ q[1] = p /\ q[2] = d
    BY <2>1
  <2> HIDE DEF to
  <2>3. q \in J /\ x = NegativeEventMessage(to(q[1], q[2]))
    BY <1>2, <2>2
  <2> HIDE DEF J
  <2> QED
    BY <1>1, <2>3
<1>3. ASSUME x \in AntiMessages(base, m, R)
      PROVE  \E p \in Local(m), d \in Object \ Local(m) :
                to(p, d) # {} /\ x = NegativeEventMessage(to(p, d))
  <2>1. PICK q \in J : x = NegativeEventMessage(to(q[1], q[2]))
    BY <1>1, <1>3
  <2>2. q[1] \in Local(m) /\ q[2] \in Object \ Local(m) /\ to(q[1], q[2]) # {}
    OBVIOUS
  <2> HIDE DEF to
  <2> QED
    BY <2>1, <2>2
<1> QED
  BY <1>2, <1>3

\* The anti-messages A of manager m are about the events E, each about once.
Revokes(A, m, E) ==
    /\ \A x \in A :
          /\ x.type = "negative"
          /\ \A e \in x.events :
                /\ e \in E /\ EventOK(e) /\ Home[e.src] = m
                /\ \E n \in Manager : n # m /\ Home[e.dst] = n /\ Addressed(x, n)
          /\ \A y \in A : \A e \in x.events : e \in y.events => x = y
    /\ \A e \in E : \E x \in A : e \in x.events

LEMMA AntiMessageFacts ==
  ASSUME NEW base, NEW com, NEW gv, ObjectsOK(base, com, gv), NEW m \in Manager, NEW R
  PROVE  Revokes(AntiMessages(base, m, R), m, Remote(base, m, R))
<1> DEFINE to(o, d) == {e \in Cancelled(base[o], R[o]) : e.dst = d}
<1>1. ASSUME NEW p \in Local(m), NEW d \in Object \ Local(m), NEW e
      PROVE  e \in to(p, d) <=> e \in base[p].outputs /\ e.send >= R[p] /\ e.dst = d
  BY DEF Cancelled
<1>2. \A d \in Object \ Local(m) : Home[d] # m /\ Home[d] \in Manager
  BY HomeAssumption DEF Local
<1>3. \A p \in Local(m) : \A e \in base[p].outputs : EventOK(e) /\ e.src = p /\ Home[p] = m
  BY DEF Local, ObjectsOK, ObjectOK, EventsOK
<1>4. ASSUME NEW x
      PROVE  x \in AntiMessages(base, m, R) <=>
               \E p \in Local(m), d \in Object \ Local(m) : to(p, d) # {} /\ x = NegativeEventMessage(to(p, d))
  BY AntiMessageAre
<1> HIDE DEF to
<1>5. ASSUME NEW x \in AntiMessages(base, m, R)
      PROVE  \E p \in Local(m), d \in Object \ Local(m) : x.type = "negative" /\ x = NegativeEventMessage(to(p, d)) /\ x.events = to(p, d)
  BY <1>4 DEF NegativeEventMessage
<1>6. ASSUME NEW x \in AntiMessages(base, m, R), NEW e \in x.events
      PROVE  /\ e \in Remote(base, m, R) /\ EventOK(e) /\ Home[e.src] = m
             /\ \E n \in Manager : n # m /\ Home[e.dst] = n /\ Addressed(x, n)
  <2>1. PICK p \in Local(m), d \in Object \ Local(m) : x.events = to(p, d)
    BY <1>5
  <2>2. e \in base[p].outputs /\ e.send >= R[p] /\ e.dst = d
    BY <1>1, <2>1
  <2>3. e \in Gone(base, m, R)
    BY <2>2, GoneAre
  <2>4. \A y \in x.events : y.dst = d
    BY <1>1, <2>1
  <2> QED
    BY <1>2, <1>3, <2>2, <2>3, <2>4 DEF Remote, Addressed
<1>7. ASSUME NEW x \in AntiMessages(base, m, R), NEW y \in AntiMessages(base, m, R),
             NEW e \in x.events, e \in y.events
      PROVE  x = y
  <2>1. PICK p \in Local(m), d \in Object \ Local(m) : x = NegativeEventMessage(to(p, d)) /\ x.events = to(p, d)
    BY <1>5
  <2>2. PICK q \in Local(m), b \in Object \ Local(m) : y = NegativeEventMessage(to(q, b)) /\ y.events = to(q, b)
    BY <1>5
  <2>3. e \in base[p].outputs /\ e.dst = d /\ e \in base[q].outputs /\ e.dst = b
    BY <1>1, <1>7, <2>1, <2>2
  <2>4. p = q /\ d = b
    BY <1>3, <2>3
  <2> QED
    BY <2>1, <2>2, <2>4
<1>8. ASSUME NEW e \in Remote(base, m, R) PROVE \E x \in AntiMessages(base, m, R) : e \in x.events
  <2>1. e \in Gone(base, m, R) /\ Home[e.dst] # m
    BY DEF Remote
  <2>2. PICK p \in Local(m) : e \in base[p].outputs /\ e.send >= R[p]
    BY <2>1, GoneAre
  <2>3. e.dst \in Object \ Local(m)
    BY <1>3, <2>1, <2>2 DEF EventOK, Local
  <2>4. e \in to(p, e.dst)
    BY <1>1, <2>2, <2>3
  <2>5. PICK x : x = NegativeEventMessage(to(p, e.dst))
    OBVIOUS
  <2>6. x \in AntiMessages(base, m, R)
    BY <1>4, <2>3, <2>4, <2>5
  <2>7. x.events = to(p, e.dst)
    BY <2>5 DEF NegativeEventMessage
  <2> QED
    BY <2>4, <2>6, <2>7
<1> QED
  BY <1>5, <1>6, <1>7, <1>8 DEF Revokes

\* What a handler of manager m starts from: es reaches its objects, far goes out.
Handling(ch, m, base, com, gv, es, drop, far) ==
    /\ ObjectsOK(base, com, gv) /\ ChannelsOK(ch) /\ QueuesOK(ch)
    /\ gv \in [Manager -> Times \cup {Inf}]
    /\ \A e \in es \cup drop : EventOK(e) /\ Home[e.dst] = m /\ \A k \in Manager : gv[k] <= e.recv
    /\ \A e \in es : e \notin drop
    /\ IsFiniteSet(far)
    /\ \A e \in far : EventOK(e) /\ Home[e.src] = m /\ Home[e.dst] # m /\ e \notin Flying(ch, "negative")
    /\ \A e \in drop : e \notin Flying(ch, "event") /\ e \notin far /\ e \notin Flying(ch, "negative")
    /\ \A e \in es \cup far : e \notin Gone(base, m, CascadeTimes(base, m, Asked(es \cup drop)))
    /\ Accounts(base, com, gv, Flying(ch, "event") \cup far \cup es, Flying(ch, "negative") \cup drop)

LEMMA HandlingDelivers ==
  ASSUME NEW m \in Manager, NEW ch, NEW base, NEW com, NEW gv, NEW es, NEW drop, NEW far,
         Handling(ch, m, base, com, gv, es, drop, far),
         NEW R, R = CascadeTimes(base, m, Asked(es \cup drop))
  PROVE  Delivery(m, base, com, gv, es, drop, R)
<1>1. /\ ObjectsOK(base, com, gv) /\ gv \in [Manager -> Times \cup {Inf}]
      /\ \A e \in es \cup drop : EventOK(e) /\ Home[e.dst] = m /\ \A k \in Manager : gv[k] <= e.recv
  BY DEF Handling
<1>2. \A k \in Manager : gv[k] \in Nat /\ gv[k] <= Inf
  BY <1>1, RollbackTimes
<1>3. /\ ObjectsOK(AfterDelivery(base, m, es, drop, R), com, gv)
      /\ \A o \in Local(m) : R[o] \in Nat
      /\ \A b \in Nat : b <= Inf /\ (\A e \in es \cup drop : b <= e.recv) =>
            \A o \in Local(m) : b <= R[o]
      /\ \A b \in Nat : b <= Inf /\ (\A e \in es \cup drop : b <= e.recv) /\ WaitAfter(b, base) =>
            WaitAfter(b, AfterDelivery(base, m, es, drop, R))
      /\ Carries(base, m, R)
      /\ \A e \in es \cup drop : R[e.dst] <= e.recv \/ (R[e.dst] = Inf /\ e.recv > base[e.dst].lvt)
  <2>1. \A e \in es \cup drop : EventOK(e) /\ Home[e.dst] = m /\ gv[m] <= e.recv
    BY <1>1
  <2>2. LET Q == CascadeTimes(base, m, Asked(es \cup drop))
            after == AfterDelivery(base, m, es, drop, Q) IN
        /\ ObjectsOK(after, com, gv)
        /\ \A o \in Local(m) : Q[o] \in Nat
        /\ \A b \in Nat : b <= Inf /\ (\A e \in es \cup drop : b <= e.recv) =>
              \A o \in Local(m) : b <= Q[o]
        /\ \A b \in Nat : b <= Inf /\ (\A e \in es \cup drop : b <= e.recv) /\ WaitAfter(b, base) =>
              WaitAfter(b, after)
        /\ Carries(base, m, Q)
        /\ \A e \in es \cup drop : Q[e.dst] <= e.recv \/ (Q[e.dst] = Inf /\ e.recv > base[e.dst].lvt)
    BY <1>1, <2>1, DeliverObjects, ZenonT(60)
  <2> QED
    BY <2>2
<1>4. \A o \in Local(m) : \A k \in Manager : gv[k] <= R[o]
  BY <1>1, <1>2, <1>3
<1> QED
  BY <1>1, <1>3, <1>4 DEF Delivery, Handling

LEMMA HandlingAccounts ==
  ASSUME NEW m \in Manager, NEW ch, NEW base, NEW com, NEW gv, NEW es, NEW drop, NEW far,
         Handling(ch, m, base, com, gv, es, drop, far),
         NEW R, R = CascadeTimes(base, m, Asked(es \cup drop))
  PROVE  /\ Accounts(AfterDelivery(base, m, es, drop, R), com, gv,
                     Flying(ch, "event") \cup far, Flying(ch, "negative") \cup Remote(base, m, R))
<1>1. PICK Pos, Neg : Pos = Flying(ch, "event") \cup far /\ Neg = Flying(ch, "negative")
  OBVIOUS
<1>2. Delivery(m, base, com, gv, es, drop, R)
  BY HandlingDelivers
<1>3. Accounts(base, com, gv, Pos \cup es, Neg \cup drop)
  BY <1>1 DEF Handling
<1>4. ASSUME NEW type, NEW e \in Flying(ch, type)
      PROVE  EventOK(e) /\ Home[e.src] # Home[e.dst]
  <2>1. PICK c \in Manager \X Manager : \E x \in Range(ch[c]) : x.type = type /\ e \in x.events
    BY FlyingAre DEF Handling, ChannelsOK
  <2>2. PICK p \in Manager, n \in Manager : c = <<p, n>>
    OBVIOUS
  <2>3. PICK s : s = ch[c]
    OBVIOUS
  <2>4. PICK x \in Range(s) : x.type = type /\ e \in x.events
    BY <2>1, <2>3
  <2>5. /\ s \in Seq(Range(s)) /\ QueueOK(s, p, n)
        /\ EventOK(e) /\ Home[e.dst] = n
    BY <2>2, <2>3, <2>4 DEF Handling, ChannelsOK, ChannelOK, QueuesOK
  <2>6. PICK k \in 1..Len(s) : x = s[k]
    BY <2>5, RangeOf
  <2> QED
    BY <2>4, <2>5, <2>6 DEF QueueOK
<1>5. Travelling(Pos, Neg, drop)
  BY <1>1, <1>4 DEF Travelling, Handling
<1>6. \A e \in Neg : EventOK(e)
  BY <1>1, <1>4
<1>7. Accounts(AfterDelivery(base, m, es, drop, R), com, gv, Pos, Neg \cup Remote(base, m, R))
  BY <1>2, <1>3, <1>5, <1>6, DeliveryAccounts
<1> QED
  BY <1>1, <1>7

\* One message per event of E.
Mailed(msgs, E) == msgs = {EventMessage(e) : e \in E}

LEMMA EventMessageAre ==
  ASSUME NEW E, NEW msgs, Mailed(msgs, E)
  PROVE  /\ \A x \in msgs : x.type = "event" /\ \A e \in x.events : e \in E /\ x = EventMessage(e)
         /\ \A e \in E : \E x \in msgs : x.type = "event" /\ e \in x.events
         /\ \A x \in msgs : \E e \in E : x.events = {e}
<1>1. ASSUME NEW x \in msgs
      PROVE  /\ x.type = "event" /\ \E e \in E : x.events = {e}
             /\ \A e \in x.events : e \in E /\ x = EventMessage(e)
  <2>1. PICK d \in E : x = EventMessage(d)
    BY DEF Mailed
  <2>2. x.type = "event" /\ x.events = {d}
    BY <2>1 DEF EventMessage
  <2> QED
    BY <2>1, <2>2
<1>2. ASSUME NEW e \in E PROVE \E x \in msgs : x.type = "event" /\ e \in x.events
  <2>1. PICK x : x = EventMessage(e)
    OBVIOUS
  <2>2. x \in msgs /\ x.type = "event" /\ x.events = {e}
    BY <2>1 DEF EventMessage, Mailed
  <2> QED
    BY <2>2
<1> QED
  BY <1>1, <1>2

\* The messages msgs carry the events P and cancel N.
Says(msgs, P, N) ==
    /\ \A e : e \in Said(msgs, "event") <=> e \in P
    /\ \A e : e \in Said(msgs, "negative") <=> e \in N

\* A handler may send its events and anti-messages.
LEMMA HandlingLetters ==
  ASSUME NEW m \in Manager, NEW ch, NEW base, NEW com, NEW gv, NEW es, NEW drop, NEW far,
         Handling(ch, m, base, com, gv, es, drop, far),
         NEW R, R = CascadeTimes(base, m, Asked(es \cup drop)),
         NEW msgs, Mailed(msgs, far),
         NEW all, all = AntiMessages(base, m, R) \cup msgs
  PROVE  Letters(ch, m, all) /\ Says(all, far, Remote(base, m, R))
<1>1. ObjectsOK(base, com, gv)
  BY DEF Handling
<1>0. Revokes(AntiMessages(base, m, R), m, Remote(base, m, R))
  BY <1>1, AntiMessageFacts
<1>2. /\ \A x \in AntiMessages(base, m, R) :
             /\ x.type = "negative"
             /\ \A e \in x.events :
                   /\ e \in Remote(base, m, R) /\ EventOK(e) /\ Home[e.src] = m
                   /\ \E n \in Manager : n # m /\ Home[e.dst] = n /\ Addressed(x, n)
             /\ \A y \in AntiMessages(base, m, R) : \A e \in x.events : e \in y.events => x = y
      /\ \A e \in Remote(base, m, R) : \E x \in AntiMessages(base, m, R) : e \in x.events
  BY <1>0 DEF Revokes
<1>3. /\ \A x \in msgs : x.type = "event" /\ \A e \in x.events : e \in far /\ x = EventMessage(e)
      /\ \A e \in far : \E x \in msgs : x.type = "event" /\ e \in x.events
      /\ \A x \in msgs : \E e \in far : x.events = {e}
  BY EventMessageAre
<1>4. "event" # "negative"
  OBVIOUS
<1>5. ASSUME NEW e PROVE e \in Said(all, "event") <=> e \in far
  <2>1. e \in Said(all, "event") <=> \E x \in all : x.type = "event" /\ e \in x.events
    BY ONLY SaidAre
  <2>2. ASSUME NEW x \in all, x.type = "event", e \in x.events PROVE e \in far
    <3>1. x \in msgs
      BY <1>2, <1>4, <2>2
    <3> QED
      BY <1>3, <2>2, <3>1
  <2>3. ASSUME e \in far PROVE \E x \in all : x.type = "event" /\ e \in x.events
    BY <1>3, <2>3
  <2> QED
    BY <2>1, <2>2, <2>3
<1>6. ASSUME NEW e PROVE e \in Said(all, "negative") <=> e \in Remote(base, m, R)
  <2>1. e \in Said(all, "negative") <=> \E x \in all : x.type = "negative" /\ e \in x.events
    BY ONLY SaidAre
  <2>2. ASSUME NEW x \in all, x.type = "negative", e \in x.events PROVE e \in Remote(base, m, R)
    <3>1. x \in AntiMessages(base, m, R)
      BY <1>3, <1>4, <2>2
    <3> QED
      BY <1>2, <2>2, <3>1
  <2>3. ASSUME e \in Remote(base, m, R) PROVE \E x \in all : x.type = "negative" /\ e \in x.events
    <3>1. PICK x \in AntiMessages(base, m, R) : x.type = "negative" /\ e \in x.events
      BY <1>2, <2>3
    <3> QED
      BY <3>1
  <2> QED
    BY <2>1, <2>2, <2>3
<1>7. \A x \in all : x.type = "event" => \A e \in x.events : x = EventMessage(e)
  BY <1>2, <1>3, <1>4
<1>8. ASSUME NEW x \in all, NEW e \in x.events
      PROVE  Home[e.src] = m /\ \E n \in Manager : n # m /\ Home[e.dst] = n /\ Addressed(x, n)
  <2>1. CASE x \in AntiMessages(base, m, R)
    BY <1>2, <2>1
  <2>2. CASE x \in msgs
    <3>1. e \in far /\ x.events = {e}
      BY <1>3, <2>2
    <3>2. Home[e.src] = m /\ Home[e.dst] # m /\ Home[e.dst] \in Manager
      BY <3>1, HomeAssumption DEF Handling, EventOK
    <3> QED
      BY <3>1, <3>2 DEF Addressed
  <2> QED
    BY <2>1, <2>2
<1>9. ASSUME NEW e \in far PROVE e \notin Flying(ch, "negative") /\ e \notin Remote(base, m, R)
  BY DEF Handling, Remote
<1>10. ASSUME NEW e \in Remote(base, m, R) PROVE e \notin Flying(ch, "negative")
  <2>1. e \in Gone(base, m, R)
    BY DEF Remote
  <2>2. e.src \in Object /\ e \in base[e.src].outputs
    BY <1>1, <2>1, GoneFacts DEF Local
  <2> QED
    BY <2>2 DEF Handling, Accounts, OutputsOK
<1>11. ASSUME NEW x \in all, NEW y \in all, NEW e \in x.events,
              x.type = "negative", y.type = "negative", e \in y.events
       PROVE  x = y
  <2>1. x \in AntiMessages(base, m, R) /\ y \in AntiMessages(base, m, R)
    BY <1>3, <1>4, <1>11
  <2> QED
    BY <1>2, <1>11, <2>1
<1>12. Letters(ch, m, all)
  <2>1. \A e \in Said(all, "event") : e \notin Flying(ch, "negative") /\ e \notin Said(all, "negative")
    BY <1>5, <1>6, <1>9
  <2>2. \A e \in Said(all, "negative") : e \notin Flying(ch, "negative")
    BY <1>6, <1>10
  <2>3. \A x, y \in all : \A e \in x.events :
           x.type = "negative" /\ y.type = "negative" /\ e \in y.events => x = y
    BY ONLY <1>11
  <2>4. \A x \in all : \A e \in x.events :
           Home[e.src] = m /\ \E n \in Manager : n # m /\ Home[e.dst] = n /\ Addressed(x, n)
    BY <1>8
  <2> QED
    BY <1>7, <2>1, <2>2, <2>3, <2>4, ZenonT(60) DEF Letters
<1> QED
  BY <1>5, <1>6, <1>12 DEF Says

\* The accounts are about which events there are, however they are written down.
LEMMA SameAccounts ==
  ASSUME NEW objs, NEW com, NEW gv, NEW Pos, NEW Neg, NEW P, NEW N,
         Accounts(objs, com, gv, Pos, Neg),
         \A e : e \in P <=> e \in Pos, \A e : e \in N <=> e \in Neg
  PROVE  Accounts(objs, com, gv, P, N)
<1>1. P = Pos /\ N = Neg
  OBVIOUS
<1> QED
  BY <1>1

LEMMA FlyingIsCarried == \A type : Flying(chan, type) = Carried(type)
BY DEF Flying, Carried

LEMMA FlyingIsCarriedNext == (\A type : Flying(chan, type) = Carried(type))'
BY FlyingIsCarried, PTL

\* Whole handlers.
LEMMA HandlingStep ==
  ASSUME NEW m \in Manager, NEW ch, NEW base, NEW es, NEW drop, NEW far,
         Handling(ch, m, base, committed, gvt, es, drop, far),
         NEW msgs, Mailed(msgs, far),
         Deliver(ch, m, base, es, drop, msgs), UNCHANGED <<gvt, committed>>
  PROVE  Accounts(obj', committed', gvt', Carried("event")', Carried("negative")') /\ QueuesOK(chan')
<1>1. PICK com, gv : com = committed /\ gv = gvt
  OBVIOUS
<1>2. Handling(ch, m, base, com, gv, es, drop, far)
  BY <1>1
<1>3. PICK R : R = CascadeTimes(base, m, Asked(es \cup drop))
  OBVIOUS
<1>4. PICK all : all = AntiMessages(base, m, R) \cup msgs
  OBVIOUS
<1>5. obj' = AfterDelivery(base, m, es, drop, R) /\ Send(ch, m, all)
  BY <1>3, <1>4 DEF Deliver, AfterDelivery
<1>6. Letters(ch, m, all) /\ Says(all, far, Remote(base, m, R))
  BY <1>2, <1>3, <1>4, HandlingLetters
<1>7. /\ Letters(ch, m, all)
      /\ \A e : e \in Said(all, "event") <=> e \in far
      /\ \A e : e \in Said(all, "negative") <=> e \in Remote(base, m, R)
  BY <1>6 DEF Says
<1>8. IsFiniteSet(all)
  <2>1. Delivery(m, base, com, gv, es, drop, R)
    BY <1>2, <1>3, HandlingDelivers
  <2>2. \A o \in Local(m) : R[o] \in Nat
    BY <2>1 DEF Delivery
  <2>3. \A o \in Local(m) : \A e \in base[o].outputs : EventOK(e)
    BY <1>2 DEF Handling, Local, ObjectsOK, ObjectOK, EventsOK
  <2>4. IsFiniteSet(AntiMessages(base, m, R))
    BY <2>2, <2>3, AntiMessagesOK
  <2>5. IsFiniteSet(far) /\ \A e \in far : EventOK(e)
    BY <1>2 DEF Handling
  <2>6. IsFiniteSet(msgs)
    BY <2>5, EventMessagesOK DEF Mailed
  <2> QED
    BY <1>4, <2>4, <2>6, FS_Union
<1>9. /\ QueuesOK(chan')
      /\ \A type, e : e \in Flying(chan', type) <=> e \in Flying(ch, type) \/ e \in Said(all, type)
  <2>1. ChannelsOK(ch) /\ QueuesOK(ch)
    BY <1>2 DEF Handling
  <2> QED
    BY <1>5, <1>7, <1>8, <2>1, SendQueues
<1>10. Accounts(AfterDelivery(base, m, es, drop, R), com, gv,
                Flying(ch, "event") \cup far, Flying(ch, "negative") \cup Remote(base, m, R))
  BY <1>2, <1>3, HandlingAccounts
<1>11. /\ \A e : e \in Carried("event")' <=> e \in Flying(ch, "event") \cup far
       /\ \A e : e \in Carried("negative")' <=> e \in Flying(ch, "negative") \cup Remote(base, m, R)
  <2>1. /\ Carried("event")' = Flying(chan', "event")
        /\ Carried("negative")' = Flying(chan', "negative")
    BY FlyingIsCarriedNext
  <2> QED
    BY <1>7, <1>9, <2>1
<1>12. Accounts(AfterDelivery(base, m, es, drop, R), com, gv, Carried("event")', Carried("negative")')
  <2>1. PICK P, N : P = Carried("event")' /\ N = Carried("negative")'
    OBVIOUS
  <2>2. Accounts(AfterDelivery(base, m, es, drop, R), com, gv, P, N)
    BY <1>10, <1>11, <2>1, SameAccounts
  <2> QED
    BY <2>1, <2>2
<1> QED
  BY <1>1, <1>5, <1>9, <1>12
-----------------------------------------------------------------------------
(* Receiving *)

\* What is on its way through ch, and where.
LEMMA FlyingFacts ==
  ASSUME NEW ch, ChannelsOK(ch), QueuesOK(ch), NEW type, NEW e \in Flying(ch, type)
  PROVE  /\ EventOK(e) /\ Home[e.src] \in Manager /\ Home[e.dst] \in Manager /\ Home[e.src] # Home[e.dst]
         /\ \E x \in Range(ch[<<Home[e.src], Home[e.dst]>>]) : x.type = type /\ e \in x.events
<1>1. PICK c \in Manager \X Manager : \E x \in Range(ch[c]) : x.type = type /\ e \in x.events
  BY FlyingAre DEF ChannelsOK
<1>2. PICK p \in Manager, n \in Manager : c = <<p, n>>
  OBVIOUS
<1>3. PICK s : s = ch[c]
  OBVIOUS
<1>4. PICK x \in Range(s) : x.type = type /\ e \in x.events
  BY <1>1, <1>3
<1>5. /\ s \in Seq(Range(s)) /\ QueueOK(s, p, n)
      /\ EventOK(e) /\ Home[e.dst] = n
  BY <1>2, <1>3, <1>4 DEF ChannelsOK, ChannelOK, QueuesOK
<1>6. PICK k \in 1..Len(s) : x = s[k]
  BY <1>5, RangeOf
<1>7. Home[e.src] = p /\ p # n
  BY <1>4, <1>5, <1>6 DEF QueueOK
<1> QED
  BY <1>2, <1>3, <1>4, <1>5, <1>7

\* Where a message came from.
Arrives(ch, h, n, m) ==
    /\ ChannelsOK(ch) /\ QueuesOK(ch)
    /\ \A e \in h.events : EventOK(e) /\ Home[e.src] = n /\ Home[e.dst] = m /\ n # m
    /\ \A type, e : e \in Flying(chan, type) <=> e \in Flying(ch, type) \/ (h.type = type /\ e \in h.events)
    /\ h.type = "negative" => \A e \in h.events : e \notin Flying(ch, "event") /\ e \notin Flying(ch, "negative")

LEMMA ReceivedArrives ==
  ASSUME ChannelsOK(chan), QueuesOK(chan), NEW n \in Manager, NEW m \in Manager, chan[<<n, m>>] # <<>>
  PROVE  Arrives(Received(n, m), Head(chan[<<n, m>>]), n, m)
<1>1. PICK s, h, ch : s = chan[<<n, m>>] /\ h = Head(s) /\ ch = Received(n, m)
  OBVIOUS
<1>2. s \in Seq(Range(s)) /\ s # <<>> /\ QueueOK(s, n, m)
  <2>1. <<n, m>> \in Manager \X Manager
    OBVIOUS
  <2> QED
    BY <1>1, <2>1 DEF ChannelsOK, ChannelOK, QueuesOK
<1>3. /\ DOMAIN chan = Manager \X Manager /\ DOMAIN ch = Manager \X Manager
      /\ ch[<<n, m>>] = Tail(s)
      /\ \A c \in Manager \X Manager : c # <<n, m>> => ch[c] = chan[c]
  BY <1>1 DEF Received, ChannelsOK
<1>4. /\ ChannelsOK(ch) /\ \A e \in h.events : EventOK(e) /\ Home[e.dst] = m
  BY <1>1, ReceivedOK
<1>5. /\ QueueOK(Tail(s), n, m)
      /\ \A e \in h.events : Home[e.src] = n /\ n # m
      /\ h.type = "negative" => \A e \in h.events : \A y \in Range(Tail(s)) :
            y.type \in {"event", "negative"} => e \notin y.events
  BY <1>1, <1>2, QueueTail
<1>6. \A x : x \in Range(s) <=> x = h \/ x \in Range(Tail(s))
  BY <1>1, <1>2, TailAt
<1>7. QueuesOK(ch)
  <2> SUFFICES ASSUME NEW p \in Manager, NEW q \in Manager PROVE QueueOK(ch[<<p, q>>], p, q)
    BY DEF QueuesOK
  <2>1. CASE p = n /\ q = m
    BY <1>3, <1>5, <2>1
  <2>2. CASE ~(p = n /\ q = m)
    <3>1. <<p, q>> # <<n, m>> /\ <<p, q>> \in Manager \X Manager
      BY <2>2
    <3>2. ch[<<p, q>>] = chan[<<p, q>>]
      BY <1>3, <3>1
    <3> QED
      BY <3>2 DEF QueuesOK
  <2> QED
    BY <2>1, <2>2
<1>8. ASSUME NEW c \in Manager \X Manager, NEW x
      PROVE  x \in Range(chan[c]) <=> x \in Range(ch[c]) \/ (c = <<n, m>> /\ x = h)
  BY <1>1, <1>3, <1>6
<1>9. ASSUME NEW type, NEW e
      PROVE  e \in Flying(chan, type) <=> e \in Flying(ch, type) \/ (h.type = type /\ e \in h.events)
  <2>1. e \in Flying(chan, type) <=>
          \E c \in Manager \X Manager : \E x \in Range(chan[c]) : x.type = type /\ e \in x.events
    BY <1>3, FlyingAre
  <2>2. e \in Flying(ch, type) <=>
          \E c \in Manager \X Manager : \E x \in Range(ch[c]) : x.type = type /\ e \in x.events
    BY <1>3, FlyingAre
  <2>3. <<n, m>> \in Manager \X Manager
    OBVIOUS
  <2> QED
    BY <1>8, <2>1, <2>2, <2>3
<1>10. ASSUME h.type = "negative", NEW e \in h.events, NEW type \in {"event", "negative"}, e \in Flying(ch, type)
       PROVE  FALSE
  <2>1. \E x \in Range(ch[<<Home[e.src], Home[e.dst]>>]) : x.type = type /\ e \in x.events
    BY <1>4, <1>7, <1>10, FlyingFacts
  <2>2. Home[e.src] = n /\ Home[e.dst] = m
    BY <1>4, <1>5
  <2> QED
    BY <1>3, <1>5, <1>10, <2>1, <2>2
<1>11. Arrives(ch, h, n, m)
  BY <1>4, <1>5, <1>7, <1>9, <1>10 DEF Arrives
<1> QED
  BY <1>1, <1>11

LEMMA InvFromAccounts ==
  ASSUME KernelInv', Accounts(obj', committed', gvt', Carried("event")', Carried("negative")'), QueuesOK(chan')
  PROVE  OrphanInv'
BY DEF OrphanInv

LEMMA ReceiveAccounts ==
  ASSUME OrphanInv, NEW n \in Manager, NEW m \in Manager, ReceiveEvent(n, m) \/ ReceiveNegative(n, m)
  PROVE  OrphanInv'
<1>1. PICK h : h = Head(chan[<<n, m>>])
  OBVIOUS
<1>2. PICK ch : ch = Received(n, m)
  OBVIOUS
<1>3. PICK objs : objs = obj
  OBVIOUS
<1>4. chan[<<n, m>>] # <<>> /\ UNCHANGED <<gvt, committed>>
  BY DEF ReceiveEvent, ReceiveNegative
<1>5. /\ ObjectsOK(objs, committed, gvt) /\ ChannelsOK(chan) /\ QueuesOK(chan)
      /\ gvt \in [Manager -> Times \cup {Inf}] /\ KernelInv
      /\ \A k \in Manager : TravelAfter(gvt[k], chan)
      /\ Accounts(objs, committed, gvt, Flying(chan, "event"), Flying(chan, "negative"))
  BY <1>3, FlyingIsCarried DEF OrphanInv, KernelInv
<1>6. Arrives(ch, h, n, m)
  BY <1>1, <1>2, <1>4, <1>5, ReceivedArrives
<1>7. \A b : TravelAfter(b, chan) => \A e \in h.events : b <= e.recv
  BY <1>1, <1>4, <1>5, ReceivedOK
<1>8. ASSUME NEW e \in h.events
      PROVE  EventOK(e) /\ Home[e.src] = n /\ n # m /\ Home[e.dst] = m /\ \A k \in Manager : gvt[k] <= e.recv
  BY <1>5, <1>6, <1>7 DEF Arrives
<1>9. KernelInv'
  BY <1>5, ReceiveStep
<1>10. Mailed({}, {}) /\ IsFiniteSet({})
  BY FS_EmptySet DEF Mailed
<1>11. PICK com, gv : com = committed /\ gv = gvt
  OBVIOUS
<1>12. ASSUME NEW e \in h.events, NEW R PROVE e \notin Gone(objs, m, R)
  <2>1. ObjectsOK(objs, com, gv)
    BY <1>5, <1>11
  <2> QED
    BY <1>8, <2>1, GoneFacts
<1>13. CASE ReceiveEvent(n, m)
  <2>1. h.type = "event" /\ Deliver(ch, m, objs, h.events, {}, {})
    BY <1>1, <1>2, <1>3, <1>13 DEF ReceiveEvent
  <2>2. PICK es : es = h.events
    OBVIOUS
  <2>3. /\ \A e : e \in Flying(ch, "event") \cup {} \cup es <=> e \in Flying(chan, "event")
        /\ \A e : e \in Flying(ch, "negative") \cup {} <=> e \in Flying(chan, "negative")
    <3>1. "event" # "negative"
      OBVIOUS
    <3> QED
      BY <1>6, <2>1, <2>2, <3>1 DEF Arrives
  <2>4. Accounts(objs, committed, gvt, Flying(ch, "event") \cup {} \cup es, Flying(ch, "negative") \cup {})
    <3>1. PICK P, N : P = Flying(ch, "event") \cup {} \cup es /\ N = Flying(ch, "negative") \cup {}
      OBVIOUS
    <3>2. PICK Pos, Neg : Pos = Flying(chan, "event") /\ Neg = Flying(chan, "negative")
      OBVIOUS
    <3>3. Accounts(objs, com, gv, Pos, Neg)
      BY <1>5, <1>11, <3>2
    <3>4. P = Pos /\ N = Neg
      BY <2>3, <3>1, <3>2
    <3> QED
      BY <1>11, <3>1, <3>3, <3>4
  <2>5. Handling(ch, m, objs, committed, gvt, es, {}, {})
    BY <1>5, <1>6, <1>8, <1>10, <1>12, <2>2, <2>4 DEF Handling, Arrives
  <2>6. Deliver(ch, m, objs, es, {}, {})
    BY <2>1, <2>2
  <2> QED
    BY <1>4, <1>9, <1>10, <2>5, <2>6, HandlingStep, InvFromAccounts
<1>14. CASE ReceiveNegative(n, m)
  <2>1. h.type = "negative" /\ Deliver(ch, m, objs, {}, h.events, {})
    BY <1>1, <1>2, <1>3, <1>14 DEF ReceiveNegative
  <2>2. PICK drop : drop = h.events
    OBVIOUS
  <2>3. /\ \A e : e \in Flying(ch, "event") \cup {} \cup {} <=> e \in Flying(chan, "event")
        /\ \A e : e \in Flying(ch, "negative") \cup drop <=> e \in Flying(chan, "negative")
    <3>1. "event" # "negative"
      OBVIOUS
    <3> QED
      BY <1>6, <2>1, <2>2, <3>1 DEF Arrives
  <2>4. Accounts(objs, committed, gvt, Flying(ch, "event") \cup {} \cup {}, Flying(ch, "negative") \cup drop)
    <3>1. PICK P, N : P = Flying(ch, "event") \cup {} \cup {} /\ N = Flying(ch, "negative") \cup drop
      OBVIOUS
    <3>2. PICK Pos, Neg : Pos = Flying(chan, "event") /\ Neg = Flying(chan, "negative")
      OBVIOUS
    <3>3. Accounts(objs, com, gv, Pos, Neg)
      BY <1>5, <1>11, <3>2
    <3>4. P = Pos /\ N = Neg
      BY <2>3, <3>1, <3>2
    <3> QED
      BY <1>11, <3>1, <3>3, <3>4
  <2>5. Handling(ch, m, objs, committed, gvt, {}, drop, {})
    BY <1>5, <1>6, <1>8, <1>10, <2>1, <2>2, <2>4 DEF Handling, Arrives
  <2>6. Deliver(ch, m, objs, {}, drop, {})
    BY <2>1, <2>2
  <2> QED
    BY <1>4, <1>9, <1>10, <2>5, <2>6, HandlingStep, InvFromAccounts
<1> QED
  BY <1>13, <1>14
-----------------------------------------------------------------------------
(* Executing *)

\* Object o executes its events of time t and sends out, which is new.
Runs(objs, base, com, Pos, Neg, o, t, out) ==
    /\ o \in Object /\ t \in Times
    /\ \A p \in Object : p # o =>
          /\ base[p].unprocessed = objs[p].unprocessed /\ base[p].processed = objs[p].processed
          /\ base[p].outputs = objs[p].outputs
    /\ \A e : /\ e \in base[o].unprocessed <=> e \in objs[o].unprocessed /\ e.recv # t
              /\ e \in base[o].processed <=> e \in objs[o].processed \/ (e \in objs[o].unprocessed /\ e.recv = t)
              /\ e \in base[o].outputs <=> e \in objs[o].outputs \/ e \in out
    /\ \E e \in objs[o].unprocessed : e.recv = t
    /\ \A e \in out : /\ EventOK(e) /\ e.src = o /\ e.send = t
                      /\ e \notin Pos /\ e \notin Neg /\ \A p \in Object : e \notin Held(objs, com, p)
    /\ {Content(e) : e \in out} = App(o, t, base[o].processed \cup com[o])
    /\ \A a, b \in out : Content(a) = Content(b) => a = b

LEMMA RunHolds ==
  ASSUME NEW objs, NEW base, NEW com, NEW Pos, NEW Neg, NEW o, NEW t, NEW out,
         Runs(objs, base, com, Pos, Neg, o, t, out), NEW p \in Object, NEW e
  PROVE  /\ e \in Active(base, p) <=> e \in Active(objs, p)
         /\ e \in Held(base, com, p) <=> e \in Held(objs, com, p)
<1>1. CASE p = o
  BY <1>1 DEF Runs, Active, Held
<1>2. CASE p # o
  BY <1>2 DEF Runs, Active, Held
<1> QED
  BY <1>1, <1>2

LEMMA RunGrounds ==
  ASSUME NEW objs, NEW base, NEW com, NEW Pos, NEW Neg, NEW o, NEW t, NEW out,
         Runs(objs, base, com, Pos, Neg, o, t, out), NEW e, EventOK(e), Grounded(objs, com, e)
  PROVE  Grounded(base, com, e)
<1>1. PICK p \in Object : p = e.src
  BY DEF EventOK
<1>2. CASE p = o
  BY <1>1, <1>2 DEF Runs, Grounded
<1>3. CASE p # o
  BY <1>1, <1>3 DEF Runs, Grounded
<1> QED
  BY <1>2, <1>3

LEMMA RunOutputs ==
  ASSUME NEW objs, NEW base, NEW com, NEW gv, NEW Pos, NEW Neg, NEW o, NEW t, NEW out,
         Runs(objs, base, com, Pos, Neg, o, t, out), ObjectsOK(objs, com, gv), OutputsOK(objs, com, Pos, Neg)
  PROVE  OutputsOK(base, com, Pos \cup out, Neg)
<1> SUFFICES ASSUME NEW p \in Object, NEW e \in base[p].outputs
             PROVE  /\ Grounded(base, com, e)
                    /\ e \notin Neg
                    /\ e \in Pos \cup out \/ e \in Held(base, com, e.dst)
  BY DEF OutputsOK
<1>1. e \in objs[p].outputs \/ (p = o /\ e \in out)
  BY DEF Runs
<1>2. CASE e \in objs[p].outputs
  <2>1. EventOK(e) /\ e.dst \in Object
    BY <1>2 DEF ObjectsOK, ObjectOK, EventsOK, EventOK
  <2>2. Grounded(objs, com, e) /\ e \notin Neg /\ (e \in Pos \/ e \in Held(objs, com, e.dst))
    BY <1>2 DEF OutputsOK
  <2>3. Grounded(base, com, e)
    BY <2>1, <2>2, RunGrounds
  <2>4. e \in Held(objs, com, e.dst) => e \in Held(base, com, e.dst)
    BY <2>1, RunHolds
  <2> QED
    BY <2>2, <2>3, <2>4
<1>3. CASE e \in out
  <2>1. e.src = o /\ e.send = t /\ e \notin Neg
    BY <1>3 DEF Runs
  <2>2. PICK d \in objs[o].unprocessed : d.recv = t
    BY DEF Runs
  <2>3. d \in base[o].processed
    BY <2>2 DEF Runs
  <2> QED
    BY <1>3, <2>1, <2>2, <2>3 DEF Grounded
<1> QED
  BY <1>1, <1>2, <1>3

LEMMA RunArrived ==
  ASSUME NEW objs, NEW base, NEW com, NEW gv, NEW Pos, NEW Neg, NEW o, NEW t, NEW out,
         Runs(objs, base, com, Pos, Neg, o, t, out), ObjectsOK(objs, com, gv),
         ArrivedOK(objs, com, gv, Pos, Neg), \A e \in Pos : EventOK(e)
  PROVE  ArrivedOK(base, com, gv, Pos \cup out, Neg)
<1> SUFFICES ASSUME NEW e, There(base, com, Pos \cup out, e), e \notin Neg
             PROVE  StandsBy(base, com, gv, e)
  BY DEF ArrivedOK
<1>1. e \in out \/ There(objs, com, Pos, e)
  BY RunHolds DEF There
<1>2. CASE e \in out
  BY <1>2 DEF Runs, StandsBy
<1>3. CASE There(objs, com, Pos, e)
  <2>1. EventOK(e)
    BY <1>3, HeldFacts DEF There
  <2>2. StandsBy(objs, com, gv, e)
    BY <1>3 DEF ArrivedOK
  <2>3. PICK p \in Object : p = e.src
    BY <2>1 DEF EventOK
  <2>4. e \in objs[p].outputs => e \in base[p].outputs
    BY DEF Runs
  <2> QED
    BY <2>1, <2>2, <2>3, <2>4, RunGrounds DEF StandsBy
<1> QED
  BY <1>1, <1>2, <1>3

LEMMA RunSent ==
  ASSUME NEW objs, NEW base, NEW com, NEW gv, NEW Pos, NEW Neg, NEW o, NEW t, NEW out,
         Runs(objs, base, com, Pos, Neg, o, t, out), ObjectsOK(objs, com, gv),
         NEW p \in Object, NEW s \in Times, SentOK(objs, com, Pos, Neg, p, s)
  PROVE  SentOK(base, com, Pos \cup out, Neg, p, s)
<1> DEFINE before == SentAt(objs, com, Pos, Neg, p, s)
           now == SentAt(base, com, Pos \cup out, Neg, p, s)
<1>1. ASSUME NEW e PROVE e \in now <=> e \in before \/ (e \in out /\ p = o /\ s = t)
  <2>1. e \in now <=> There(base, com, Pos \cup out, e) /\ e \notin Neg /\ e.src = p /\ e.send = s
    BY SentAtAre
  <2>2. e \in before <=> There(objs, com, Pos, e) /\ e \notin Neg /\ e.src = p /\ e.send = s
    BY SentAtAre
  <2>3. There(base, com, Pos \cup out, e) <=> There(objs, com, Pos, e) \/ e \in out
    BY RunHolds DEF There
  <2>4. e \in out => e \notin Neg /\ e.src = o /\ e.send = t
    BY DEF Runs
  <2> HIDE DEF now, before
  <2> QED
    BY <2>1, <2>2, <2>3, <2>4
<1>2. s \in Nat /\ t \in Nat
  BY TimesAreNat DEF Runs
<1>3. \A d \in objs[o].processed \cup com[o] : d.recv \in Nat /\ d.recv < t
  <2>1. PICK u \in objs[o].unprocessed : u.recv = t
    BY DEF Runs
  <2>2. ObjectOK(o, objs[o], com[o])
    BY DEF Runs, ObjectsOK
  <2> QED
    BY <2>1, <2>2, TimesAreNat DEF ObjectOK, Ordered, EventsOK, EventOK
<1> HIDE DEF before, now
<1>4. CASE p = o /\ s = t
  <2>1. \A d \in UpTo(objs, com, p, s) : d.recv # s
    BY <1>2, <1>3, <1>4 DEF UpTo
  <2>2. {Content(e) : e \in before} = {}
    BY <2>1 DEF SentOK, before
  <2>3. before = {}
    BY <2>2
  <2>4. now = out
    BY <1>1, <1>4, <2>3
  <2>5. ASSUME NEW d PROVE d \in UpTo(base, com, p, s) <=> d \in base[o].processed \cup com[o]
    <3>1. d \in base[o].processed \cup com[o] => d.recv <= t
      BY <1>2, <1>3 DEF Runs
    <3> QED
      BY <1>4, <3>1 DEF UpTo
  <2>6. UpTo(base, com, p, s) = base[o].processed \cup com[o]
    BY <2>5
  <2>7. \E d \in UpTo(base, com, p, s) : d.recv = s
    BY <1>4, <2>6 DEF Runs
  <2>8. /\ {Content(e) : e \in out} = App(o, t, base[o].processed \cup com[o])
        /\ \A a, b \in out : Content(a) = Content(b) => a = b
    BY DEF Runs
  <2>9. {Content(e) : e \in now} = App(p, s, UpTo(base, com, p, s))
    BY <1>4, <2>4, <2>6, <2>8
  <2> QED
    BY <2>4, <2>7, <2>8, <2>9 DEF SentOK, now
<1>5. CASE ~(p = o /\ s = t)
  <2>1. now = before
    BY <1>1, <1>5
  <2>2. CASE p = o /\ s > t
    <3>1. \A d \in UpTo(objs, com, p, s) : d.recv # s
      BY <1>2, <1>3, <2>2 DEF UpTo
    <3>2. \A d \in base[o].processed \cup com[o] : d.recv \in Nat /\ d.recv <= t
      BY <1>2, <1>3 DEF Runs
    <3>3. \A d \in UpTo(base, com, p, s) : d.recv # s
      BY <1>2, <2>2, <3>2 DEF UpTo
    <3> QED
      BY <2>1, <3>1, <3>3 DEF SentOK, before, now
  <2>3. CASE ~(p = o /\ s > t)
    <3>1. ASSUME NEW d PROVE d \in UpTo(base, com, p, s) <=> d \in UpTo(objs, com, p, s)
      <4>1. CASE p = o
        <5>1. s < t
          BY <1>2, <1>5, <2>3, <4>1
        <5>2. d.recv = t => ~(d.recv <= s)
          BY <1>2, <5>1
        <5> QED
          BY <4>1, <5>2 DEF Runs, UpTo
      <4>2. CASE p # o
        BY <4>2 DEF Runs, UpTo
      <4> QED
        BY <4>1, <4>2
    <3>2. UpTo(base, com, p, s) = UpTo(objs, com, p, s)
      BY <3>1
    <3> QED
      BY <2>1, <3>2 DEF SentOK, before, now
  <2> QED
    BY <2>2, <2>3
<1> QED
  BY <1>4, <1>5

LEMMA RunAccounts ==
  ASSUME NEW objs, NEW base, NEW com, NEW gv, NEW Pos, NEW Neg, NEW o, NEW t, NEW out,
         Runs(objs, base, com, Pos, Neg, o, t, out), ObjectsOK(objs, com, gv),
         Accounts(objs, com, gv, Pos, Neg), \A e \in Pos \cup Neg : EventOK(e)
  PROVE  Accounts(base, com, gv, Pos \cup out, Neg)
<1>1. OutputsOK(base, com, Pos \cup out, Neg)
  BY RunOutputs DEF Accounts
<1>2. ArrivedOK(base, com, gv, Pos \cup out, Neg)
  BY RunArrived DEF Accounts
<1>3. ChasedOK(base, Pos \cup out, Neg)
  <2>1. \A e \in Neg : e.dst \in Object /\ (e \in Pos \/ e \in Active(objs, e.dst))
    BY DEF Accounts, ChasedOK, EventOK
  <2> QED
    BY <2>1, RunHolds DEF ChasedOK
<1>4. ASSUME NEW p \in Object, NEW s \in Times \ {0} PROVE SentOK(base, com, Pos \cup out, Neg, p, s)
  BY RunSent DEF Accounts
<1> QED
  BY <1>1, <1>2, <1>3, <1>4 DEF Accounts

\* An event that is sent gets a name no other event has.
LEMMA NamesAreNew ==
  ASSUME NEW o, NEW t, NEW c, FreeIds(o, t, c) # {}
  PROVE  NewEvent(o, t, c) \notin LiveEvents
<1>1. PICK F : F = FreeIds(o, t, c)
  OBVIOUS
<1>2. F \in SUBSET Nat /\ F # {} /\ \A i \in F : Named(o, t, c, i) \notin LiveEvents
  BY <1>1, BoundAssumption DEF FreeIds
<1>3. Min(F) \in F
  BY <1>2, MinIsLeast
<1>4. NewEvent(o, t, c) = Named(o, t, c, Min(F))
  BY <1>1 DEF NewEvent
<1> QED
  BY <1>2, <1>3, <1>4

LEMMA LiveAre ==
  ASSUME NEW e, e \notin LiveEvents
  PROVE  /\ e \notin Carried("event") /\ e \notin Carried("negative")
         /\ \A p \in Object : e \notin obj[p].unprocessed /\ e \notin obj[p].processed /\ e \notin committed[p]
BY DEF LiveEvents

\* The events out, sent at t, have the contents A, each of them once.
OnceEach(out, A, t) ==
    /\ {Content(e) : e \in out} = A
    /\ \A a, b \in out : Content(a) = Content(b) => a = b
    /\ \A e \in out : e.send = t

\* What an object sends is what the application schedules, each event once.
LEMMA ScheduledOnce ==
  ASSUME AppOK, NEW o \in Object, NEW t \in Times, NEW S, Events(S), NEW out,
         out = {NewEvent(o, t, c) : c \in App(o, t, S)}
  PROVE  OnceEach(out, App(o, t, S), t)
<1>1. PICK A : A = App(o, t, S)
  OBVIOUS
<1>2. ASSUME NEW c \in A PROVE Content(NewEvent(o, t, c)) = c /\ NewEvent(o, t, c).send = t
  <2>1. c = [dst |-> c.dst, recv |-> c.recv, val |-> c.val]
    BY <1>1 DEF AppOK, Content
  <2>2. PICK i : NewEvent(o, t, c) = [src |-> o, dst |-> c.dst, send |-> t, recv |-> c.recv, val |-> c.val, id |-> i]
    BY DEF NewEvent, Named
  <2>3. Content(NewEvent(o, t, c)) = [dst |-> c.dst, recv |-> c.recv, val |-> c.val]
    BY <2>2 DEF Content
  <2> QED
    BY <2>1, <2>2, <2>3
<1>3. \A e : e \in out <=> \E c \in A : e = NewEvent(o, t, c)
  BY <1>1
<1>4. PICK T : T = {Content(e) : e \in out}
  OBVIOUS
<1>5. ASSUME NEW x \in T PROVE x \in A
  BY <1>2, <1>3, <1>4
<1>6. ASSUME NEW x \in A PROVE x \in T
  BY <1>2, <1>3, <1>4
<1>7. T = A
  BY <1>5, <1>6
<1>8. ASSUME NEW a \in out, NEW b \in out, Content(a) = Content(b) PROVE a = b
  BY <1>2, <1>3, <1>8
<1>9. \A e \in out : e.send = t
  BY <1>2, <1>3
<1> QED
  BY <1>1, <1>4, <1>7, <1>8, <1>9 DEF OnceEach

LEMMA ExecuteRuns ==
  ASSUME AppOK, OrphanInv, NEW m \in Manager, NEW o, NEW t, NEW ran, NEW out, NEW near, NEW msgs, NEW base,
         Executes(m, o, t, ran, out, near, msgs, base)
  PROVE  Runs(obj, base, committed, Carried("event"), Carried("negative"), o, t, out)
<1>1. /\ o \in Object /\ t \in Times /\ ran = Executed(SaveState(obj[o], t), t)
      /\ base[o] = Sent(ran, out) /\ \A p \in Object : p # o => base[p] = obj[p]
      /\ \A e \in out : EventOK(e) /\ e.src = o
      /\ \E e \in obj[o].unprocessed : e.recv = t
  BY DEF Executes
<1>2. PICK ob, C : ob = obj[o] /\ C = committed[o]
  OBVIOUS
<1>3. ObjectOK(o, ob, C)
  BY <1>1, <1>2 DEF OrphanInv, KernelInv, ObjectsOK
<1>4. PICK sv : sv = SaveState(ob, t)
  OBVIOUS
<1>5. /\ Shape(sv) /\ sv.unprocessed = ob.unprocessed /\ sv.processed = ob.processed
      /\ sv.outputs = ob.outputs /\ sv.state = ob.state
  BY <1>3, <1>4, SaveStateFields DEF ObjectOK
<1>6. PICK now : now = {e \in ob.unprocessed : e.recv = t}
  OBVIOUS
<1>7. /\ Shape(ran) /\ ran.unprocessed = ob.unprocessed \ now /\ ran.processed = ob.processed \cup now
      /\ ran.outputs = ob.outputs /\ ran.state = ob.state \cup now
  BY <1>1, <1>2, <1>4, <1>5, <1>6, ExecutedFields
<1>8. /\ base[o].unprocessed = ob.unprocessed \ now /\ base[o].processed = ob.processed \cup now
      /\ base[o].outputs = ob.outputs \cup out
  BY <1>1, <1>7, SentFields
<1>9. ran.state = base[o].processed \cup C
  BY <1>3, <1>7, <1>8 DEF ObjectOK
<1>10. PICK S : S = ran.state
  OBVIOUS
<1>11. out = {NewEvent(o, t, c) : c \in App(o, t, S)} /\ \A c \in App(o, t, S) : FreeIds(o, t, c) # {}
  BY <1>10 DEF Executes
<1>12. /\ {Content(e) : e \in out} = App(o, t, S)
       /\ \A a, b \in out : Content(a) = Content(b) => a = b
       /\ \A e \in out : e.send = t
  <2>1. OnceEach(out, App(o, t, S), t)
    BY <1>1, <1>2, <1>3, <1>10, <1>11, StateAfter, ScheduledOnce
  <2> QED
    BY <2>1 DEF OnceEach
<1>13. ASSUME NEW e \in out
       PROVE  /\ e \notin Carried("event") /\ e \notin Carried("negative")
              /\ \A p \in Object : e \notin Held(obj, committed, p)
  <2>1. PICK c \in App(o, t, S) : e = NewEvent(o, t, c)
    BY <1>11
  <2>2. e \notin LiveEvents
    BY <1>11, <2>1, NamesAreNew
  <2> QED
    BY <2>2, LiveAre DEF Held, Active
<1>14. {Content(e) : e \in out} = App(o, t, base[o].processed \cup committed[o])
  BY <1>2, <1>9, <1>10, <1>12
<1>15. \A e : /\ e \in base[o].unprocessed <=> e \in obj[o].unprocessed /\ e.recv # t
              /\ e \in base[o].processed <=> e \in obj[o].processed \/ (e \in obj[o].unprocessed /\ e.recv = t)
              /\ e \in base[o].outputs <=> e \in obj[o].outputs \/ e \in out
  BY <1>2, <1>6, <1>8
<1> QED
  BY <1>1, <1>12, <1>13, <1>14, <1>15 DEF Runs

LEMMA ExecuteAccounts ==
  ASSUME AppOK, OrphanInv, NEW m \in Manager, Execute(m)
  PROVE  OrphanInv'
<1>0. KernelInv /\ Accounts(obj, committed, gvt, Carried("event"), Carried("negative")) /\ QueuesOK(chan)
  BY DEF OrphanInv
<1>1. PICK o, t, ran, out, near, msgs, base : Executes(m, o, t, ran, out, near, msgs, base)
  BY <1>0, ExecuteIs
<1>2. /\ o \in Object /\ Home[o] = m /\ o \in Local(m) /\ t \in Times
      /\ near = {e \in out : e.dst \in Local(m)}
      /\ msgs = {EventMessage(e) : e \in out \ near}
      /\ Deliver(chan, m, base, near, {}, msgs) /\ UNCHANGED <<gvt, committed>>
      /\ IsFiniteSet(out) /\ \A e \in out : EventOK(e) /\ e.src = o /\ t < e.recv
      /\ ObjectsOK(base, committed, gvt)
  BY <1>1 DEF Executes
<1>3. PICK objs, com, gv, ch : objs = obj /\ com = committed /\ gv = gvt /\ ch = chan
  OBVIOUS
<1>4. PICK Pos, Neg : Pos = Flying(ch, "event") /\ Neg = Flying(ch, "negative")
  OBVIOUS
<1>5. /\ Pos = Carried("event") /\ Neg = Carried("negative")
  BY <1>3, <1>4, FlyingIsCarried
<1>6. Runs(objs, base, com, Pos, Neg, o, t, out)
  BY <1>1, <1>3, <1>5, ExecuteRuns
<1>7. /\ ObjectsOK(objs, com, gv) /\ gv \in [Manager -> Times \cup {Inf}] /\ ChannelsOK(ch) /\ QueuesOK(ch)
      /\ \A k \in Manager : WaitAfter(gv[k], objs) /\ gv[k] \in Nat
      /\ Accounts(objs, com, gv, Pos, Neg) /\ ObjectsOK(base, com, gv)
  BY <1>0, <1>2, <1>3, <1>5, RollbackTimes DEF KernelInv
<1>8. \A e \in Pos \cup Neg : EventOK(e)
  BY <1>4, <1>7, FlyingFacts
<1>9. Accounts(base, com, gv, Pos \cup out, Neg)
  BY <1>6, <1>7, <1>8, RunAccounts
<1>10. PICK far : far = out \ near
  OBVIOUS
<1>11. Accounts(base, com, gv, Flying(ch, "event") \cup far \cup near, Flying(ch, "negative") \cup {})
  <2>1. /\ Flying(ch, "event") \cup far \cup near = Pos \cup out
        /\ Flying(ch, "negative") \cup {} = Neg
    BY <1>2, <1>4, <1>10
  <2> QED
    BY <1>9, <2>1
<1>12. t \in Nat /\ t < Inf /\ Inf \in Nat
  BY <1>2, TimesAreNat
<1>13. ASSUME NEW e \in out
       PROVE  /\ EventOK(e) /\ e.src = o /\ e.send = t /\ e.recv \in Nat /\ t < e.recv
              /\ e \notin Flying(ch, "negative") /\ \A k \in Manager : gv[k] <= e.recv
  <2>1. EventOK(e) /\ e.src = o /\ e.send = t /\ t < e.recv /\ e \notin Flying(ch, "negative")
    BY <1>2, <1>4, <1>6 DEF Runs
  <2>2. e.recv \in Nat
    BY <2>1, TimesAreNat DEF EventOK
  <2>3. PICK u \in objs[o].unprocessed : u.recv = t
    BY <1>6 DEF Runs
  <2>4. \A k \in Manager : gv[k] <= t /\ gv[k] \in Nat
    BY <1>2, <1>7, <2>3 DEF WaitAfter
  <2> QED
    BY <1>12, <2>1, <2>2, <2>4
<1>14. \A e \in near : e \in out /\ Home[e.dst] = m
  BY <1>2 DEF Local
<1>15. \A e \in far : e \in out /\ Home[e.dst] # m
  BY <1>2, <1>10, <1>13 DEF Local, EventOK
<1>16. ASSUME NEW e \in out, e \in Gone(base, m, CascadeTimes(base, m, Asked(near \cup {}))) PROVE FALSE
  <2>1. PICK R : R = CascadeTimes(base, m, Asked(near \cup {}))
    OBVIOUS
  <2>2. e.src \in Local(m) /\ e.send >= R[e.src]
    BY <1>7, <1>16, <2>1, GoneFacts
  <2>3. \A x \in near \cup {} : EventOK(x) /\ Home[x.dst] = m /\ gv[m] <= x.recv
    BY <1>13, <1>14
  <2>4. LET Q == CascadeTimes(base, m, Asked(near \cup {}))
            after == AfterDelivery(base, m, near, {}, Q) IN
        /\ ObjectsOK(after, com, gv)
        /\ \A p \in Local(m) : Q[p] \in Nat
        /\ \A b \in Nat : b <= Inf /\ (\A x \in near \cup {} : b <= x.recv) =>
              \A p \in Local(m) : b <= Q[p]
    BY <1>7, <2>3, DeliverObjects
  <2>5. /\ \A p \in Local(m) : R[p] \in Nat
        /\ \A b \in Nat : b <= Inf /\ (\A x \in near \cup {} : b <= x.recv) =>
              \A p \in Local(m) : b <= R[p]
    BY <2>1, <2>4
  <2>6. t + 1 \in Nat /\ t + 1 <= Inf /\ \A x \in near \cup {} : t + 1 <= x.recv
    BY <1>12, <1>13, <1>14
  <2>7. t + 1 <= R[o] /\ R[o] \in Nat
    BY <1>2, <2>5, <2>6
  <2>8. e.src = o /\ e.send = t
    BY <1>13
  <2> QED
    BY <1>12, <2>2, <2>7, <2>8
<1>17. IsFiniteSet(far)
  BY <1>2, <1>10, FS_Difference
<1>18. Handling(ch, m, base, com, gv, near, {}, far)
  <2>1. \A e \in near \cup {} : EventOK(e) /\ Home[e.dst] = m /\ \A k \in Manager : gv[k] <= e.recv
    BY <1>13, <1>14
  <2>2. \A e \in far : EventOK(e) /\ Home[e.src] = m /\ Home[e.dst] # m /\ e \notin Flying(ch, "negative")
    BY <1>2, <1>13, <1>15
  <2>3. \A e \in near \cup far : e \notin Gone(base, m, CascadeTimes(base, m, Asked(near \cup {})))
    BY <1>14, <1>15, <1>16
  <2> QED
    BY <1>7, <1>11, <1>17, <2>1, <2>2, <2>3 DEF Handling
<1>19. Mailed(msgs, far)
  BY <1>2, <1>10 DEF Mailed
<1>20. Accounts(obj', committed', gvt', Carried("event")', Carried("negative")') /\ QueuesOK(chan')
  <2>1. Handling(ch, m, base, committed, gvt, near, {}, far) /\ Deliver(ch, m, base, near, {}, msgs)
    BY <1>2, <1>3, <1>18
  <2> QED
    BY <1>2, <1>19, <2>1, HandlingStep
<1>21. KernelInv'
  BY <1>0, ExecuteStep
<1> QED
  BY <1>20, <1>21, InvFromAccounts
-----------------------------------------------------------------------------
(* Fossil collection *)

\* Nothing that counts is lost when what is old is given back.
LEMMA FossilAccounts ==
  ASSUME OrphanInv, NEW m \in Manager, NEW g \in Estimates, FossilCollect(m, g)
  PROVE  OrphanInv'
<1>1. KernelInv /\ Accounts(obj, committed, gvt, Carried("event"), Carried("negative")) /\ QueuesOK(chan)
  BY DEF OrphanInv
<1>2. /\ Floor \in Nat /\ Floor <= Inf /\ WaitAfter(Floor, obj) /\ TravelAfter(Floor, chan)
  BY <1>1, FloorFacts DEF FloorIsGreatest
<1>3. /\ KernelInv' /\ gvt' = [gvt EXCEPT ![m] = g]
      /\ \A o \in Object : obj'[o].unprocessed = obj[o].unprocessed
      /\ UNCHANGED chan
      /\ \E oldest : Collects(m, g, oldest)
  BY <1>1, <1>2, FossilStep
<1>4. PICK oldest : Collects(m, g, oldest)
  BY <1>3
<1>5. gvt[m] < g /\ g <= Floor
  BY DEF FossilCollect
<1>6. PICK objs, com, gv, after, com2, gv2 :
        objs = obj /\ com = committed /\ gv = gvt /\ after = obj' /\ com2 = committed' /\ gv2 = gvt'
  OBVIOUS
<1>7. PICK Pos, Neg : Pos = Carried("event") /\ Neg = Carried("negative")
  OBVIOUS
<1>8. Pos = Carried("event")' /\ Neg = Carried("negative")'
  BY <1>3, <1>7 DEF Carried
<1>9. ObjectsOK(objs, com, gv) /\ gv \in [Manager -> Times \cup {Inf}] /\ Accounts(objs, com, gv, Pos, Neg)
  BY <1>1, <1>6, <1>7 DEF KernelInv
<1>10. /\ oldest \in Nat /\ g \in Nat /\ \A o \in Local(m) : oldest <= g /\ Home[o] = m
       /\ \A o \in Local(m) : \A e :
             /\ e \in after[o].processed <=> e \in objs[o].processed /\ ~(e.recv < oldest)
             /\ e \in com2[o] <=> e \in com[o] \/ (e \in objs[o].processed /\ e.recv < oldest)
             /\ e \in after[o].outputs <=> e \in objs[o].outputs /\ e.send >= oldest
       /\ \A o \in Object \ Local(m) : after[o] = objs[o] /\ com2[o] = com[o]
       /\ \A o \in Object : after[o].unprocessed = objs[o].unprocessed
  BY <1>3, <1>4, <1>6 DEF Collects, Local
<1>11. ASSUME NEW o \in Object, NEW e
       PROVE  /\ e \in after[o].processed \cup com2[o] <=> e \in objs[o].processed \cup com[o]
              /\ e \in Held(after, com2, o) <=> e \in Held(objs, com, o)
  <2>1. CASE o \in Local(m)
    BY <1>10, <2>1 DEF Held, Active
  <2>2. CASE o \notin Local(m)
    BY <1>10, <2>2 DEF Held, Active
  <2> QED
    BY <2>1, <2>2
<1>12. ASSUME NEW e, EventOK(e) PROVE Grounded(after, com2, e) <=> Grounded(objs, com, e)
  <2>1. PICK p \in Object : p = e.src
    BY <1>12 DEF EventOK
  <2>2. \A d : d \in after[p].processed \cup com2[p] <=> d \in objs[p].processed \cup com[p]
    BY <1>11
  <2> QED
    BY <2>1, <2>2 DEF Grounded
<1>13. ASSUME NEW k \in Manager PROVE gv[k] \in Nat /\ gv2[k] \in Nat /\ gv[k] <= gv2[k]
  <2>1. gv[k] \in Nat /\ gv2[k] = IF k = m THEN g ELSE gv[k]
    BY <1>3, <1>6, <1>9, RollbackTimes
  <2> QED
    BY <1>5, <1>6, <1>10, <2>1
<1>14. gv2[m] = g
  BY <1>3, <1>6, <1>9
<1>15. OutputsOK(after, com2, Pos, Neg)
  <2> SUFFICES ASSUME NEW p \in Object, NEW e \in after[p].outputs
               PROVE  /\ Grounded(after, com2, e)
                      /\ e \notin Neg
                      /\ e \in Pos \/ e \in Held(after, com2, e.dst)
    BY DEF OutputsOK
  <2>1. e \in objs[p].outputs
    BY <1>10
  <2>2. EventOK(e) /\ e.dst \in Object
    BY <1>9, <2>1 DEF ObjectsOK, ObjectOK, EventsOK, EventOK
  <2>3. Grounded(objs, com, e) /\ e \notin Neg /\ (e \in Pos \/ e \in Held(objs, com, e.dst))
    BY <1>9, <2>1 DEF Accounts, OutputsOK
  <2> QED
    BY <1>11, <1>12, <2>2, <2>3
<1>16. ASSUME NEW e PROVE There(after, com2, Pos, e) <=> There(objs, com, Pos, e)
  BY <1>11 DEF There
<1>17. ArrivedOK(after, com2, gv2, Pos, Neg)
  <2> SUFFICES ASSUME NEW e, There(after, com2, Pos, e), e \notin Neg
               PROVE  StandsBy(after, com2, gv2, e)
    BY DEF ArrivedOK
  <2>1. There(objs, com, Pos, e)
    BY <1>16
  <2>2. StandsBy(objs, com, gv, e)
    BY <1>9, <2>1 DEF Accounts, ArrivedOK
  <2>3. EventOK(e)
    <3>1. ChannelsOK(chan) /\ QueuesOK(chan)
      BY <1>1 DEF KernelInv
    <3>2. \A x \in Pos : EventOK(x)
      <4>1. PICK ch : ch = chan
        OBVIOUS
      <4>2. Pos = Flying(ch, "event") /\ ChannelsOK(ch) /\ QueuesOK(ch)
        BY <1>7, <3>1, <4>1, FlyingIsCarried
      <4> QED
        BY <4>2, FlyingFacts
    <3> QED
      BY <1>9, <2>1, <3>2, HeldFacts DEF There
  <2>4. PICK p \in Object : p = e.src
    BY <2>3 DEF EventOK
  <2>5. e.send \in Nat
    BY <2>3, TimesAreNat DEF EventOK
  <2>6. PICK k \in Manager : k = Home[p]
    BY HomeAssumption
  <2>7. CASE e \in objs[p].outputs
    <3>1. Grounded(after, com2, e)
      BY <1>9, <1>12, <2>3, <2>7 DEF Accounts, OutputsOK
    <3>2. CASE p \in Local(m) /\ e.send < oldest
      <4>1. e.send < gv2[m] /\ Home[p] = m
        BY <1>10, <1>14, <2>5, <3>2
      <4> QED
        BY <2>4, <3>1, <4>1 DEF StandsBy
    <3>3. CASE ~(p \in Local(m) /\ e.send < oldest)
      <4>1. e \in after[p].outputs
        BY <1>10, <2>5, <2>7, <3>3
      <4> QED
        BY <2>4, <4>1 DEF StandsBy
    <3> QED
      BY <3>2, <3>3
  <2>8. CASE Grounded(objs, com, e) /\ e.send < gv[k]
    <3>1. e.send < gv2[k]
      BY <1>13, <2>5, <2>8
    <3> QED
      BY <1>12, <2>3, <2>4, <2>6, <2>8, <3>1 DEF StandsBy
  <2> QED
    BY <2>2, <2>4, <2>6, <2>7, <2>8 DEF StandsBy
<1>18. ChasedOK(after, Pos, Neg)
  <2> SUFFICES ASSUME NEW e \in Neg PROVE e \in Pos \/ e \in Active(after, e.dst)
    BY DEF ChasedOK
  <2>1. e \in Pos \/ e \in Active(objs, e.dst)
    BY <1>9 DEF Accounts, ChasedOK
  <2>2. PICK c \in Manager \X Manager : \E x \in Range(chan[c]) : e \in x.events
    BY <1>1, <1>7, CarriedAre DEF KernelInv, ChannelsOK
  <2>3. EventOK(e) /\ Floor <= e.recv
    BY <1>1, <1>2, <2>2 DEF KernelInv, ChannelsOK, ChannelOK, TravelAfter
  <2>4. e.recv \in Nat /\ e.dst \in Object
    BY <2>3, TimesAreNat DEF EventOK
  <2>5. PICK o \in Object : o = e.dst
    BY <2>4
  <2>6. o \in Local(m) => ~(e.recv < oldest)
    BY <1>2, <1>5, <1>10, <2>3, <2>4
  <2>7. e \in Active(objs, o) => e \in Active(after, o)
    <3>1. CASE o \in Local(m)
      BY <1>10, <2>6, <3>1 DEF Active
    <3>2. CASE o \notin Local(m)
      BY <1>10, <3>2 DEF Active
    <3> QED
      BY <3>1, <3>2
  <2> QED
    BY <2>1, <2>5, <2>7
<1>19. ASSUME NEW p \in Object, NEW t \in Times \ {0} PROVE SentOK(after, com2, Pos, Neg, p, t)
  <2>1. SentOK(objs, com, Pos, Neg, p, t)
    BY <1>9 DEF Accounts
  <2>2. ASSUME NEW e PROVE e \in SentAt(after, com2, Pos, Neg, p, t) <=> e \in SentAt(objs, com, Pos, Neg, p, t)
    <3>1. e \in SentAt(after, com2, Pos, Neg, p, t) <=>
             There(after, com2, Pos, e) /\ e \notin Neg /\ e.src = p /\ e.send = t
      BY SentAtAre
    <3>2. e \in SentAt(objs, com, Pos, Neg, p, t) <=>
             There(objs, com, Pos, e) /\ e \notin Neg /\ e.src = p /\ e.send = t
      BY SentAtAre
    <3> QED
      BY <1>16, <3>1, <3>2
  <2>3. SentAt(after, com2, Pos, Neg, p, t) = SentAt(objs, com, Pos, Neg, p, t)
    BY <2>2
  <2>4. UpTo(after, com2, p, t) = UpTo(objs, com, p, t)
    BY <1>11 DEF UpTo
  <2> QED
    BY <2>1, <2>3, <2>4 DEF SentOK
<1>20. Accounts(after, com2, gv2, Pos, Neg)
  BY <1>15, <1>17, <1>18, <1>19 DEF Accounts
<1>21. Accounts(obj', committed', gvt', Carried("event")', Carried("negative")') /\ QueuesOK(chan')
  BY <1>1, <1>3, <1>6, <1>8, <1>20
<1> QED
  BY <1>3, <1>21, InvFromAccounts
-----------------------------------------------------------------------------
(* The initial state *)

LEMMA InitialFields ==
  ASSUME Init
  PROVE  /\ \A o \in Object :
               /\ \A e : e \in obj[o].unprocessed <=> e \in FirstEvents /\ e.dst = o /\ Home[e.src] = Home[o]
               /\ \A e : e \in obj[o].outputs <=> e \in FirstEvents /\ e.src = o
               /\ obj[o].processed = {} /\ committed[o] = {}
         /\ DOMAIN chan = Manager \X Manager
         /\ \A m, n \in Manager : Batch(chan[<<m, n>>], FirstMessages(m), n)
<1>1. ASSUME NEW o \in Object
      PROVE  /\ \A e : e \in obj[o].unprocessed <=> e \in FirstEvents /\ e.dst = o /\ Home[e.src] = Home[o]
             /\ \A e : e \in obj[o].outputs <=> e \in FirstEvents /\ e.src = o
             /\ obj[o].processed = {} /\ committed[o] = {}
  BY DEF Init
<1>2. PICK order :
        /\ \A m \in Manager : order[m] \in Orders(FirstMessages(m))
        /\ chan = [c \in Manager \X Manager |-> order[c[1]][c[2]]]
  BY DEF Init
<1>3. DOMAIN chan = Manager \X Manager /\ \A m, n \in Manager : chan[<<m, n>>] = order[m][n]
  BY <1>2
<1>4. ASSUME NEW m \in Manager, NEW n \in Manager PROVE Batch(chan[<<m, n>>], FirstMessages(m), n)
  <2> DEFINE E == {x \in FirstEvents : Home[x.src] = m /\ Home[x.dst] # m}
  <2>1. IsFiniteSet(E) /\ \A e \in E : EventOK(e)
    BY FirstEventsOK, FS_Subset
  <2>2. FirstMessages(m) = {EventMessage(e) : e \in E}
    BY DEF FirstMessages
  <2> HIDE DEF E
  <2>3. IsFiniteSet(FirstMessages(m))
    BY <2>1, <2>2, EventMessagesOK
  <2>4. Batch(order[m][n], FirstMessages(m), n)
    BY <1>2, <2>3, OrdersAre
  <2> QED
    BY <1>3, <2>4
<1> QED
  BY <1>1, <1>3, <1>4

LEMMA OrphanInitial == Init => OrphanInv
<1> SUFFICES ASSUME Init PROVE OrphanInv
  OBVIOUS
<1>1. KernelInv
  BY KernelInitial
<1>2. /\ \A o \in Object :
            /\ \A e : e \in obj[o].unprocessed <=> e \in FirstEvents /\ e.dst = o /\ Home[e.src] = Home[o]
            /\ \A e : e \in obj[o].outputs <=> e \in FirstEvents /\ e.src = o
            /\ obj[o].processed = {} /\ committed[o] = {}
      /\ DOMAIN chan = Manager \X Manager
      /\ \A m, n \in Manager : Batch(chan[<<m, n>>], FirstMessages(m), n)
  BY InitialFields
<1>3. \A e \in FirstEvents : EventOK(e) /\ e.send = 0
  BY FirstEventsOK DEF FirstEvents, Named
<1>4. ASSUME NEW m \in Manager
      PROVE  /\ \A x \in FirstMessages(m) : x.type = "event" /\ \E e \in FirstEvents :
                    x = EventMessage(e) /\ x.events = {e} /\ Home[e.src] = m /\ Home[e.dst] # m
             /\ \A e \in FirstEvents : Home[e.src] = m /\ Home[e.dst] # m =>
                    \E x \in FirstMessages(m) : x = EventMessage(e) /\ x.type = "event" /\ x.events = {e}
  <2> DEFINE E == {x \in FirstEvents : Home[x.src] = m /\ Home[x.dst] # m}
  <2>1. FirstMessages(m) = {EventMessage(e) : e \in E}
    BY DEF FirstMessages
  <2>2. \A e : EventMessage(e).type = "event" /\ EventMessage(e).events = {e}
    BY DEF EventMessage
  <2>3. \A e : e \in E <=> e \in FirstEvents /\ Home[e.src] = m /\ Home[e.dst] # m
    OBVIOUS
  <2> HIDE DEF E
  <2>4. \A x : x \in FirstMessages(m) <=> \E e \in E : x = EventMessage(e)
    BY <2>1
  <2> QED
    BY <2>2, <2>3, <2>4
<1>5. QueuesOK(chan)
  <2> SUFFICES ASSUME NEW m \in Manager, NEW n \in Manager PROVE QueueOK(chan[<<m, n>>], m, n)
    BY DEF QueuesOK
  <2>1. PICK s : s = chan[<<m, n>>]
    OBVIOUS
  <2>2. Batch(s, FirstMessages(m), n)
    BY <1>2, <2>1
  <2>3. ASSUME NEW k \in 1..Len(s)
        PROVE  /\ s[k].type = "event" /\ \A e \in s[k].events : s[k] = EventMessage(e) /\ Home[e.src] = m /\ m # n
    <3>1. s[k] \in FirstMessages(m) /\ Addressed(s[k], n)
      BY <2>2, RangeOf DEF Batch
    <3> QED
      BY <1>4, <3>1 DEF Addressed
  <2>4. "event" # "negative"
    OBVIOUS
  <2>5. QueueOK(s, m, n)
    BY <2>3, <2>4 DEF QueueOK
  <2> QED
    BY <2>1, <2>5
<1>6. ASSUME NEW type, NEW e \in Carried(type) PROVE type = "event" /\ e \in FirstEvents
  <2>1. PICK c \in Manager \X Manager : \E x \in Range(chan[c]) : x.type = type /\ e \in x.events
    BY <1>2, CarriedAre
  <2>2. PICK m \in Manager, n \in Manager : c = <<m, n>>
    OBVIOUS
  <2>3. PICK x \in FirstMessages(m) : x.type = type /\ e \in x.events
    BY <1>2, <2>1, <2>2 DEF Batch
  <2> QED
    BY <1>4, <2>3
<1>7. ASSUME NEW e \in FirstEvents PROVE e \in Carried("event") \/ e \in obj[e.dst].unprocessed
  <2>1. EventOK(e)
    BY <1>3
  <2>2. PICK m \in Manager, n \in Manager : m = Home[e.src] /\ n = Home[e.dst]
    BY <2>1, HomeAssumption DEF EventOK
  <2>3. CASE m = n
    <3>1. e.dst \in Object /\ Home[e.src] = Home[e.dst]
      BY <2>1, <2>2, <2>3 DEF EventOK
    <3> QED
      BY <1>2, <3>1
  <2>4. CASE m # n
    <3>1. PICK x \in FirstMessages(m) : x = EventMessage(e) /\ x.type = "event" /\ x.events = {e}
      BY <1>4, <2>2, <2>4
    <3>2. Addressed(x, n)
      BY <2>2, <3>1 DEF Addressed
    <3>3. x \in Range(chan[<<m, n>>]) /\ <<m, n>> \in DOMAIN chan
      BY <1>2, <3>2 DEF Batch
    <3> QED
      BY <3>1, <3>3, CarriedAre
  <2> QED
    BY <2>3, <2>4
<1>8. "negative" # "event"
  OBVIOUS
<1>9. \A e : e \notin Carried("negative")
  BY <1>6, <1>8
<1>10. OutputsOK(obj, committed, Carried("event"), Carried("negative"))
  <2> SUFFICES ASSUME NEW p \in Object, NEW e \in obj[p].outputs
               PROVE  /\ Grounded(obj, committed, e)
                      /\ e \in Carried("event") \/ e \in Held(obj, committed, e.dst)
    BY <1>9 DEF OutputsOK
  <2>1. e \in FirstEvents
    BY <1>2
  <2> QED
    BY <1>3, <1>7, <2>1 DEF Grounded, Held, Active
<1>11. ASSUME NEW e, There(obj, committed, Carried("event"), e) PROVE e \in FirstEvents
  BY <1>2, <1>6, <1>11 DEF There, Held, Active
<1>12. ArrivedOK(obj, committed, gvt, Carried("event"), Carried("negative"))
  <2> SUFFICES ASSUME NEW e, There(obj, committed, Carried("event"), e) PROVE StandsBy(obj, committed, gvt, e)
    BY DEF ArrivedOK
  <2>1. e \in FirstEvents /\ e.src \in Object
    BY <1>3, <1>11 DEF EventOK
  <2> QED
    BY <1>2, <2>1 DEF StandsBy
<1>13. ChasedOK(obj, Carried("event"), Carried("negative"))
  BY <1>9 DEF ChasedOK
<1>14. ASSUME NEW p \in Object, NEW t \in Times \ {0}
       PROVE  SentOK(obj, committed, Carried("event"), Carried("negative"), p, t)
  <2>1. PICK sent : sent = SentAt(obj, committed, Carried("event"), Carried("negative"), p, t)
    OBVIOUS
  <2>2. ASSUME NEW e \in sent PROVE FALSE
    <3>1. There(obj, committed, Carried("event"), e) /\ e.send = t
      BY <2>1, SentAtAre
    <3> QED
      BY <1>3, <1>11, <3>1
  <2>3. sent = {} /\ {Content(e) : e \in sent} = {}
    BY <2>2
  <2>4. UpTo(obj, committed, p, t) = {}
    BY <1>2 DEF UpTo
  <2> QED
    BY <2>1, <2>3, <2>4 DEF SentOK
<1> QED
  BY <1>1, <1>5, <1>10, <1>12, <1>13, <1>14 DEF OrphanInv, Accounts

LEMMA OrphanStep ==
  ASSUME AppOK, OrphanInv, [Next]_vars
  PROVE  OrphanInv'
<1>1. CASE UNCHANGED vars
  <2>1. KernelInv /\ Accounts(obj, committed, gvt, Carried("event"), Carried("negative")) /\ QueuesOK(chan)
    BY DEF OrphanInv
  <2>2. Carried("event")' = Carried("event") /\ Carried("negative")' = Carried("negative")
    BY <1>1 DEF vars, Carried
  <2>3. KernelInv'
    BY <2>1, KernelStep
  <2>4. Accounts(obj', committed', gvt', Carried("event")', Carried("negative")') /\ QueuesOK(chan')
    BY <1>1, <2>1, <2>2 DEF vars
  <2> QED
    BY <2>3, <2>4, InvFromAccounts
<1>2. ASSUME NEW m \in Manager, Execute(m) PROVE OrphanInv'
  BY <1>2, ExecuteAccounts
<1>3. ASSUME NEW n \in Manager, NEW m \in Manager, ReceiveEvent(n, m) \/ ReceiveNegative(n, m) PROVE OrphanInv'
  BY <1>3, ReceiveAccounts
<1>4. ASSUME NEW m \in Manager, NEW g \in Estimates, FossilCollect(m, g) PROVE OrphanInv'
  BY <1>4, FossilAccounts
<1> QED
  BY <1>1, <1>2, <1>3, <1>4 DEF Next
-----------------------------------------------------------------------------
(* What follows from the invariant *)

LEMMA DeliveredAre ==
  ASSUME NEW e
  PROVE  e \in Delivered <=> There(obj, committed, Carried("event"), e)
BY DEF Delivered, Done, There, Held, Active

LEMMA NoOrphanFollows == OrphanInv => NoOrphan
<1> SUFFICES ASSUME OrphanInv PROVE NoOrphan
  OBVIOUS
<1>1. PICK Pos, Neg, ch : Pos = Carried("event") /\ Neg = Carried("negative") /\ ch = chan
  OBVIOUS
<1>2. /\ KernelInv /\ Accounts(obj, committed, gvt, Pos, Neg) /\ ChannelsOK(ch) /\ QueuesOK(ch)
      /\ ObjectsOK(obj, committed, gvt)
  BY <1>1 DEF OrphanInv, KernelInv
<1>3. /\ Pos = Flying(ch, "event") /\ Neg = Flying(ch, "negative")
  BY <1>1, FlyingIsCarried
<1>4. ASSUME NEW e \in Delivered, e \notin Neg
      PROVE  e.send = 0 \/ \E d \in Done(e.src) : d.recv = e.send
  <2>1. There(obj, committed, Pos, e)
    BY <1>1, DeliveredAre
  <2>2. StandsBy(obj, committed, gvt, e)
    BY <1>2, <1>4, <2>1 DEF Accounts, ArrivedOK
  <2>3. EventOK(e)
    <3>1. PICK objs, com, gv : objs = obj /\ com = committed /\ gv = gvt
      OBVIOUS
    <3>2. \A o \in Object : e \in Held(objs, com, o) => EventOK(e)
      BY <1>2, <3>1, HeldFacts
    <3>3. e \in Pos => EventOK(e)
      BY <1>2, <1>3, FlyingFacts
    <3> QED
      BY <2>1, <3>1, <3>2, <3>3 DEF There
  <2>4. e.src \in Object
    BY <2>3 DEF EventOK
  <2>5. Grounded(obj, committed, e)
    BY <1>2, <2>2, <2>4 DEF StandsBy, Accounts, OutputsOK
  <2> QED
    BY <2>5 DEF Grounded, Done
<1>5. ASSUME NEW c \in DOMAIN chan, NEW k \in 1..Len(chan[c]), chan[c][k].type = "negative",
             NEW e \in chan[c][k].events
      PROVE  Meets(e, c, k)
  <2>1. c \in Manager \X Manager
    BY <1>1, <1>2 DEF ChannelsOK
  <2>2. PICK p \in Manager, n \in Manager : c = <<p, n>>
    BY <2>1
  <2>3. PICK s : s = ch[c]
    OBVIOUS
  <2>4. s \in Seq(Range(s)) /\ QueueOK(s, p, n)
    BY <1>2, <2>1, <2>2, <2>3 DEF ChannelsOK, ChannelOK, QueuesOK
  <2>5. k \in 1..Len(s) /\ s[k].type = "negative" /\ e \in s[k].events
    BY <1>1, <1>5, <2>3
  <2>6. s[k] \in Range(s)
    BY <2>4, <2>5, RangeOf
  <2>7. EventOK(e) /\ Home[e.dst] = n /\ Home[e.src] = p
    <3>1. ChannelOK(s, n)
      BY <1>2, <2>1, <2>2, <2>3 DEF ChannelsOK
    <3>2. EventOK(e) /\ Home[e.dst] = n
      BY <2>5, <2>6, <3>1 DEF ChannelOK
    <3>3. Home[e.src] = p
      BY <2>4, <2>5 DEF QueueOK
    <3> QED
      BY <3>2, <3>3
  <2>8. e \in Neg
    BY <1>2, <1>3, <2>1, <2>3, <2>5, <2>6, FlyingAre DEF ChannelsOK
  <2>9. e \in Pos \/ e \in Active(obj, e.dst)
    BY <1>2, <2>8 DEF Accounts, ChasedOK
  <2>10. CASE e \in Active(obj, e.dst)
    BY <2>10 DEF Active, Meets
  <2>11. CASE e \in Pos
    <3>1. \E x \in Range(ch[<<Home[e.src], Home[e.dst]>>]) : x.type = "event" /\ e \in x.events
      BY <1>2, <1>3, <2>11, FlyingFacts
    <3>2. PICK x \in Range(s) : x.type = "event" /\ e \in x.events
      BY <2>2, <2>3, <2>7, <3>1
    <3>3. PICK j \in 1..Len(s) : x = s[j]
      BY <2>4, RangeOf
    <3>4. j < k /\ s[j] = EventMessage(e)
      BY <2>4, <2>5, <3>2, <3>3 DEF QueueOK
    <3>5. j \in 1..k - 1 /\ chan[c][j] = EventMessage(e)
      BY <1>1, <2>3, <2>5, <3>4
    <3> QED
      BY <3>5 DEF Meets
  <2> QED
    BY <2>9, <2>10, <2>11
<1> QED
  BY <1>1, <1>4, <1>5 DEF NoOrphan

LEMMA SequentialFollows == OrphanInv => SequentialBelowFloor
<1> SUFFICES ASSUME OrphanInv PROVE SequentialBelowFloor
  OBVIOUS
<1>1. Floor \in Nat /\ Floor <= Inf
  BY FloorFacts DEF OrphanInv, FloorIsGreatest
<1>2. PICK Pos, Neg : Pos = Carried("event") /\ Neg = Carried("negative")
  OBVIOUS
<1>3. PICK valid : valid = Delivered \ Carried("negative")
  OBVIOUS
<1>4. \A e : e \in valid <=> There(obj, committed, Pos, e) /\ e \notin Neg
  BY <1>2, <1>3, DeliveredAre
<1>5. ASSUME NEW o \in Object, NEW t \in 1..Floor - 1
      PROVE  LET sent == {e \in valid : e.src = o /\ e.send = t}
                 upTo == {e \in Done(o) : e.recv <= t}
             IN  /\ {Content(e) : e \in sent} = IF \E e \in upTo : e.recv = t THEN App(o, t, upTo) ELSE {}
                 /\ \A a, b \in sent : Content(a) = Content(b) => a = b
  <2>1. t \in Times \ {0}
    BY <1>1, BoundAssumption DEF Times, Inf
  <2>2. SentOK(obj, committed, Pos, Neg, o, t)
    BY <1>2, <2>1 DEF OrphanInv, Accounts
  <2>3. PICK sent : sent = {e \in valid : e.src = o /\ e.send = t}
    OBVIOUS
  <2>4. \A e : e \in sent <=> e \in SentAt(obj, committed, Pos, Neg, o, t)
    BY <1>4, <2>3, SentAtAre
  <2>5. sent = SentAt(obj, committed, Pos, Neg, o, t)
    BY <2>4
  <2>6. UpTo(obj, committed, o, t) = {e \in Done(o) : e.recv <= t}
    BY DEF UpTo, Done
  <2> QED
    BY <2>2, <2>3, <2>5, <2>6 DEF SentOK
<1> QED
  BY <1>3, <1>5 DEF SequentialBelowFloor

-----------------------------------------------------------------------------
(* The theorems *)

\* For every application that schedules into the future: whatever interleaving of
\* executions, stragglers, anti-messages and fossil collections, an event that has
\* arrived or travels was sent by an execution that stands, or an anti-message is on
\* its way for it; and handleAntiMessage() always finds the event it is to annihilate.
THEOREM NothingOrphaned ==
  ASSUME AppOK
  PROVE  Spec => []NoOrphan
<1>1. Init => OrphanInv
  BY OrphanInitial
<1>2. OrphanInv /\ [Next]_vars => OrphanInv'
  BY OrphanStep
<1>3. OrphanInv => NoOrphan
  BY NoOrphanFollows
<1> QED
  BY <1>1, <1>2, <1>3, PTL DEF Spec

\* For every application that schedules into the future: for each time below the
\* exact GVT, an object that executed at it has sent exactly what the application
\* sends from its true state, each event once, and one that did not has sent
\* nothing, as in the sequential kernel.
THEOREM RunIsSequential ==
  ASSUME AppOK
  PROVE  Spec => []SequentialBelowFloor
<1>1. Init => OrphanInv
  BY OrphanInitial
<1>2. OrphanInv /\ [Next]_vars => OrphanInv'
  BY OrphanStep
<1>3. OrphanInv => SequentialBelowFloor
  BY SequentialFollows
<1> QED
  BY <1>1, <1>2, <1>3, PTL DEF Spec
=============================================================================
