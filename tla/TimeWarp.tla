------------------------------ MODULE TimeWarp ------------------------------
(***************************************************************************)
(* The optimistic kernel: TimeWarpSimulationManager with its event set,    *)
(* its periodic state manager and its aggressive output manager.           *)
(*                                                                         *)
(* Every simulation manager runs the objects it is home to, lowest event   *)
(* first, and sends what they schedule for objects elsewhere over FIFO     *)
(* channels.  A straggler or an anti-message rolls its object back, which  *)
(* cancels what the object sent, which rolls back other objects of the     *)
(* same manager within the same handler, and sends anti-messages to the    *)
(* others.  A new GVT value starts fossil collection.                      *)
(*                                                                         *)
(* The application is a parameter: App(o, t, S) is what executeProcess()   *)
(* of object o schedules at time t when S is the set of events executed    *)
(* into its state.  It empties the object's events of the current time,    *)
(* as doc/applicationInterface.tex asks of it, does not depend on their    *)
(* order, and schedules into the future only.                              *)
(*                                                                         *)
(* An object's state is the set of events executed into it, so that a      *)
(* wrong restore, a skipped or a repeated event can be seen in it.         *)
(***************************************************************************)
EXTENDS Integers, Sequences, FiniteSets, FiniteSetsExt, SequencesExt

CONSTANTS
    Manager,        \* simulation managers
    Object,         \* simulation objects
    Home,           \* Home[o]: the manager of object o
    App(_, _, _),   \* the application: a set of [dst, recv, val]
    Initial(_),     \* what initialize() of an object schedules, sent at 0
    StatePeriod,    \* statePeriod
    MaxTime,        \* bound: no event is scheduled after it
    Estimates,      \* bound: the GVT values that are announced
    MaxId           \* bound: live events with the same content, less one

ASSUME HomeAssumption == Home \in [Object -> Manager] /\ IsFiniteSet(Object)
ASSUME BoundAssumption ==
    StatePeriod \in Nat /\ MaxTime \in Nat /\ MaxId \in Nat /\ Estimates \subseteq Nat

\* initialize() schedules for objects there are, after time 0.
ASSUME InitialAssumption ==
    \A o \in Object :
        /\ IsFiniteSet(Initial(o))
        /\ \A c \in Initial(o) : c.dst \in Object /\ c.recv \in 1 .. MaxTime

Times == 0 .. MaxTime
Inf   == MaxTime + 1            \* getPositiveInfinity()

VARIABLES
    obj,        \* obj[o]: everything a manager keeps for object o
    chan,       \* chan[<<m, n>>]: messages travelling from m to n
    gvt,        \* gvt[m]: the GVT value of manager m
    committed   \* committed[o]: events of o given back by fossil collection

vars == <<obj, chan, gvt, committed>>

Local(m) == {o \in Object : Home[o] = m}

-----------------------------------------------------------------------------
(***************************************************************************)
(* Events and messages.                                                    *)
(***************************************************************************)
EventMessage(e)          == [type |-> "event", events |-> {e}]
NegativeEventMessage(es) == [type |-> "negative", events |-> es]

Carried(type) ==
    UNION {UNION {x.events : x \in {y \in Range(chan[c]) : y.type = type}} : c \in DOMAIN chan}

\* Events some container or message still holds.
LiveEvents ==
    Carried("event") \cup Carried("negative") \cup
        (UNION {obj[o].unprocessed \cup obj[o].processed \cup obj[o].outputs \cup committed[o] : o \in Object})

\* The exact global virtual time.
Floor ==
    Min({Inf} \cup {e.recv : e \in Carried("event") \cup Carried("negative")
                                   \cup (UNION {obj[o].unprocessed : o \in Object})})

\* getNextEventId(): only that no two live events share an id is kept of it.
Named(o, t, c, i) == [src |-> o, dst |-> c.dst, send |-> t, recv |-> c.recv, val |-> c.val, id |-> i]
FreeIds(o, t, c)  == {i \in 0 .. MaxId : Named(o, t, c, i) \notin LiveEvents}
NewEvent(o, t, c) == Named(o, t, c, Min(FreeIds(o, t, c)))

-----------------------------------------------------------------------------
(***************************************************************************)
(* State saving.                                                           *)
(***************************************************************************)
\* Slip: one call too many is skipped.
SaveStateLate(ob, t) ==
    IF ob.periodCounter < 0
    THEN [ob EXCEPT !.states = @ \cup {[time |-> t, state |-> ob.state]},
                    !.periodCounter = StatePeriod]
    ELSE [ob EXCEPT !.periodCounter = @ - 1]

\* saveState(): before the events of time t, every StatePeriod + 1 calls.
SaveState(ob, t) ==
    IF ob.periodCounter <= 0
    THEN [ob EXCEPT !.states = @ \cup {[time |-> t, state |-> ob.state]},
                    !.periodCounter = StatePeriod]
    ELSE [ob EXCEPT !.periodCounter = @ - 1]

\* The states restoreState() leaves in the queue; it restores the last.
StatesAfterRestore(S, r) ==
    {s \in S : s.time <= r \/ \A x \in S : s.time <= x.time}

LastTime(S)  == Max({s.time : s \in S})
FirstTime(S) == Min({s.time : s \in S} \cup {Inf})

\* Slip: no state older than GVT is kept.
StatesFromGVT(S, t) == IF t = Inf THEN {} ELSE {s \in S : s.time >= t}

\* fossilCollect() of the state manager: one state older than t is kept.
StatesAfterCollect(S, t) ==
    LET older == {s \in S : s.time < t}
    IN  IF t = Inf THEN {} ELSE IF older = {} THEN S ELSE {s \in S : s.time >= LastTime(older)}

-----------------------------------------------------------------------------
(***************************************************************************)
(* Rollback.                                                               *)
(***************************************************************************)
\* Slips: the state misses the coasted events; there is no coast forward at
\* all; the output queue keeps what was cancelled.
RollbackStateOnly(ob, r) ==
    LET kept     == StatesAfterRestore(ob.states, r)
        restored == CHOOSE s \in kept : s.time = LastTime(kept)
    IN  IF r > ob.lvt THEN ob
        ELSE [ob EXCEPT !.states = kept, !.state = restored.state, !.lvt = restored.time,
                        !.unprocessed = @ \cup {e \in ob.processed : e.recv >= r},
                        !.processed = {e \in @ : e.recv < r},
                        !.outputs = {e \in @ : e.send < r}]

RollbackNoCoast(ob, r) ==
    LET kept     == StatesAfterRestore(ob.states, r)
        restored == CHOOSE s \in kept : s.time = LastTime(kept)
    IN  IF r > ob.lvt THEN ob
        ELSE [ob EXCEPT !.states = kept, !.state = restored.state, !.lvt = restored.time,
                        !.unprocessed = @ \cup {e \in ob.processed : e.recv >= restored.time},
                        !.processed = {e \in @ : e.recv < restored.time},
                        !.outputs = {e \in @ : e.send < r}]

\* rollback() of one object to time r: restore a state, put the events from
\* its time on back, and coast forward again through those before r.
RollbackObject(ob, r) ==
    LET kept     == StatesAfterRestore(ob.states, r)
        restored == CHOOSE s \in kept : s.time = LastTime(kept)
        undone   == ob.unprocessed \cup {e \in ob.processed : e.recv >= restored.time}
        coast    == {e \in undone : e.recv < r}
    IN  IF r > ob.lvt THEN ob
        ELSE [unprocessed   |-> undone \ coast,
              processed     |-> {e \in ob.processed : e.recv < restored.time} \cup coast,
              outputs       |-> {e \in ob.outputs : e.send < r},
              states        |-> kept,
              periodCounter |-> ob.periodCounter,
              state         |-> restored.state \cup coast,
              lvt           |-> Max({restored.time} \cup {e.recv : e \in coast})]

\* Slip: what was sent at the rollback time itself is not cancelled.
CancelledAfter(ob, r) == {e \in ob.outputs : e.send > r}

\* What rolling object ob back to r cancels: getEventsSentAtOrAfterAndRemove().
Cancelled(ob, r) == {e \in ob.outputs : e.send >= r}

\* The rollback times that the arrival of the events es asks for.
Asked(es) == [o \in Object |-> Min({e.recv : e \in {x \in es : x.dst = o}} \cup {Inf})]

\* R[o] is the time object o of manager m is rolled back to when req[o] was
\* asked for and every cancellation has been carried to the local receivers.
\* Messages go forward in time, so there is exactly one such function.
IsCascade(R, objs, m, req) ==
    \A o \in Local(m) :
        R[o] = Min({req[o]} \cup
                   {e.recv : e \in {x \in UNION {Cancelled(objs[p], R[p]) : p \in Local(m)} : x.dst = o}})

CascadeTimes(objs, m, req) ==
    IF \A o \in Local(m) : req[o] > objs[o].lvt
    THEN [o \in Local(m) |-> Inf]
    ELSE CHOOSE R \in [Local(m) -> Times \cup {Inf}] : IsCascade(R, objs, m, req)

\* The objects of manager m after the cascade R: rolled back, and with the
\* cancelled events annihilated by handleAntiMessage().
Cascade(objs, m, R) ==
    LET gone == UNION {Cancelled(objs[o], R[o]) : o \in Local(m)}
    IN  [o \in Object |-> IF o \in Local(m)
                          THEN [RollbackObject(objs[o], R[o]) EXCEPT !.unprocessed = @ \ gone]
                          ELSE objs[o]]

\* cancelRemoteEvents(): one message per sender and remote receiver.
AntiMessages(objs, m, R) ==
    LET to(o, d) == {e \in Cancelled(objs[o], R[o]) : e.dst = d}
    IN  {NegativeEventMessage(to(p[1], p[2])) :
            p \in {q \in Local(m) \X (Object \ Local(m)) : to(q[1], q[2]) # {}}}

\* The messages of msgs for each manager, each in one of the orders they may leave in.
Addressed(x, n) == \A e \in x.events : Home[e.dst] = n

Orders(msgs) ==
    LET to == [n \in Manager |-> SetToSeqs({x \in msgs : Addressed(x, n)})]
    IN  {f \in [Manager -> UNION Range(to)] : \A n \in Manager : f[n] \in to[n]}

\* Messages of one handler of manager m go out, in any order, over channels ch.
Send(ch, m, msgs) ==
    \E order \in Orders(msgs) :
        chan' = [c \in Manager \X Manager |-> IF c[1] = m THEN ch[c] \o order[c[2]] ELSE ch[c]]

\* Slip: the events to annihilate are left in the queue.
DeliverAll(ch, m, base, es, drop, msgs) ==
    \E R \in {CascadeTimes(base, m, Asked(es \cup drop))} :
        /\ obj' = [o \in Object |->
                     [Cascade(base, m, R)[o] EXCEPT !.unprocessed = @ \cup {e \in es : e.dst = o}]]
        /\ Send(ch, m, AntiMessages(base, m, R) \cup msgs)

\* The events es reach their objects and the anti-messages for "drop" theirs
\* (handleLocalEvent, cancelLocalEvents): roll back, then insert and annihilate;
\* the anti-messages for other managers leave together with msgs.
Deliver(ch, m, base, es, drop, msgs) ==
    \E R \in {CascadeTimes(base, m, Asked(es \cup drop))} :
        /\ obj' = [o \in Object |->
                     [Cascade(base, m, R)[o] EXCEPT
                         !.unprocessed = (@ \ drop) \cup {e \in es : e.dst = o}]]
        /\ Send(ch, m, AntiMessages(base, m, R) \cup msgs)

-----------------------------------------------------------------------------
(***************************************************************************)
(* The handlers.                                                           *)
(***************************************************************************)
\* initialize(): the objects schedule their first events ...
FirstEvents == UNION {{Named(o, 0, c, 0) : c \in Initial(o)} : o \in Object}

\* ... of which manager m sends those for objects of other managers ...
FirstMessages(m) == {EventMessage(e) : e \in {x \in FirstEvents : Home[x.src] = m /\ Home[x.dst] # m}}

\* ... and every object saves a state.
Init ==
    /\ obj = [o \in Object |->
                [unprocessed   |-> {e \in FirstEvents : e.dst = o /\ Home[e.src] = Home[o]},
                 processed     |-> {},
                 outputs       |-> {e \in FirstEvents : e.src = o},
                 states        |-> {[time |-> 0, state |-> {}]},
                 periodCounter |-> StatePeriod,
                 state         |-> {},
                 lvt           |-> 0]]
    /\ \E order \in [Manager -> UNION {Orders(FirstMessages(m)) : m \in Manager}] :
            /\ \A m \in Manager : order[m] \in Orders(FirstMessages(m))
            /\ chan = [c \in Manager \X Manager |-> order[c[1]][c[2]]]
    /\ gvt = [m \in Manager |-> 0]
    /\ committed = [o \in Object |-> {}]

\* executeProcess() at time t: the object's state takes in its events of time t.
Executed(ob, t) ==
    LET now == {e \in ob.unprocessed : e.recv = t}
    IN  [ob EXCEPT !.lvt = t, !.state = @ \cup now,
                   !.unprocessed = @ \ now, !.processed = @ \cup now]

\* One round of executeObjects(): the object with the lowest event saves its
\* state and executes; what it schedules here may be a straggler here.
Execute(m) ==
    \E o \in {p \in Local(m) : obj[p].unprocessed # {}} :
    \E t \in {Min({e.recv : e \in obj[o].unprocessed})} :
        /\ \A p \in Local(m) : \A e \in obj[p].unprocessed : e.recv >= t
        /\ \E ran \in {Executed(SaveState(obj[o], t), t)} :
              /\ \A c \in App(o, t, ran.state) : FreeIds(o, t, c) # {}          \* bound
              /\ \E out \in {{NewEvent(o, t, c) : c \in App(o, t, ran.state)}} :
                    LET near == {e \in out : e.dst \in Local(m)}
                    IN  Deliver(chan, m, [obj EXCEPT ![o] = [ran EXCEPT !.outputs = @ \cup out]],
                                near, {}, {EventMessage(e) : e \in out \ near})
        /\ UNCHANGED <<gvt, committed>>

\* checkPhysicalLayerForMessages() takes the next message from manager n.
Received(n, m) == [chan EXCEPT ![<<n, m>>] = Tail(@)]

\* receiveKernelMessage() of an EventMessage.
ReceiveEvent(n, m) ==
    /\ chan[<<n, m>>] # <<>>
    /\ Head(chan[<<n, m>>]).type = "event"
    /\ Deliver(Received(n, m), m, obj, Head(chan[<<n, m>>]).events, {}, {})
    /\ UNCHANGED <<gvt, committed>>

\* Slip: anti-messages are only taken for events still waiting.
ReceiveNegativeIfWaiting(n, m) ==
    /\ chan[<<n, m>>] # <<>>
    /\ Head(chan[<<n, m>>]).type = "negative"
    /\ \A e \in Head(chan[<<n, m>>]).events : e \in obj[e.dst].unprocessed
    /\ Deliver(Received(n, m), m, obj, {}, Head(chan[<<n, m>>]).events, {})
    /\ UNCHANGED <<gvt, committed>>

\* receiveKernelMessage() of a NegativeEventMessage.
ReceiveNegative(n, m) ==
    /\ chan[<<n, m>>] # <<>>
    /\ Head(chan[<<n, m>>]).type = "negative"
    /\ Deliver(Received(n, m), m, obj, {}, Head(chan[<<n, m>>]).events, {})
    /\ UNCHANGED <<gvt, committed>>

\* A better estimate of GVT arrives, and fossilCollect() drops what no rollback
\* can need: first states, then the outputs and events before the oldest state.
FossilCollect(m, g) ==
    LET kept(o) == StatesAfterCollect(obj[o].states, g)
        oldest  == Min({FirstTime(kept(o)) : o \in Local(m)} \cup {Inf})
        old(o)  == {e \in obj[o].processed : e.recv < oldest}
    IN  /\ gvt[m] < g /\ g <= Floor
        /\ gvt' = [gvt EXCEPT ![m] = g]
        /\ obj' = [o \in Object |->
                     IF o \in Local(m)
                     THEN [obj[o] EXCEPT !.states = kept(o), !.processed = @ \ old(o),
                                         !.outputs = {e \in @ : e.send >= oldest}]
                     ELSE obj[o]]
        /\ committed' = [o \in Object |-> committed[o] \cup IF o \in Local(m) THEN old(o) ELSE {}]
        /\ UNCHANGED chan

Next ==
    \/ \E m \in Manager : Execute(m)
    \/ \E n, m \in Manager : ReceiveEvent(n, m) \/ ReceiveNegative(n, m)
    \/ \E m \in Manager, g \in Estimates : FossilCollect(m, g)

Spec == Init /\ [][Next]_vars

\* simulate() keeps executing and polling.
FairSpec ==
    /\ Spec
    /\ \A m \in Manager : WF_vars(Execute(m))
    /\ \A n, m \in Manager : WF_vars(ReceiveEvent(n, m) \/ ReceiveNegative(n, m))

-----------------------------------------------------------------------------
(***************************************************************************)
(* Properties.                                                             *)
(***************************************************************************)
Done(o) == obj[o].processed \cup committed[o]

EventOK(e) ==
    /\ e.src \in Object /\ e.dst \in Object /\ e.send \in Times /\ e.recv \in Times
    /\ e.send < e.recv

\* Types of the state; every event is with the object it was sent to.
TypeOK ==
    /\ \A o \in Object :
          /\ \A e \in LiveEvents : EventOK(e)
          /\ \A e \in obj[o].unprocessed \cup Done(o) : e.dst = o
          /\ \A e \in obj[o].outputs : e.src = o
          /\ obj[o].periodCounter \in 0 .. StatePeriod
          /\ obj[o].lvt \in Times
    /\ \A m \in Manager : gvt[m] \in Times \cup {Inf}

\* An object's state is what its processed events make of it: nothing is
\* lost, repeated or left over after any number of rollbacks, coast forwards
\* and fossil collections.
\* A saved state is the object's true state at the time it is labelled with,
\* although it may have been saved before a rollback.
StateIsReplay ==
    \A o \in Object :
        /\ obj[o].state = Done(o)
        /\ \A s \in obj[o].states : s.state = {e \in Done(o) : e.recv < s.time}

\* ASSERT(*restoredTime <= rollbackTime) in rollback(): whatever can still
\* arrive, fossil collection left a state to go back to, and the events after it.
RestorePoint ==
    \A o \in Object : Floor # Inf =>
        /\ FirstTime(obj[o].states) <= Floor
        /\ \A e \in committed[o] : e.recv < FirstTime(obj[o].states)

\* An anti-message will find its positive.
Meets(e, c, k) ==
    \/ e \in obj[e.dst].unprocessed \cup obj[e.dst].processed
    \/ \E j \in 1 .. k - 1 : chan[c][j] = EventMessage(e)

Delivered == Carried("event") \cup (UNION {obj[o].unprocessed \cup Done(o) : o \in Object})

\* No orphans: an event at its receiver, or on its way, is one its sender
\* still stands by, or an anti-message is chasing it; and the anti-message
\* finds it: handleAntiMessage() returns silently when it does not, and the
\* event would be executed for ever.
NoOrphan ==
    /\ \A e \in Delivered \ Carried("negative") :
          \/ e.send = 0
          \/ \E d \in Done(e.src) : d.recv = e.send
    /\ \A c \in DOMAIN chan : \A k \in 1 .. Len(chan[c]) : chan[c][k].type = "negative" =>
          \A e \in chan[c][k].events : Meets(e, c, k)

\* Below the exact GVT the run is the sequential one: every object that
\* executed at t sent exactly what the application sends from its true state,
\* each event once, and whoever executed nothing at t sent nothing.
Content(e) == [dst |-> e.dst, recv |-> e.recv, val |-> e.val]

SequentialBelowFloor ==
    LET valid == Delivered \ Carried("negative")
    IN  \A o \in Object, t \in 1 .. Floor - 1 :
            LET sent == {e \in valid : e.src = o /\ e.send = t}
                upTo == {e \in Done(o) : e.recv <= t}
            IN  /\ {Content(e) : e \in sent} = IF \E e \in upTo : e.recv = t THEN App(o, t, upTo) ELSE {}
                /\ \A a, b \in sent : Content(a) = Content(b) => a = b

\* The kernel keeps the other half of the contract with the GVT manager: no
\* rollback, cancellation or message brings global time back.
GVT == INSTANCE GlobalVirtualTime WITH SM <- Manager, floor <- Floor, gvt <- gvt
RespectsGVT == GVT!Spec

\* Optimism ends: the run comes to rest with everything executed.
Terminates == <>[](Floor = Inf)
=============================================================================
