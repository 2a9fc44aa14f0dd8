-------------------------- MODULE ThreadedTimeWarp --------------------------
(***************************************************************************)
(* One ThreadedTimeWarpSimulationManager: worker threads that take objects *)
(* from shared schedule queues (ThreadedTimeWarpMultiSetLTSF), execute     *)
(* them, roll them back and cancel what they sent, and the manager thread  *)
(* that inserts the events of other simulation managers.                   *)
(*                                                                         *)
(* The locks are the spin locks of LockState.  A step runs from one lock   *)
(* acquisition that another thread can delay to the next; the locks of the *)
(* processed, removed, state and output queues are never held while        *)
(* another one is requested, and stay inside the steps.  Aggressive        *)
(* cancellation, MultiSet schedule queues, no optimistic fossil            *)
(* collection, no load balancer; GVT does not advance.                     *)
(***************************************************************************)
EXTENDS Naturals, Integers, Sequences, SequencesExt, FiniteSets

CONSTANTS
    Worker,         \* worker threads, numbered from 1
    Object,         \* objects of this manager, numbered from 0
    QueueCount,     \* scheduleQCount
    App(_, _),      \* App(o, t): what o sends at time t, a sequence of [dst, recv]
    Initial,        \* Initial[o]: what o sends in initialize()
    Inbox,          \* messages of other managers, in the order they arrive
    StatePeriod,
    MaxId           \* bound: events an object may send

Master == 0
NoOne == -1
End == [recv |-> -1]    \* the past-the-end iterator
Thread == Worker \cup {Master}
Queue == 0 .. QueueCount - 1

ASSUME ThreadAssumption ==
    /\ Worker \subseteq Nat \ {0}
    /\ Object \subseteq Nat /\ IsFiniteSet(Object)
ASSUME QueueAssumption == QueueCount \in Nat \ {0}
ASSUME BoundAssumption == StatePeriod \in Nat /\ MaxId \in Nat

\* What an application sends, and an event; a source may be of another manager.
Message == [dst : Object, recv : Nat]
Event == [neg : BOOLEAN, src : Nat, dst : Object, send : Nat, recv : Nat, id : Nat,
          cancels : SUBSET (Nat \X Nat)]

ASSUME ApplicationAssumption ==
    /\ Initial \in [Object -> Seq(Message)]
    /\ \A o \in Object : Len(Initial[o]) <= MaxId
    /\ Inbox \in Seq(Event)

\* The objects of this manager reach each other without a message: what arrives was
\* sent, or is cancelled, by an object of another manager.
ASSUME InboxAssumption ==
    \A i \in 1 .. Len(Inbox) :
        Inbox[i].src \notin Object /\ \A c \in Inbox[i].cancels : c[1] = Inbox[i].src

VARIABLES
    unprocessed,    \* unProcessedQueue[o], in multiset order
    processed,      \* processedQueue[o]
    time,           \* simulation time of the object
    state,          \* its state: the events it reflects
    saved,          \* myStateQueue[o]
    restored,       \* rollbackEventNumber, lastRollbackSenderObjectId, lastRollbackTime
    rolledBack,     \* rollbackCompleted[o]
    counter,        \* periodCounter[o]
    output,         \* outputEventsLocal of the object
    nextId,         \* the object's event counter
    scheduleQueue,  \* scheduleQueue of each LTSF, in multiset order
    lowestPos,      \* lowestObjectPosition
    uLock,          \* unprocessedQueueLockState
    oLock,          \* objectStatusLock
    sLock,          \* scheduleQueueLock
    pc,             \* where each thread is
    obj,            \* the object a worker has taken
    straggler,      \* the straggler it handles
    todo,           \* what it has yet to insert
    inbox           \* messages yet to be received

objectVars == <<time, state, saved, restored, rolledBack, counter, output, nextId>>
queueVars == <<scheduleQueue, lowestPos>>
vars == <<unprocessed, processed, objectVars, queueVars, uLock, oLock, sLock,
          pc, obj, straggler, todo, inbox>>

-----------------------------------------------------------------------------
\* receiveTimeLessThanEventIdLessThan
Less(a, b) ==
    IF a.recv # b.recv THEN a.recv < b.recv
    ELSE IF a.id # b.id THEN a.id < b.id
    ELSE a.src < b.src

\* Slip: new elements go to the end.
AppendedAll(s, es) == s \o es

\* multiset: the elements of m at the positions K in order, and those that are not
\* told apart in the order they came.
NotAfter(m, j, k) == Less(m[j], m[k]) \/ (~Less(m[k], m[j]) /\ j <= k)
Rank(m, K, k) == Cardinality({j \in K : NotAfter(m, j, k)})
Multiset(m, K) == [i \in 1 .. Cardinality(K) |-> m[CHOOSE k \in K : Rank(m, K, k) = i]]

\* multiset::insert of the elements of es.
InsertedAll(s, es) == Multiset(s \o es, DOMAIN (s \o es))

Inserted(s, e) == InsertedAll(s, <<e>>)

\* An event, and the StragglerEvent that carries anti-messages for the events
\* of es that go to dst: identified as the first of them, as early as the
\* earliest.
NewEvent(src, dst, send, recv, id) ==
    [neg |-> FALSE, src |-> src, dst |-> dst, send |-> send, recv |-> recv,
     id |-> id, cancels |-> {}]

StragglerEvent(es, dst) ==
    LET K == {k \in DOMAIN es : es[k].dst = dst} IN
    [es[Min(K)] EXCEPT !.neg = TRUE,
                       !.recv = Min({es[k].recv : k \in K}),
                       !.cancels = {<<es[k].src, es[k].id>> : k \in K}]

QueueOfObject(o) == o % QueueCount
QueueOfThread(t) == (t - 1) % QueueCount

\* setLock() returns: the lock is free, or already this thread's.
CanLock(lock, t) == lock \in {NoOne, t}

\* Slip: nobody is asked whether a worker has the object.
NeverScheduled(o) == FALSE

\* isObjectScheduled(): a worker has the object.
IsObjectScheduled(o) == oLock[o] # NoOne

\* Slip: an event of the present simulation time is refused too.
ExecutableLater(o) ==
    /\ unprocessed[o] # <<>>
    /\ ~Head(unprocessed[o]).neg
    /\ Head(unprocessed[o]).recv > time[o]

\* peek() and the getEvent()s refuse what an object may not execute yet.
Executable(o) ==
    /\ unprocessed[o] # <<>>
    /\ ~Head(unprocessed[o]).neg
    /\ Head(unprocessed[o]).recv >= time[o]

\* SetObject<State>: when, before which event, and what.
SavedState(o, t, id, src) == [time |-> t, id |-> id, src |-> src, state |-> state[o]]

\* myStateQueue[o].insert()
WithState(o, s) ==
    InsertAt(saved[o], 1 + Cardinality({k \in DOMAIN saved[o] : saved[o][k].time <= s.time}), s)

\* handleEvent(): the events o sends at time t, numbered from its counter.
Sends(o, t, cs) == [k \in DOMAIN cs |-> NewEvent(o, cs[k].dst, t, cs[k].recv, nextId[o] + k - 1)]

Init ==
    /\ time = [o \in Object |-> 0]
    /\ state = [o \in Object |-> <<>>]
    /\ saved = [o \in Object |-> <<[time |-> 0, id |-> 0, src |-> 0, state |-> <<>>]>>]
    /\ restored = [o \in Object |-> [time |-> -1, id |-> 0, src |-> 0]]
    /\ rolledBack = [o \in Object |-> FALSE]
    /\ counter = [o \in Object |-> StatePeriod]
    /\ nextId = [o \in Object |-> Len(Initial[o])]
    /\ output = [o \in Object |->
           [k \in DOMAIN Initial[o] |-> NewEvent(o, Initial[o][k].dst, 0, Initial[o][k].recv, k - 1)]]
    /\ processed = [o \in Object |-> <<>>]
    /\ unprocessed = [o \in Object |->
           InsertedAll(<<>>, SetToSeq({e \in UNION {ToSet(output[s]) : s \in Object} : e.dst = o}))]
    /\ lowestPos = [o \in Object |-> IF unprocessed[o] = <<>> THEN End ELSE Head(unprocessed[o])]
    /\ scheduleQueue = [q \in Queue |->
           InsertedAll(<<>>, SetToSeq({lowestPos[o] : o \in {x \in Object : QueueOfObject(x) = q}} \ {End}))]
    /\ uLock = [o \in Object |-> NoOne]
    /\ oLock = [o \in Object |-> NoOne]
    /\ sLock = [q \in Queue |-> NoOne]
    /\ pc = [t \in Thread |-> IF t = Master THEN "send" ELSE "idle"]
    /\ obj = [t \in Thread |-> NoOne]
    /\ straggler = [t \in Thread |-> End]
    /\ todo = [t \in Thread |-> <<>>]
    /\ inbox = Inbox

-----------------------------------------------------------------------------
\* LTSF::peek(): the schedule queue is locked ...
PeekLock(t) ==
    LET q == QueueOfThread(t) IN
    /\ pc[t] = "idle"
    /\ sLock[q] = NoOne
    /\ scheduleQueue[q] # <<>>
    /\ sLock' = [sLock EXCEPT ![q] = t]
    /\ pc' = [pc EXCEPT ![t] = "peek"]
    /\ UNCHANGED <<unprocessed, processed, objectVars, queueVars, uLock, oLock, obj,
                   straggler, todo, inbox>>

\* ... and its first object leaves it, locked by the worker.
Peek(t) ==
    LET q == QueueOfThread(t)
        o == Head(scheduleQueue[q]).dst
    IN  /\ pc[t] = "peek"
        /\ CanLock(oLock[o], t)
        /\ oLock' = [oLock EXCEPT ![o] = t]
        /\ scheduleQueue' = [scheduleQueue EXCEPT ![q] = Tail(@)]
        /\ lowestPos' = [lowestPos EXCEPT ![o] = End]
        /\ sLock' = [sLock EXCEPT ![q] = NoOne]
        /\ obj' = [obj EXCEPT ![t] = o]
        /\ pc' = [pc EXCEPT ![t] = "straggler"]
        /\ UNCHANGED <<unprocessed, processed, objectVars, uLock, straggler, todo, inbox>>

\* getEventIfStraggler(): anti-messages leave the queue; the lock is kept for
\* a straggler.  Only what is earlier than the object rolls it back.
GetEventIfStraggler(t) ==
    LET o == obj[t]
        e == Head(unprocessed[o])
    IN  /\ pc[t] = "straggler"
        /\ CanLock(uLock[o], t)
        /\ IF unprocessed[o] = <<>> \/ (~e.neg /\ e.recv >= time[o])
           THEN /\ uLock' = [uLock EXCEPT ![o] = NoOne]
                /\ pc' = [pc EXCEPT ![t] = "execute"]
                /\ UNCHANGED <<unprocessed, straggler>>
           ELSE /\ uLock' = [uLock EXCEPT ![o] = t]
                /\ unprocessed' = IF e.neg THEN [unprocessed EXCEPT ![o] = Tail(@)] ELSE unprocessed
                /\ straggler' = [straggler EXCEPT ![t] = e]
                /\ pc' = [pc EXCEPT ![t] = IF e.recv < time[o] THEN "rollback" ELSE "anti"]
        /\ UNCHANGED <<processed, objectVars, queueVars, oLock, sLock, obj, todo, inbox>>

-----------------------------------------------------------------------------
\* restoreState(): the last state not later than the rollback time, or the
\* oldest one.
RestoredIndex(o, t) ==
    LET K == {k \in DOMAIN saved[o] : saved[o][k].time <= t} IN
    IF K = {} THEN 1 ELSE Max(K)

\* ThreadedTimeWarpMultiSet::rollback(): how many processed events stay.  Past
\* those below the restored time it looks for the event the state was saved for.
KeptByRollback(o, s) ==
    LET past == {k \in DOMAIN processed[o] :
                    /\ processed[o][k].recv >= s.time
                    /\ processed[o][k].id = s.id
                    /\ processed[o][k].src = s.src}
    IN  IF s.time = 0 THEN 0
        ELSE IF past = {} THEN Len(processed[o])
        ELSE Min(past) - 1

\* Slip: the first event to give back is forgotten.
ReturnedAfter(o, kept) == SubSeq(processed[o], kept + 2, Len(processed[o]))

\* What goes back to the unprocessed events when kept processed ones stay.
Returned(o, kept) == SubSeq(processed[o], kept + 1, Len(processed[o]))

\* getEventsSentAtOrAfterAndRemove(): the queue is emptied from its end down to
\* an event sent earlier; they are cancelled newest first, except an event to
\* itself that is the oldest of the queue.
KeptOutput(o, t) ==
    LET K == {k \in DOMAIN output[o] : output[o][k].send < t} IN
    IF K = {} THEN 0 ELSE Max(K)

Cancelled(o, t) ==
    LET n == KeptOutput(o, t) IN
    Reverse(SubSeq(output[o],
                   IF n = 0 /\ output[o] # <<>> /\ output[o][1].dst = o THEN 2 ELSE n + 1,
                   Len(output[o])))

\* cancelEvents(): one StragglerEvent for each receiver, in the order of a hash map.
Stragglers(es) ==
    {StragglerEvent(es, es[k].dst) : k \in DOMAIN es}

\* rollback() up to the cancelling of what the object sent.
Rollback(t) ==
    LET o == obj[t]
        rt == straggler[t].recv
    IN  /\ pc[t] = "rollback"
        /\ \E n \in DOMAIN saved[o], kept \in 0 .. Len(processed[o]) :
               LET s == saved[o][n] IN
               /\ n = RestoredIndex(o, rt)
               /\ kept = KeptByRollback(o, s)
               /\ saved' = [saved EXCEPT ![o] = SubSeq(@, 1, n)]
               /\ restored' = [restored EXCEPT ![o] = [time |-> s.time, id |-> s.id, src |-> s.src]]
               /\ state' = [state EXCEPT ![o] = s.state]
               /\ time' = [time EXCEPT ![o] = s.time]
               /\ processed' = [processed EXCEPT ![o] = SubSeq(@, 1, kept)]
               /\ unprocessed' = [unprocessed EXCEPT ![o] = InsertedAll(@, Returned(o, kept))]
        /\ output' = [output EXCEPT ![o] = SubSeq(@, 1, KeptOutput(o, rt))]
        /\ rolledBack' = [rolledBack EXCEPT ![o] = TRUE]
        /\ \E order \in SetToSeqs(Stragglers(Cancelled(o, rt))) :
               todo' = [todo EXCEPT ![t] = order]
        /\ pc' = [pc EXCEPT ![t] = "cancel"]
        /\ UNCHANGED <<counter, nextId, queueVars, uLock, oLock, sLock, obj, straggler, inbox>>

\* updateStateWhileCoastForward(), and saveState() just after a rollback: only a
\* state of the restored time is saved, before the event it was saved for or an
\* earlier one.
UpdateState(o, e) ==
    /\ saved' = IF restored[o].time = e.recv /\ e.id <= restored[o].id
                THEN [saved EXCEPT ![o] = WithState(o, SavedState(o, e.recv, e.id, e.src))]
                ELSE saved
    /\ rolledBack' = [rolledBack EXCEPT ![o] = FALSE]

SaveState(o, e) ==
    IF rolledBack[o]
    THEN UpdateState(o, e) /\ UNCHANGED counter
    ELSE IF counter[o] <= 0
    THEN /\ saved' = [saved EXCEPT ![o] = WithState(o, SavedState(o, e.recv, e.id, e.src))]
         /\ counter' = [counter EXCEPT ![o] = StatePeriod]
         /\ UNCHANGED rolledBack
    ELSE /\ counter' = [counter EXCEPT ![o] = @ - 1]
         /\ UNCHANGED <<saved, rolledBack>>

\* peekEvent() of coastForward(): is the first event one before the rollback time?
\* A waiting anti-message ends the loop.
Coasts(o, rt) ==
    /\ unprocessed[o] # <<>>
    /\ ~Head(unprocessed[o]).neg
    /\ Head(unprocessed[o]).recv < rt

\* A turn of coastForward(), or its end: then rollback() lets the queue go, if it
\* still has it.  An insert() into the object itself has let it go already.
CoastForward(t) ==
    LET o == obj[t]
        e == Head(unprocessed[o])
    IN  /\ pc[t] = "cancel"
        /\ todo[t] = <<>>
        /\ CanLock(uLock[o], t)
        /\ IF Coasts(o, straggler[t].recv)
           THEN /\ time' = [time EXCEPT ![o] = e.recv]
                /\ IF rolledBack[o] THEN UpdateState(o, e) ELSE UNCHANGED <<saved, rolledBack>>
                /\ pc' = [pc EXCEPT ![t] = "coast"]
                /\ UNCHANGED uLock
           ELSE /\ uLock' = [uLock EXCEPT ![o] = NoOne]
                /\ pc' = [pc EXCEPT ![t] = IF straggler[t].neg THEN "anti" ELSE "update"]
                /\ UNCHANGED <<time, saved, rolledBack>>
        /\ UNCHANGED <<unprocessed, processed, state, restored, counter, output, nextId, queueVars,
                       oLock, sLock, obj, straggler, todo, inbox>>

\* getEventWhileRollback(): the event is executed again, nothing is sent.  It takes
\* no lock, whether or not the worker still has the queue.
GetEventWhileRollback(t) ==
    LET o == obj[t]
        e == Head(unprocessed[o])
    IN  /\ pc[t] = "coast"
        /\ IF Executable(o)
           THEN /\ unprocessed' = [unprocessed EXCEPT ![o] = Tail(@)]
                /\ processed' = [processed EXCEPT ![o] = Append(@, e)]
                /\ state' = [state EXCEPT ![o] = Append(@, e)]
                /\ UNCHANGED uLock
           ELSE /\ uLock' = [uLock EXCEPT ![o] = IF @ = t THEN NoOne ELSE @]
                /\ UNCHANGED <<unprocessed, processed, state>>
        /\ pc' = [pc EXCEPT ![t] = "cancel"]
        /\ UNCHANGED <<time, saved, restored, rolledBack, counter, output, nextId, queueVars,
                       oLock, sLock, obj, straggler, todo, inbox>>

\* ThreadedTimeWarpMultiSet::handleAntiMessage() for the event c names: it is found
\* and erased only when it has not been executed.
Annihilated(o, c) ==
    LET found == {k \in DOMAIN unprocessed[o] :
                     ~unprocessed[o][k].neg /\ <<unprocessed[o][k].src, unprocessed[o][k].id>> = c}
    IN  Multiset(unprocessed[o], DOMAIN unprocessed[o] \ (IF found = {} THEN {} ELSE {Min(found)}))

\* handleAntiMessageFromStraggler(): one anti-message after the other, the queue
\* locked for each.
HandleAntiMessage(t) ==
    LET o == obj[t] IN
    /\ pc[t] = "anti"
    /\ CanLock(uLock[o], t)
    /\ \E c \in straggler[t].cancels :
           /\ unprocessed' = [unprocessed EXCEPT ![o] = Annihilated(o, c)]
           /\ straggler' = [straggler EXCEPT ![t].cancels = @ \ {c}]
           /\ pc' = [pc EXCEPT ![t] = IF straggler[t].cancels = {c} THEN "update" ELSE "anti"]
    /\ uLock' = [uLock EXCEPT ![o] = NoOne]
    /\ UNCHANGED <<processed, objectVars, queueVars, oLock, sLock, obj, todo, inbox>>

-----------------------------------------------------------------------------
\* getEvent(): the first event becomes processed, the queue is let go, and the
\* application reacts.
ExecuteFirst(t, o) ==
    LET e == Head(unprocessed[o])
        out == Sends(o, e.recv, App(o, e.recv))
    IN  /\ nextId[o] + Len(out) <= MaxId
        /\ unprocessed' = [unprocessed EXCEPT ![o] = Tail(@)]
        /\ processed' = [processed EXCEPT ![o] = Append(@, e)]
        /\ state' = [state EXCEPT ![o] = Append(@, e)]
        /\ output' = [output EXCEPT ![o] = @ \o out]
        /\ nextId' = [nextId EXCEPT ![o] = @ + Len(out)]
        /\ todo' = [todo EXCEPT ![t] = out]
        /\ uLock' = [uLock EXCEPT ![o] = NoOne]
        /\ pc' = [pc EXCEPT ![t] = "send"]

\* The rest of executeObjects() when there is no straggler.
ExecuteProcess(t) ==
    LET o == obj[t]
        e == Head(unprocessed[o])
    IN  /\ pc[t] = "execute"
        /\ CanLock(uLock[o], t)
        /\ IF Executable(o)
           THEN /\ time' = [time EXCEPT ![o] = e.recv]
                /\ SaveState(o, e)
                /\ ExecuteFirst(t, o)
           ELSE /\ uLock' = [uLock EXCEPT ![o] = IF unprocessed[o] = <<>> THEN t ELSE NoOne]
                /\ pc' = [pc EXCEPT ![t] = "update"]
                /\ UNCHANGED <<unprocessed, processed, time, state, saved, rolledBack, counter,
                               output, nextId, todo>>
        /\ UNCHANGED <<restored, queueVars, oLock, sLock, obj, straggler, inbox>>

\* haveMoreEvents(): is the next event one of this simulation time?
HaveMoreEvents(t) ==
    LET o == obj[t]
        e == Head(unprocessed[o])
    IN  /\ t # Master
        /\ pc[t] = "send"
        /\ todo[t] = <<>>
        /\ CanLock(uLock[o], t)
        /\ pc' = [pc EXCEPT ![t] = IF unprocessed[o] # <<>> /\ ~e.neg /\ e.recv = time[o]
                                   THEN "more" ELSE "update"]
        /\ UNCHANGED <<unprocessed, processed, objectVars, queueVars, uLock, oLock, sLock, obj,
                       straggler, todo, inbox>>

\* The application asks for that event; getEvent() may return NULL.
GetEvent(t) ==
    LET o == obj[t] IN
    /\ pc[t] = "more"
    /\ CanLock(uLock[o], t)
    /\ IF Executable(o)
       THEN ExecuteFirst(t, o)
       ELSE /\ uLock' = [uLock EXCEPT ![o] = NoOne]
            /\ pc' = [pc EXCEPT ![t] = "send"]
            /\ UNCHANGED <<unprocessed, processed, state, output, nextId, todo>>
    /\ UNCHANGED <<time, saved, restored, rolledBack, counter, queueVars, oLock, sLock, obj,
                   straggler, inbox>>

-----------------------------------------------------------------------------
\* insert(), with the unprocessed queue of the receiver locked: done, unless
\* the event came first.
Insert(t) ==
    LET e == Head(todo[t])
        o == e.dst
        S == Inserted(unprocessed[o], e)
    IN  /\ pc[t] \in {"send", "cancel"}
        /\ todo[t] # <<>>
        /\ CanLock(uLock[o], t)
        /\ unprocessed' = [unprocessed EXCEPT ![o] = S]
        /\ IF Head(S) = e
           THEN /\ uLock' = [uLock EXCEPT ![o] = t]
                /\ pc' = [pc EXCEPT ![t] = IF @ = "send" THEN "sendFirst" ELSE "cancelFirst"]
                /\ UNCHANGED todo
           ELSE /\ uLock' = [uLock EXCEPT ![o] = NoOne]
                /\ todo' = [todo EXCEPT ![t] = Tail(@)]
                /\ UNCHANGED pc
        /\ UNCHANGED <<processed, objectVars, queueVars, oLock, sLock, obj, straggler, inbox>>

\* Slip: the old entry of the object stays.
RescheduledTwice(q, old, e) == [scheduleQueue EXCEPT ![q] = Inserted(@, e)]

\* eraseSkipFirst(), unless the old entry is End, and insertEvent()
Rescheduled(q, old, e) ==
    [scheduleQueue EXCEPT ![q] = Inserted(Multiset(@, {k \in DOMAIN @ : @[k] # old}), e)]

\* The rest of insert(): an object that no worker has is scheduled anew.
InsertFirst(t) ==
    LET e == Head(todo[t])
        o == e.dst
        q == QueueOfObject(o)
    IN  /\ pc[t] \in {"sendFirst", "cancelFirst"}
        /\ CanLock(sLock[q], t)
        /\ IF ~IsObjectScheduled(o)
           THEN /\ scheduleQueue' = Rescheduled(q, lowestPos[o], e)
                /\ lowestPos' = [lowestPos EXCEPT ![o] = e]
           ELSE UNCHANGED queueVars
        /\ uLock' = [uLock EXCEPT ![o] = NoOne]
        /\ todo' = [todo EXCEPT ![t] = Tail(@)]
        /\ pc' = [pc EXCEPT ![t] = IF @ = "sendFirst" THEN "send" ELSE "cancel"]
        /\ UNCHANGED <<unprocessed, processed, objectVars, oLock, sLock, obj, straggler, inbox>>

\* updateScheduleQueueAfterExecute() locks the unprocessed queue ...
UpdateLock(t) ==
    LET o == obj[t] IN
    /\ pc[t] = "update"
    /\ CanLock(uLock[o], t)
    /\ uLock' = [uLock EXCEPT ![o] = t]
    /\ pc' = [pc EXCEPT ![t] = "updateFirst"]
    /\ UNCHANGED <<unprocessed, processed, objectVars, queueVars, oLock, sLock, obj, straggler,
                   todo, inbox>>

\* ... and gives the object back, scheduled for its first event.
UpdateScheduleQueue(t) ==
    LET o == obj[t]
        q == QueueOfObject(o)
    IN  /\ pc[t] = "updateFirst"
        /\ CanLock(sLock[q], t)
        /\ IF unprocessed[o] # <<>>
           THEN /\ scheduleQueue' = Rescheduled(q, End, Head(unprocessed[o]))
                /\ lowestPos' = [lowestPos EXCEPT ![o] = Head(unprocessed[o])]
           ELSE /\ lowestPos' = [lowestPos EXCEPT ![o] = End]
                /\ UNCHANGED scheduleQueue
        /\ oLock' = [oLock EXCEPT ![o] = NoOne]
        /\ uLock' = [uLock EXCEPT ![o] = NoOne]
        /\ obj' = [obj EXCEPT ![t] = NoOne]
        /\ straggler' = [straggler EXCEPT ![t] = End]
        /\ pc' = [pc EXCEPT ![t] = "idle"]
        /\ UNCHANGED <<unprocessed, processed, objectVars, sLock, todo, inbox>>

\* receiveKernelMessage() in the manager thread: an EventMessage is inserted; of
\* a NegativeEventMessage a StragglerEvent is made, and not inserted.
ReceiveKernelMessage ==
    /\ inbox # <<>>
    /\ todo[Master] = <<>>
    /\ inbox' = Tail(inbox)
    /\ todo' = [todo EXCEPT ![Master] = IF Head(inbox).neg THEN <<>> ELSE <<Head(inbox)>>]
    /\ UNCHANGED <<unprocessed, processed, objectVars, queueVars, uLock, oLock, sLock, pc, obj,
                   straggler>>

WorkerStep(t) ==
    \/ PeekLock(t) \/ Peek(t) \/ GetEventIfStraggler(t)
    \/ Rollback(t) \/ CoastForward(t) \/ GetEventWhileRollback(t) \/ HandleAntiMessage(t)
    \/ ExecuteProcess(t) \/ HaveMoreEvents(t) \/ GetEvent(t)
    \/ Insert(t) \/ InsertFirst(t)
    \/ UpdateLock(t) \/ UpdateScheduleQueue(t)

MasterStep == ReceiveKernelMessage \/ Insert(Master) \/ InsertFirst(Master)

Next == MasterStep \/ \E t \in Worker : WorkerStep(t)

Spec == Init /\ [][Next]_vars

\* Threads keep running.  There is a bounded number of events, so weak fairness
\* is enough: a spin lock is not taken by others for ever.
FairSpec ==
    /\ Spec
    /\ WF_vars(MasterStep)
    /\ \A t \in Worker : WF_vars(WorkerStep(t))

-----------------------------------------------------------------------------
Events(o) == unprocessed[o] \o processed[o]

\* Queues hold items of their object, the unprocessed ones in order of receive
\* time; locks have owners that can take them.
TypeOK ==
    /\ \A o \in Object : \A e \in ToSet(Events(o)) : e.dst = o
    /\ \A o \in Object : \A j, k \in DOMAIN unprocessed[o] :
           j < k => ~Less(unprocessed[o][k], unprocessed[o][j])
    /\ nextId \in [Object -> 0 .. MaxId]
    /\ uLock \in [Object -> Thread \cup {NoOne}]
    /\ oLock \in [Object -> Worker \cup {NoOne}]
    /\ sLock \in [Queue -> Worker \cup {NoOne}]
    /\ obj \in [Thread -> Object \cup {NoOne}]

\* The entries of o in the schedule queues.
Entries(o) ==
    {x \in UNION {{q} \X DOMAIN scheduleQueue[q] : q \in Queue} : scheduleQueue[x[1]][x[2]].dst = o}

\* There is one, for the event e, in the queue the object belongs to.
ScheduledFor(o, e) ==
    \E k \in DOMAIN scheduleQueue[QueueOfObject(o)] :
        /\ Entries(o) = {<<QueueOfObject(o), k>>}
        /\ scheduleQueue[QueueOfObject(o)][k] = e

(* An object nobody has taken and nobody is inserting into is scheduled once,  *)
(* for its first event, and not at all when it has none: insert() and          *)
(* updateScheduleQueueAfterExecute() never leave an event behind or an entry   *)
(* that is out of date.                                                        *)
ScheduleExact ==
    \A o \in Object :
        oLock[o] = NoOne /\ uLock[o] = NoOne =>
            IF unprocessed[o] = <<>>
            THEN Entries(o) = {} /\ lowestPos[o] = End
            ELSE ScheduledFor(o, Head(unprocessed[o])) /\ lowestPos[o] = Head(unprocessed[o])

(* Two workers never have the same object, and the one that has it owns its    *)
(* lock and keeps it out of the schedule queue.  A worker inside peek() holds  *)
(* the schedule queue and never has to wait for the object it finds there:     *)
(* otherwise the owner could not give it back.                                 *)
OneWorker ==
    \A t \in Worker :
        /\ obj[t] # NoOne =>
              /\ oLock[obj[t]] = t
              /\ Entries(obj[t]) = {}
              /\ \A u \in Worker : obj[u] = obj[t] => u = t
        /\ pc[t] = "peek" =>
              /\ scheduleQueue[QueueOfThread(t)] # <<>>
              /\ oLock[Head(scheduleQueue[QueueOfThread(t)]).dst] = NoOne

\* Anti-messages on their way to the event's queue or to be handled.
AntiMessages ==
    LET waiting == UNION {ToSet(unprocessed[o]) : o \in Object}
        travelling == UNION {ToSet(todo[t]) : t \in Thread}
        handled == {straggler[t] : t \in {w \in Worker :
                       pc[w] \in {"rollback", "cancel", "cancelFirst", "coast", "anti"} /\ straggler[w].neg}}
    IN  UNION {e.cancels : e \in waiting \cup travelling \cup handled}

\* What senders stand by: their output queues, and what came from elsewhere
\* and has not been cancelled by a message received since.
Received == SubSeq(Inbox, 1, Len(Inbox) - Len(inbox))
Valid(e) ==
    IF e.src \in Object THEN e \in ToSet(output[e.src])
    ELSE \A m \in ToSet(Received) : m.neg => <<e.src, e.id>> \notin m.cancels

(* Every event in the queues of an object is one its sender stands by, unless  *)
(* an anti-message for it is under way.                                        *)
NoOrphan ==
    \A o \in Object : \A e \in ToSet(Events(o)) :
        ~e.neg => Valid(e) \/ <<e.src, e.id>> \in AntiMessages

(* When nobody has the object, its state reflects the events it has processed, *)
(* in that order: a rollback gives back what the restored state lacks.         *)
StateIsProcessed ==
    \A o \in Object : oLock[o] = NoOne => state[o] = processed[o]

\* The events a worker has yet to insert; in the middle of insert() one is in.
ToInsert(t) ==
    CASE pc[t] = "send" -> todo[t]
      [] pc[t] = "sendFirst" -> Tail(todo[t])
      [] OTHER -> <<>>

(* An event its sender stands by is in one place: about to be inserted by the *)
(* sender's worker, unprocessed or processed.  No hand-over between threads     *)
(* loses or doubles one.                                                        *)
NoEventLost ==
    \A s \in Object : \A e \in ToSet(output[s]) :
        Cardinality({k \in DOMAIN Events(e.dst) : Events(e.dst)[k] = e})
            + Cardinality({t \in Worker : obj[t] = s /\ e \in ToSet(ToInsert(t))}) = 1

(* In the end every event has been executed or cancelled, and every worker has *)
(* given back the object it took.                                              *)
Drains == <>[](/\ \A o \in Object : unprocessed[o] = <<>>
               /\ \A t \in Worker : obj[t] = NoOne)
=============================================================================
