----------------------------- MODULE MatternGVT -----------------------------
(***************************************************************************)
(* The distributed GVT estimation of MatternGVTManager, together with the  *)
(* part of TimeWarpSimulationManager that feeds it: executing the lowest   *)
(* event, sending, receiving and cancelling events, and rolling back.      *)
(*                                                                         *)
(* A simulation manager is one process with one simulation object; the     *)
(* estimator only looks at the lowest unprocessed event of a manager, so   *)
(* further objects would add nothing it can see.  A handler runs to        *)
(* completion before the next message is taken from the physical layer.    *)
(* Channels are FIFO per pair of managers (MPI and TCP both are), with no  *)
(* order between different pairs.                                          *)
(***************************************************************************)
EXTENDS Integers, Sequences, FiniteSets, FiniteSetsExt, SequencesExt

CONSTANTS
    N,              \* number of simulation managers
    MaxTime,        \* bound: receive times lie in 1..MaxTime
    GVTPeriod,      \* gVTPeriod: events SM 0 executes between estimations
    Starters,       \* managers whose object may schedule an initial event
    Routes,         \* pairs <<i, j>>: objects of i schedule events for objects of j
    MaxInTransit    \* bound: positive events in transit before execution waits

ASSUME NAssumption == N \in Nat /\ N > 1
ASSUME BoundAssumption ==
    MaxTime \in Nat \ {0} /\ GVTPeriod \in Nat \ {0} /\ MaxInTransit \in Nat
ASSUME RoutesAssumption ==
    Starters \subseteq 0 .. N - 1 /\ Routes \subseteq (0 .. N - 1) \X (0 .. N - 1)

SM    == 0 .. N - 1
Times == 1 .. MaxTime
Inf   == MaxTime + 1            \* getPositiveInfinity()

\* A positive event; a negative event is named by the positive it cancels.
Event == [from : SM, to : SM, send : 0 .. MaxTime, recv : Times]

VARIABLES
    record,         \* record[i]: the MatternObjectRecord of manager i
    pending,        \* gVTTokenPending of manager 0
    periodCounter,  \* gVTPeriodCounter of manager 0
    gvt,            \* gvt[i]: GVTManagerImplementationBase::gVT of manager i
    unproc,         \* unproc[i]: unprocessed events of manager i
    done,           \* done[i]: processed events that can still be undone
    sent,           \* sent[i]: output events of manager i
    chan,           \* chan[i, j]: messages travelling from i to j
    aborted         \* some manager called abort() in rollback()

gvtVars    == <<record, pending, periodCounter, gvt>>
kernelVars == <<unproc, done, sent>>
vars       == <<gvtVars, kernelVars, chan, aborted>>

-----------------------------------------------------------------------------
(***************************************************************************)
(* Messages.                                                               *)
(***************************************************************************)
EventMsg(e, c)       == [type |-> "event",    events |-> {e}, color |-> c]
NegativeMsg(es, c)   == [type |-> "negative", events |-> es,  color |-> c]
TokenMsg(clk, ts, n) == [type |-> "token", clock |-> clk, tMin |-> ts, count |-> n]
UpdateMsg(v)         == [type |-> "update", gvt |-> v]

IsEventMsg(m) == m.type \in {"event", "negative"}

Lower(a, b) == IF a < b THEN a ELSE b
NextSM(i)   == (i + 1) % N
NewRecord   == [color |-> "WHITE", tMin |-> Inf, white |-> 0, iteration |-> 0]

\* incrementTokenIterationNumber(): only compared with 1, so it stops at 2.
Increment(n) == Lower(n + 1, 2)

\* getLastEventScheduledTime(): lowest unprocessed receive time, or infinity.
LowEventTime(i) == Min({e.recv : e \in unproc[i]} \cup {Inf})

\* getGVTInfo(): the account a record keeps of one message sent at time s.
Account(r, s) ==
    IF r.color = "WHITE" THEN [r EXCEPT !.white = @ + 1]
                         ELSE [r EXCEPT !.tMin = Lower(@, s)]

\* Slip: a white message is not taken off the count when it arrives.
UncountNothing(r, m) == r

\* updateEventRecord(): the account a record keeps of one message received.
Uncount(r, m) == IF m.color = "WHITE" THEN [r EXCEPT !.white = @ - 1] ELSE r

\* sendGVTToken(): manager i passes a token on; result is the channels.
SendGVTToken(ch, i, clk, ts, n) ==
    [ch EXCEPT ![i, NextSM(i)] = Append(@, TokenMsg(clk, ts, n))]

-----------------------------------------------------------------------------
(***************************************************************************)
(* The kernel around the estimator.                                        *)
(***************************************************************************)
InTransit(ch) == UNION { UNION { m.events : m \in {x \in Range(ch[c]) : IsEventMsg(x)} }
                         : c \in SM \X SM }

PositivesInTransit ==
    UNION { UNION { m.events : m \in {x \in Range(chan[c]) : x.type = "event"} }
            : c \in SM \X SM }

\* Events an execution at time t may generate: at most one per destination.
Outputs(i, t) ==
    { out \in SUBSET [from : {i}, to : {j \in SM : <<i, j>> \in Routes}, send : {t}, recv : {u \in Times : u > t}] :
        \A a, b \in out : a.to = b.to => a = b }

\* handleRemoteEvent() for every remote output, in the order of destinations
\* (each destination has a channel of its own, so the order is not visible).
SendRemote(r, ch, i, out) ==
    LET rem == {e \in out : e.to # i}
    IN  [ rec  |-> FoldSet(LAMBDA e, acc : Account(acc, e.send), r, rem),
          chan |-> [c \in DOMAIN ch |->
                      LET es == {e \in rem : c = <<i, e.to>>}
                      IN  IF es = {} THEN ch[c]
                          ELSE Append(ch[c], EventMsg(CHOOSE e \in es : TRUE, r.color))] ]

\* cancelEvents()/cancelRemoteEvents(): one negative message per destination,
\* accounted once with the lowest send time it carries.
CancelRemote(r, ch, i, out) ==
    LET rem     == {e \in out : e.to # i}
        to(j)   == {e \in rem : e.to = j}
        dests   == {e.to : e \in rem}
    IN  [ rec  |-> FoldSet(LAMBDA j, acc : Account(acc, Min({e.send : e \in to(j)})), r, dests),
          chan |-> [c \in DOMAIN ch |->
                      IF c[1] = i /\ c[2] \in dests
                      THEN Append(ch[c], NegativeMsg(to(c[2]), r.color))
                      ELSE ch[c]] ]

\* Slip: gVTPeriodCounter keeps its value when the period is over.
PeriodNotReset(start) == IF ~pending THEN periodCounter + 1 ELSE periodCounter

\* checkGVTPeriod(): what it leaves in gVTPeriodCounter on manager 0.
PeriodAfter(start) ==
    IF start THEN 0 ELSE IF ~pending THEN periodCounter + 1 ELSE periodCounter

\* checkGVTPeriod() and the test of calculateGVT(): time to send a token.
PeriodOver(i) == i = 0 /\ ~pending /\ periodCounter + 1 = GVTPeriod

(***************************************************************************)
(* One iteration of executeObjects() on manager i: manager 0 first may     *)
(* start an estimation (checkGVTPeriod, calculateGVT), its token carrying  *)
(* the clock before the event runs; then executeProcess consumes every     *)
(* event of that time and handleEvent deals with each output.              *)
(***************************************************************************)
Execute(i) ==
    /\ unproc[i] # {}
    /\ Cardinality(PositivesInTransit) < MaxInTransit
    /\ LET t     == LowEventTime(i)
           now   == {e \in unproc[i] : e.recv = t}
           start == PeriodOver(i)
           rec1  == IF start
                    THEN [ color |-> "RED", tMin |-> Inf, white |-> 0,
                           iteration |-> Increment(record[i].iteration) ]
                    ELSE record[i]
           ch1   == IF start THEN SendGVTToken(chan, i, t, Inf, record[i].white) ELSE chan
       IN  \E out \in Outputs(i, t) :
             LET rem == SendRemote(rec1, ch1, i, out)
             IN  /\ record' = [record EXCEPT ![i] = rem.rec]
                 /\ chan'   = rem.chan
                 /\ unproc' = [unproc EXCEPT ![i] = (@ \ now) \cup {e \in out : e.to = i}]
                 /\ done'   = [done EXCEPT ![i] = @ \cup now]
                 /\ sent'   = [sent EXCEPT ![i] = @ \cup out]
                 /\ pending' = (pending \/ start)
                 /\ periodCounter' = IF i = 0 THEN PeriodAfter(start) ELSE periodCounter
    /\ UNCHANGED <<gvt, aborted>>

(***************************************************************************)
(* rollback(object, r) on manager i with aggressive cancellation, followed *)
(* by the insertion or annihilation of the events that called for it.      *)
(* Undone events become unprocessed again, outputs sent at or after r are  *)
(* withdrawn: local ones at once, remote ones by negative messages.        *)
(***************************************************************************)
RollbackAnd(i, r, rec, ch, insert, annihilate) ==
    LET undone == {e \in done[i] : e.recv >= r}
        cancel == {e \in sent[i] : e.send >= r}
        rem    == CancelRemote(rec, ch, i, cancel)
    IN  IF undone # {} /\ r < gvt[i]
        THEN /\ aborted' = TRUE
             /\ UNCHANGED <<gvtVars, kernelVars, chan>>
        ELSE /\ done'   = [done EXCEPT ![i] = @ \ undone]
             /\ sent'   = [sent EXCEPT ![i] = @ \ cancel]
             /\ unproc' = [unproc EXCEPT ![i] = ((@ \cup undone) \ (cancel \cup annihilate)) \cup insert]
             /\ record' = [record EXCEPT ![i] = rem.rec]
             /\ chan'   = rem.chan
             /\ UNCHANGED <<pending, periodCounter, gvt, aborted>>

\* receiveKernelMessage() of an EventMessage: handleLocalEvent().
ReceiveEvent(i, j) ==
    /\ chan[j, i] # <<>>
    /\ Head(chan[j, i]).type = "event"
    /\ LET m == Head(chan[j, i])
       IN  RollbackAnd(i, Min({e.recv : e \in m.events}), Uncount(record[i], m),
                       [chan EXCEPT ![j, i] = Tail(@)], m.events, {})

\* receiveKernelMessage() of a NegativeEventMessage: cancelLocalEvents().
ReceiveNegative(i, j) ==
    /\ chan[j, i] # <<>>
    /\ Head(chan[j, i]).type = "negative"
    /\ LET m == Head(chan[j, i])
       IN  RollbackAnd(i, Min({e.recv : e \in m.events}), Uncount(record[i], m),
                       [chan EXCEPT ![j, i] = Tail(@)], {}, m.events)

-----------------------------------------------------------------------------
(***************************************************************************)
(* MatternGVTManager::receiveKernelMessage().                              *)
(***************************************************************************)
\* setGVT() followed, when the value rises, by fossilCollect(): what is older
\* than the last event processed before the new value (where the last state
\* saved before it stands) is reclaimed.
SetGVT(i, v) ==
    LET below == {e.recv : e \in {x \in done[i] : x.recv < v}}
        low   == Max(below \cup {0})
    IN  /\ gvt'  = [gvt EXCEPT ![i] = v]
        /\ done' = IF v > gvt[i] THEN [done EXCEPT ![i] = {e \in @ : e.recv >= low}] ELSE done
        /\ sent' = IF v > gvt[i] THEN [sent EXCEPT ![i] = {e \in @ : e.send >= low}] ELSE sent

TokenAt(i, j) == chan[j, i] # <<>> /\ Head(chan[j, i]).type = "token"

\* Slip: the first round is taken for the second.
CompleteTooEarly(m) == record[0].iteration > 0 /\ record[0].white + m.count = 0

\* Manager 0 has the token back and every white message is accounted for.
Complete(m) == record[0].iteration > 1 /\ record[0].white + m.count = 0

\* The estimation ends: take the value, announce it, turn white again.
FinishEstimation(j) ==
    /\ TokenAt(0, j)
    /\ LET m == Head(chan[j, 0])
           v == Lower(m.clock, m.tMin)
       IN  /\ Complete(m)
           /\ SetGVT(0, v)
           /\ record' = [record EXCEPT ![0] = [@ EXCEPT !.iteration = 0, !.white = 0,
                                                       !.color = "WHITE"]]
           /\ chan' = [c \in SM \X SM |->
                          IF c = <<j, 0>> THEN Tail(chan[c])
                          ELSE IF c[1] = 0 /\ c[2] # 0 THEN Append(chan[c], UpdateMsg(v))
                          ELSE chan[c]]
    /\ pending' = FALSE
    /\ UNCHANGED <<periodCounter, unproc, aborted>>

\* Every other arrival of the token: join the red side on the first visit of
\* a non-initiator, add the local count, minimise and pass it on.
ForwardToken(i, j) ==
    /\ TokenAt(i, j)
    /\ LET m  == Head(chan[j, i])
           r1 == IF i # 0 /\ record[i].color = "WHITE"
                 THEN [record[i] EXCEPT !.tMin = Inf, !.color = "RED"]
                 ELSE record[i]
       IN  /\ ~(i = 0 /\ Complete(m))
           /\ chan' = SendGVTToken([chan EXCEPT ![j, i] = Tail(@)], i,
                                   Lower(m.clock, LowEventTime(i)),
                                   Lower(m.tMin, r1.tMin), r1.white + m.count)
           /\ record' = [record EXCEPT ![i] = [r1 EXCEPT !.white = 0,
                                                        !.iteration = Increment(@)]]
    /\ UNCHANGED <<pending, periodCounter, gvt, kernelVars, aborted>>

ReceiveUpdate(i, j) ==
    /\ chan[j, i] # <<>>
    /\ Head(chan[j, i]).type = "update"
    /\ SetGVT(i, Head(chan[j, i]).gvt)
    /\ record' = [record EXCEPT ![i] = [@ EXCEPT !.iteration = 0, !.color = "WHITE"]]
    /\ chan' = [chan EXCEPT ![j, i] = Tail(@)]
    /\ UNCHANGED <<pending, periodCounter, unproc, aborted>>

-----------------------------------------------------------------------------
\* The event an object schedules for itself in initialize().
InitialEvent(i) == [from |-> i, to |-> i, send |-> 0, recv |-> 1]

Init ==
    /\ record = [i \in SM |-> NewRecord]
    /\ pending = FALSE
    /\ periodCounter = 0
    /\ gvt = [i \in SM |-> 0]
    /\ \E busy \in SUBSET Starters :
         unproc = [i \in SM |-> IF i \in busy THEN {InitialEvent(i)} ELSE {}]
    /\ done = [i \in SM |-> {}]
    /\ sent = [i \in SM |-> {}]
    /\ chan = [c \in SM \X SM |-> <<>>]
    /\ aborted = FALSE

\* One message is taken from the channel from j to i and handled.
Receive(i, j) ==
    \/ ReceiveEvent(i, j)
    \/ ReceiveNegative(i, j)
    \/ i = 0 /\ FinishEstimation(j)
    \/ ForwardToken(i, j)
    \/ ReceiveUpdate(i, j)

Next ==
    /\ ~aborted
    /\ \/ \E i \in SM : Execute(i)
       \/ \E i, j \in SM : Receive(i, j)

Spec == Init /\ [][Next]_vars

(***************************************************************************)
(* Fairness: simulate() polls the physical layer before and between        *)
(* executions, and the layer keeps every channel moving.                   *)
(***************************************************************************)
FairSpec == Spec /\ \A i, j \in SM : WF_vars(~aborted /\ Receive(i, j))

-----------------------------------------------------------------------------
(***************************************************************************)
(* Properties.                                                             *)
(***************************************************************************)
TokensIn(s) == SelectSeq(s, LAMBDA m : m.type = "token")

\* Types of the state; tMin is only looked at while the record is RED, and
\* calculateGVT() or the first visit of the token has set it by then.
TypeOK ==
    /\ record \in [SM -> [color : {"WHITE", "RED"}, tMin : 0 .. Inf, white : Int,
                          iteration : 0 .. 2]]
    /\ pending \in BOOLEAN
    /\ periodCounter \in 0 .. GVTPeriod - 1
    /\ gvt \in [SM -> 0 .. Inf]
    /\ unproc \in [SM -> SUBSET Event]
    /\ done \in [SM -> SUBSET Event]
    /\ sent \in [SM -> SUBSET Event]
    /\ DOMAIN chan = SM \X SM
    /\ aborted \in BOOLEAN

SumOver(f(_)) == MapThenSumSet(f, SM \X SM)

WhiteInTransit == SumOver(LAMBDA c : Len(SelectSeq(chan[c],
                      LAMBDA m : IsEventMsg(m) /\ m.color = "WHITE")))
TokensInTransit == SumOver(LAMBDA c : Len(TokensIn(chan[c])))
CountOnToken    == SumOver(LAMBDA c : FoldSeq(LAMBDA m, n : m.count + n, 0, TokensIn(chan[c])))
CountInRecords  == MapThenSumSet(LAMBDA i : record[i].white, SM)

\* numberOfWhiteMessages, spread over the records of all managers and the
\* token, always adds up to the white messages that are still travelling:
\* this is what makes "white + count == 0" in receiveKernelMessage() mean
\* that none is left.  A message is counted when it is sent, when it is
\* received, and again each time a record is emptied into the token, on
\* different managers and in any order.
\* gVTTokenPending is set exactly while one token circulates: neither lost
\* (no estimation would ever start again) nor doubled (two estimations would
\* share the counts).
WhiteAccounting ==
    /\ CountInRecords + CountOnToken = WhiteInTransit
    /\ TokensInTransit = IF pending THEN 1 ELSE 0

\* The abort() "Rollback beyond the Global Virtual Time" of
\* TimeWarpSimulationManager::rollback() is never reached.
NoRollbackBelowGVT == ~aborted

\* An estimation that was started ends, so checkGVTPeriod() can start the
\* next one: the circulating token waits for the last white message.
EstimationEnds == pending ~> ~pending

\* The exact global virtual time.
TrueGVT == Min({LowEventTime(i) : i \in SM} \cup {e.recv : e \in InTransit(chan)})

Abstract == INSTANCE GlobalVirtualTime WITH floor <- TrueGVT

\* Every manager's GVT only rises (the ASSERT(getGVT() >= oldGVT) of both
\* branches) and never passes an unprocessed or travelling event.
ImplementsGVT == Abstract!Spec
=============================================================================
