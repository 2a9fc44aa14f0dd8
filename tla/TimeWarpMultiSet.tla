--------------------------- MODULE TimeWarpMultiSet ---------------------------
(***************************************************************************)
(* The event set of one simulation manager (class TimeWarpMultiSet).       *)
(*                                                                         *)
(* Every object has an ordered multiset of unprocessed events and a vector *)
(* of processed ones.  Beside them the class keeps iterators that must     *)
(* follow every change: lowestObjEvents, an ordered index of each object's *)
(* lowest unprocessed event, lowObjPos[o], the object's entry in it, and   *)
(* insertObjPos[o], the hint for the next insertion, which getEvent()      *)
(* dereferences.  The scheduler only ever looks at the index.              *)
(*                                                                         *)
(* An iterator is the event it points at, or End.  The callers' side of    *)
(* the contract is in the guards: handleLocalEvent() and                   *)
(* cancelLocalEvents() roll the object back before they touch events that  *)
(* are not in its future, and nothing asks for times below the last        *)
(* fossil collection.                                                      *)
(***************************************************************************)
EXTENDS Integers, Sequences

CONSTANTS
    Object,     \* simulation objects of this manager
    Event,      \* events that may be sent to them
    End         \* the past-the-end iterator

\* An event is identified by its sender and the sender's event counter.
ASSUME EventAssumption ==
    /\ Event \subseteq [obj : Object, recv : Nat, id : Nat, sender : Nat]
    /\ \A a, b \in Event : a.id = b.id /\ a.sender = b.sender => a = b
ASSUME EndAssumption == End \notin Event

VARIABLES
    unprocessed,    \* unprocessedObjEvents[o]
    processed,      \* processedObjEvents[o], oldest first
    removed,        \* removedEvents[o]: cancelled, kept for lazy comparison
    lowest,         \* lowestObjEvents
    lowObjPos,      \* lowObjPos[o]
    insertObjPos,   \* insertObjPos[o]
    reclaimed,      \* events given back by fossil collection
    horizon         \* horizon[o]: time of the last fossil collection

indexVars == <<lowest, lowObjPos>>
vars == <<unprocessed, processed, removed, indexVars, insertObjPos, reclaimed, horizon>>

-----------------------------------------------------------------------------
\* receiveTimeLessThanEventIdLessThan
Less(a, b) ==
    IF a.recv # b.recv THEN a.recv < b.recv
    ELSE IF a.id # b.id THEN a.id < b.id
    ELSE a.sender < b.sender

Elements(s) == {s[k] : k \in 1 .. Len(s)}

IsBegin(e, S) == e \in S /\ \A x \in S : x = e \/ Less(e, x)

\* p is the iterator begin() of the ordered set S.
BeginPos(p, S) == IF S = {} THEN p = End ELSE IsBegin(p, S)

\* p is the iterator before e in the ordered set S.
IsPredecessor(p, e, S) ==
    /\ p \in S
    /\ Less(p, e)
    /\ \A x \in S : Less(x, e) => x = p \/ Less(x, p)

\* The first n elements of s are those with a receive time below t: where the
\* loops of rollback() and fossilCollect() stop.
Below(s, t, n) ==
    /\ n \in 0 .. Len(s)
    /\ \A k \in 1 .. n : s[k].recv < t
    /\ n < Len(s) => s[n + 1].recv >= t

\* Events this set has seen and not forgotten.
Known ==
    reclaimed \cup
        (UNION {unprocessed[o] \cup Elements(processed[o]) \cup removed[o] : o \in Object})

\* Slip: stragglers are let in without a rollback.
RolledBackNever(o, t) == t >= horizon[o]

\* The object is rolled back far enough for an operation at time t.
RolledBackTo(o, t) == t >= horizon[o] /\ \A p \in Elements(processed[o]) : p.recv < t

Init ==
    /\ unprocessed = [o \in Object |-> {}]
    /\ processed = [o \in Object |-> <<>>]
    /\ removed = [o \in Object |-> {}]
    /\ lowest = {}
    /\ lowObjPos = [o \in Object |-> End]
    /\ insertObjPos = [o \in Object |-> End]
    /\ reclaimed = {}
    /\ horizon = [o \in Object |-> 0]

-----------------------------------------------------------------------------
\* Slips: end() is indexed; the old entry is not erased.
ReindexEnd(o, p) ==
    /\ lowest' = (lowest \ {lowObjPos[o]}) \cup {p}
    /\ lowObjPos' = [lowObjPos EXCEPT ![o] = p]

ReindexKeepsOld(o, p) ==
    /\ lowest' = lowest \cup ({p} \ {End})
    /\ lowObjPos' = [lowObjPos EXCEPT ![o] = p]

\* Object o's entry of the index becomes p.
Reindex(o, p) ==
    /\ lowest' = (lowest \ {lowObjPos[o]}) \cup ({p} \ {End})
    /\ lowObjPos' = [lowObjPos EXCEPT ![o] = p]

\* Slip: only an object's first event is indexed.
InsertIndexesOnce(e) ==
    /\ e \notin Known
    /\ RolledBackTo(e.obj, e.recv)
    /\ unprocessed' = [unprocessed EXCEPT ![e.obj] = @ \cup {e}]
    /\ insertObjPos' = [insertObjPos EXCEPT ![e.obj] = e]
    /\ IF lowObjPos[e.obj] = End THEN Reindex(e.obj, e) ELSE UNCHANGED indexVars
    /\ UNCHANGED <<processed, removed, reclaimed, horizon>>

\* insert(): the event becomes the hint, and the index entry when it is first.
Insert(e) ==
    LET o == e.obj
        S == unprocessed[o] \cup {e}
    IN  /\ e \notin Known
        /\ RolledBackTo(o, e.recv)
        /\ unprocessed' = [unprocessed EXCEPT ![o] = S]
        /\ insertObjPos' = [insertObjPos EXCEPT ![o] = e]
        /\ IF IsBegin(e, S) THEN Reindex(o, e) ELSE UNCHANGED indexVars
        /\ UNCHANGED <<processed, removed, reclaimed, horizon>>

\* Slip: the hint is left on the erased event.
HandleAntiMessageDangles(e) ==
    LET o == e.obj
        S == unprocessed[o] \ {e}
    IN  /\ e \in unprocessed[o]
        /\ RolledBackTo(o, e.recv)
        /\ unprocessed' = [unprocessed EXCEPT ![o] = S]
        /\ removed' = [removed EXCEPT ![o] = @ \cup {e}]
        /\ IF lowObjPos[o] = e
           THEN \E p \in Event \cup {End} : BeginPos(p, S) /\ Reindex(o, p)
           ELSE UNCHANGED indexVars
        /\ UNCHANGED <<processed, insertObjPos, reclaimed, horizon>>

\* handleAntiMessage(), the positive event having been found: when the hint
\* points at it, step the hint off before the event is erased.
HandleAntiMessage(e) ==
    LET o == e.obj
        S == unprocessed[o] \ {e}
    IN  /\ e \in unprocessed[o]
        /\ RolledBackTo(o, e.recv)
        /\ unprocessed' = [unprocessed EXCEPT ![o] = S]
        /\ removed' = [removed EXCEPT ![o] = @ \cup {e}]
        /\ IF insertObjPos[o] # e
           THEN UNCHANGED insertObjPos
           ELSE \E p \in Event \cup {End} :
                   /\ IF IsBegin(e, unprocessed[o])
                      THEN BeginPos(p, S)
                      ELSE IsPredecessor(p, e, unprocessed[o])
                   /\ insertObjPos' = [insertObjPos EXCEPT ![o] = p]
        /\ IF lowObjPos[o] = e
           THEN \E p \in Event \cup {End} : BeginPos(p, S) /\ Reindex(o, p)
           ELSE UNCHANGED indexVars
        /\ UNCHANGED <<processed, reclaimed, horizon>>

\* getEvent(), with or without the coast-forward limit: the lowest event moves
\* to the back of the processed events.
GetEvent(o) ==
    \E e \in unprocessed[o] :
        LET S == unprocessed[o] \ {e}
        IN  /\ IsBegin(e, unprocessed[o])
            /\ unprocessed' = [unprocessed EXCEPT ![o] = S]
            /\ processed' = [processed EXCEPT ![o] = Append(@, e)]
            /\ \E p \in Event \cup {End} :
                  /\ BeginPos(p, S)
                  /\ Reindex(o, p)
                  /\ insertObjPos' = IF insertObjPos[o] = e
                                     THEN [insertObjPos EXCEPT ![o] = p]
                                     ELSE insertObjPos
            /\ UNCHANGED <<removed, reclaimed, horizon>>

\* rollback(): processed events at or after t become unprocessed again.
Rollback(o, t) ==
    /\ t >= horizon[o]
    /\ \E n \in 0 .. Len(processed[o]) :
          LET back == {processed[o][k] : k \in n + 1 .. Len(processed[o])}
              S    == unprocessed[o] \cup back
          IN  /\ Below(processed[o], t, n)
              /\ unprocessed' = [unprocessed EXCEPT ![o] = S]
              /\ processed' = [processed EXCEPT ![o] = SubSeq(@, 1, n)]
              /\ \E p \in Event \cup {End} :
                    /\ BeginPos(p, S)
                    /\ IF lowObjPos[o] # p THEN Reindex(o, p) ELSE UNCHANGED indexVars
                    /\ insertObjPos' = [insertObjPos EXCEPT ![o] = p]
              /\ UNCHANGED <<removed, reclaimed, horizon>>

\* Slip: the reclaimed events stay in the processed vector.
FossilCollectNoErase(o, t) ==
    /\ t >= horizon[o]
    /\ reclaimed' = reclaimed \cup {e \in Elements(processed[o]) \cup removed[o] : e.recv < t}
    /\ removed' = [removed EXCEPT ![o] = {e \in @ : e.recv >= t}]
    /\ horizon' = [horizon EXCEPT ![o] = t]
    /\ UNCHANGED <<unprocessed, processed, indexVars, insertObjPos>>

\* fossilCollect(): processed and removed events before t are given back.
FossilCollect(o, t) ==
    /\ t >= horizon[o]
    /\ \E n \in 0 .. Len(processed[o]) :
          LET old == {processed[o][k] : k \in 1 .. n} \cup {e \in removed[o] : e.recv < t}
          IN  /\ Below(processed[o], t, n)
              /\ processed' = [processed EXCEPT ![o] = SubSeq(@, n + 1, Len(@))]
              /\ removed' = [removed EXCEPT ![o] = {e \in @ : e.recv >= t}]
              /\ reclaimed' = reclaimed \cup old
              /\ horizon' = [horizon EXCEPT ![o] = t]
              /\ UNCHANGED <<unprocessed, indexVars, insertObjPos>>

\* ofcPurge(): a catastrophic rollback empties the whole set; events come in
\* again from the checkpoint.
OfcPurge ==
    /\ unprocessed' = [o \in Object |-> {}]
    /\ processed' = [o \in Object |-> <<>>]
    /\ removed' = [o \in Object |-> {}]
    /\ lowest' = {}
    /\ lowObjPos' = [o \in Object |-> End]
    /\ insertObjPos' = [o \in Object |-> End]
    /\ reclaimed' = {}
    /\ horizon' = [o \in Object |-> 0]

Next ==
    \/ \E e \in Event : Insert(e) \/ HandleAntiMessage(e)
    \/ \E o \in Object : GetEvent(o)
    \/ \E o \in Object, t \in {e.recv : e \in Event} : Rollback(o, t) \/ FossilCollect(o, t)
    \/ OfcPurge

Spec == Init /\ [][Next]_vars

-----------------------------------------------------------------------------
(***************************************************************************)
(* Properties.                                                             *)
(***************************************************************************)
\* Types of the state.
TypeOK ==
    /\ unprocessed \in [Object -> SUBSET Event]
    /\ processed \in [Object -> Seq(Event)]
    /\ removed \in [Object -> SUBSET Event]
    /\ lowest \subseteq Event
    /\ lowObjPos \in [Object -> Event \cup {End}]
    /\ insertObjPos \in [Object -> Event \cup {End}]
    /\ reclaimed \subseteq Event
    /\ horizon \in [Object -> Nat]

\* The index holds exactly the lowest unprocessed event of every object that
\* has one, whatever sequence of insertions, cancellations, rollbacks and
\* executions came before.
IndexExact ==
    /\ \A o \in Object : BeginPos(lowObjPos[o], unprocessed[o])
    /\ lowest = {lowObjPos[o] : o \in Object} \ {End}

\* peekEvent(NULL), which the scheduler and the GVT estimation rely on, is the
\* lowest unprocessed event of the whole manager.
PeekIsLowest ==
    \A e \in lowest :
        IsBegin(e, lowest) => IsBegin(e, UNION {unprocessed[o] : o \in Object})

\* The hint is an element while there are elements, so that getEvent() may
\* dereference it and insert() may start from it.
HintValid ==
    \A o \in Object : IF unprocessed[o] = {} THEN insertObjPos[o] = End
                                             ELSE insertObjPos[o] \in unprocessed[o]

\* "Because they can only be pushed on in order, the vector is always sorted"
\* (comment of inThePast()): rollback() and fossilCollect() stop at the first
\* event that is late enough and would leave unsorted ones behind.
ProcessedSorted ==
    \A o \in Object : \A j, k \in 1 .. Len(processed[o]) :
        j < k => Less(processed[o][j], processed[o][k])

\* No unprocessed event lies before a processed one of the same object.
NothingSkipped ==
    \A o \in Object : \A p \in Elements(processed[o]) : \A u \in unprocessed[o] : Less(p, u)

\* An event is in one place only: waiting, processed, cancelled or reclaimed,
\* and always with the object it was sent to.
OnePlace ==
    /\ \A o \in Object :
          /\ \A e \in unprocessed[o] \cup Elements(processed[o]) \cup removed[o] : e.obj = o
          /\ unprocessed[o] \cap Elements(processed[o]) = {}
          /\ (unprocessed[o] \cup Elements(processed[o])) \cap (removed[o] \cup reclaimed) = {}
          /\ removed[o] \cap reclaimed = {}
=============================================================================
