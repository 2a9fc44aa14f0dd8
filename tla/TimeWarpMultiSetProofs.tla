----------------------- MODULE TimeWarpMultiSetProofs -----------------------
(***************************************************************************)
(* Proofs about the event set, for any set of objects and any events.      *)
(***************************************************************************)
EXTENDS TimeWarpMultiSet, TLAPS

\* The invariant is inductive as a whole: the index and the hint are repaired
\* from the order of the multisets, which NothingSkipped ties to the order of
\* the processed events.
Inv ==
    /\ TypeOK
    /\ IndexExact
    /\ HintValid
    /\ ProcessedSorted
    /\ NothingSkipped
    /\ OnePlace

-----------------------------------------------------------------------------
(***************************************************************************)
(* The order of events.                                                    *)
(***************************************************************************)
LEMMA EventFields ==
    ASSUME NEW e \in Event
    PROVE  e.obj \in Object /\ e.recv \in Nat /\ e.id \in Nat /\ e.sender \in Nat
BY EventAssumption

LEMMA LessTransitive ==
    ASSUME NEW a \in Event, NEW b \in Event, NEW c \in Event, Less(a, b), Less(b, c)
    PROVE  Less(a, c)
BY EventFields DEF Less

LEMMA LessIrreflexive ==
    ASSUME NEW a \in Event, NEW b \in Event, Less(a, b)
    PROVE  a # b /\ ~Less(b, a)
BY EventFields DEF Less

LEMMA LessTotal ==
    ASSUME NEW a \in Event, NEW b \in Event, a # b
    PROVE  Less(a, b) \/ Less(b, a)
<1>1. a.id # b.id \/ a.sender # b.sender
  BY EventAssumption
<1> QED
  BY <1>1, EventFields DEF Less

LEMMA BeginUnique ==
    ASSUME NEW S \in SUBSET Event, NEW p, NEW q, BeginPos(p, S), BeginPos(q, S)
    PROVE  p = q
<1>1. CASE S = {}
  BY <1>1 DEF BeginPos
<1>2. CASE S # {}
  <2>1. p \in Event /\ q \in Event /\ (q = p \/ Less(p, q)) /\ (p = q \/ Less(q, p))
    BY <1>2 DEF BeginPos, IsBegin
  <2> QED
    BY <2>1, LessIrreflexive
<1> QED
  BY <1>1, <1>2

LEMMA BeginType ==
    ASSUME NEW S \in SUBSET Event, NEW p, BeginPos(p, S)
    PROVE  /\ p \in Event \cup {End}
           /\ p = End <=> S = {}
           /\ p # End => p \in S
BY EndAssumption DEF BeginPos, IsBegin

-----------------------------------------------------------------------------
(***************************************************************************)
(* The index follows a change of one object's unprocessed events.          *)
(***************************************************************************)
LEMMA IndexEntry ==
    ASSUME TypeOK, IndexExact, OnePlace, NEW o \in Object, lowObjPos[o] # End
    PROVE  lowObjPos[o] \in unprocessed[o] /\ lowObjPos[o] \in Event /\ lowObjPos[o].obj = o
<1>1. unprocessed[o] \in SUBSET Event /\ BeginPos(lowObjPos[o], unprocessed[o])
  BY DEF TypeOK, IndexExact
<1>2. lowObjPos[o] \in unprocessed[o]
  BY <1>1, BeginType
<1> QED
  BY <1>1, <1>2 DEF OnePlace

LEMMA ReindexExact ==
    ASSUME TypeOK, IndexExact, OnePlace,
           NEW o \in Object, NEW S \in SUBSET Event, NEW p, BeginPos(p, S),
           unprocessed' = [unprocessed EXCEPT ![o] = S],
           Reindex(o, p)
    PROVE  /\ IndexExact'
           /\ lowest' \subseteq Event
           /\ lowObjPos' \in [Object -> Event \cup {End}]
<1>1. p \in Event \cup {End}
  BY BeginType
<1>2. lowObjPos' = [lowObjPos EXCEPT ![o] = p]
      /\ lowest' = (lowest \ {lowObjPos[o]}) \cup ({p} \ {End})
  BY DEF Reindex
<1>3. lowObjPos \in [Object -> Event \cup {End}] /\ lowest \subseteq Event
      /\ unprocessed \in [Object -> SUBSET Event]
  BY DEF TypeOK
<1>4. lowObjPos' \in [Object -> Event \cup {End}]
  BY <1>1, <1>2, <1>3
<1>5. lowest' \subseteq Event
  BY <1>1, <1>2, <1>3
<1>6. ASSUME NEW x \in Object
      PROVE  BeginPos(lowObjPos'[x], unprocessed'[x])
  <2>1. CASE x = o
    BY <2>1, <1>2, <1>3
  <2>2. CASE x # o
    <3>1. lowObjPos'[x] = lowObjPos[x] /\ unprocessed'[x] = unprocessed[x]
      BY <2>2, <1>2, <1>3
    <3>2. BeginPos(lowObjPos[x], unprocessed[x])
      BY DEF IndexExact
    <3> QED
      BY <3>1, <3>2
  <2> QED
    BY <2>1, <2>2
<1>7. ASSUME NEW x \in Object, x # o, lowObjPos[x] # End
      PROVE  lowObjPos[x] # lowObjPos[o]
  BY <1>7, IndexEntry
<1>8. lowest = {lowObjPos[x] : x \in Object} \ {End}
  BY DEF IndexExact
<1>9. lowest' = {lowObjPos'[x] : x \in Object} \ {End}
  <2>1. \A x \in Object : x # o => lowObjPos'[x] = lowObjPos[x]
    BY <1>2, <1>3
  <2>2. lowObjPos'[o] = p
    BY <1>2, <1>3
  <2> QED
    BY <2>1, <2>2, <1>2, <1>7, <1>8
<1>10. IndexExact'
  BY <1>6, <1>9 DEF IndexExact
<1> QED
  BY <1>4, <1>5, <1>10

LEMMA IndexStays ==
    ASSUME TypeOK, IndexExact,
           NEW o \in Object, NEW S \in SUBSET Event, BeginPos(lowObjPos[o], S),
           unprocessed' = [unprocessed EXCEPT ![o] = S],
           UNCHANGED indexVars
    PROVE  /\ IndexExact'
           /\ lowest' \subseteq Event
           /\ lowObjPos' \in [Object -> Event \cup {End}]
<1>1. lowObjPos' = lowObjPos /\ lowest' = lowest
  BY DEF indexVars
<1>2. unprocessed \in [Object -> SUBSET Event] /\ lowest \subseteq Event
      /\ lowObjPos \in [Object -> Event \cup {End}]
  BY DEF TypeOK
<1>3. ASSUME NEW x \in Object
      PROVE  BeginPos(lowObjPos'[x], unprocessed'[x])
  <2>1. BeginPos(lowObjPos[x], unprocessed[x])
    BY DEF IndexExact
  <2>2. x # o => unprocessed'[x] = unprocessed[x]
    BY <1>2
  <2>3. x = o => unprocessed'[x] = S
    BY <1>2
  <2> QED
    BY <2>1, <2>2, <2>3, <1>1
<1>4. lowest' = {lowObjPos'[x] : x \in Object} \ {End}
  BY <1>1 DEF IndexExact
<1> QED
  BY <1>1, <1>2, <1>3, <1>4 DEF IndexExact

-----------------------------------------------------------------------------
(***************************************************************************)
(* One lemma per operation.                                                *)
(***************************************************************************)
LEMMA InsertStep ==
    ASSUME Inv, NEW e \in Event, Insert(e)
    PROVE  Inv'
<1> DEFINE o == e.obj
           S == unprocessed[o] \cup {e}
<1> USE DEF Inv
<1>1. o \in Object
  BY EventFields
<1>2. unprocessed \in [Object -> SUBSET Event] /\ S \in SUBSET Event
  BY <1>1 DEF TypeOK
<1>3. unprocessed' = [unprocessed EXCEPT ![o] = S]
      /\ insertObjPos' = [insertObjPos EXCEPT ![o] = e]
      /\ UNCHANGED <<processed, removed, reclaimed, horizon>>
      /\ IF IsBegin(e, S) THEN Reindex(o, e) ELSE UNCHANGED indexVars
  BY DEF Insert
<1>4. e \notin Known /\ RolledBackTo(o, e.recv)
  BY DEF Insert
<1>5. /\ IndexExact'
      /\ lowest' \subseteq Event
      /\ lowObjPos' \in [Object -> Event \cup {End}]
  <2>1. CASE IsBegin(e, S)
    <3>1. BeginPos(e, S)
      BY <2>1 DEF BeginPos, IsBegin
    <3> QED
      BY <2>1, <3>1, <1>1, <1>2, <1>3, ReindexExact
  <2>2. CASE ~IsBegin(e, S)
    <3>1. PICK x \in unprocessed[o] : x # e /\ ~Less(e, x)
      BY <2>2 DEF IsBegin
    <3>2. x \in Event /\ Less(x, e)
      BY <3>1, <1>1, <1>2, LessTotal
    <3>3. IsBegin(lowObjPos[o], unprocessed[o])
      BY <3>1, <1>1 DEF IndexExact, BeginPos
    <3>4. lowObjPos[o] \in Event /\ (x = lowObjPos[o] \/ Less(lowObjPos[o], x))
      BY <3>1, <3>3, <1>1, <1>2 DEF IsBegin
    <3>5. Less(lowObjPos[o], e)
      BY <3>2, <3>4, LessTransitive
    <3>6. BeginPos(lowObjPos[o], S)
      BY <3>3, <3>5 DEF BeginPos, IsBegin
    <3> QED
      BY <2>2, <3>6, <1>1, <1>2, <1>3, IndexStays
  <2> QED
    BY <2>1, <2>2
<1>6. TypeOK'
  BY <1>1, <1>2, <1>3, <1>5 DEF TypeOK
<1>7. HintValid'
  BY <1>1, <1>2, <1>3 DEF HintValid, TypeOK
<1>8. ProcessedSorted'
  BY <1>3 DEF ProcessedSorted
<1>9. NothingSkipped'
  <2>1. \A p \in Elements(processed[o]) : Less(p, e)
    <3> SUFFICES ASSUME NEW p \in Elements(processed[o]) PROVE Less(p, e)
      OBVIOUS
    <3>1. p.recv < e.recv
      BY <1>4 DEF RolledBackTo
    <3>2. p \in Event
      BY <1>1 DEF TypeOK, Elements
    <3> QED
      BY <3>1, <3>2, EventFields DEF Less
  <2> QED
    BY <2>1, <1>1, <1>2, <1>3 DEF NothingSkipped
<1>10. OnePlace'
  <2>1. e \notin reclaimed
    BY <1>4 DEF Known
  <2>2. e \notin unprocessed[o] \cup Elements(processed[o]) \cup removed[o]
    <3> DEFINE U == {unprocessed[x] \cup Elements(processed[x]) \cup removed[x] : x \in Object}
    <3>1. unprocessed[o] \cup Elements(processed[o]) \cup removed[o] \in U
      BY <1>1
    <3>2. e \notin UNION U
      BY <1>4 DEF Known
    <3> HIDE DEF U
    <3> QED
      BY <3>1, <3>2
  <2> QED
    BY <2>1, <2>2, <1>1, <1>2, <1>3 DEF OnePlace
<1> QED
  BY <1>5, <1>6, <1>7, <1>8, <1>9, <1>10

LEMMA HandleAntiMessageStep ==
    ASSUME Inv, NEW e \in Event, HandleAntiMessage(e)
    PROVE  Inv'
<1> DEFINE o == e.obj
           S == unprocessed[o] \ {e}
<1> USE DEF Inv
<1>1. o \in Object
  BY EventFields
<1>2. /\ unprocessed \in [Object -> SUBSET Event] /\ S \in SUBSET Event
      /\ removed \in [Object -> SUBSET Event]
      /\ insertObjPos \in [Object -> Event \cup {End}]
  BY <1>1 DEF TypeOK
<1>3. /\ e \in unprocessed[o]
      /\ unprocessed' = [unprocessed EXCEPT ![o] = S]
      /\ removed' = [removed EXCEPT ![o] = @ \cup {e}]
      /\ UNCHANGED <<processed, reclaimed, horizon>>
  BY DEF HandleAntiMessage
<1>4. /\ IndexExact'
      /\ lowest' \subseteq Event
      /\ lowObjPos' \in [Object -> Event \cup {End}]
  <2>1. CASE lowObjPos[o] = e
    <3>1. PICK p \in Event \cup {End} : BeginPos(p, S) /\ Reindex(o, p)
      BY <2>1 DEF HandleAntiMessage
    <3> QED
      BY <3>1, <1>1, <1>2, <1>3, ReindexExact
  <2>2. CASE lowObjPos[o] # e
    <3>1. UNCHANGED indexVars
      BY <2>2 DEF HandleAntiMessage
    <3>2. IsBegin(lowObjPos[o], unprocessed[o])
      BY <1>1, <1>3 DEF IndexExact, BeginPos
    <3>3. BeginPos(lowObjPos[o], S)
      BY <2>2, <3>2 DEF BeginPos, IsBegin
    <3> QED
      BY <3>1, <3>3, <1>1, <1>2, <1>3, IndexStays
  <2> QED
    BY <2>1, <2>2
<1>5. /\ insertObjPos' \in [Object -> Event \cup {End}]
      /\ HintValid'
  <2>1. CASE insertObjPos[o] # e
    <3>1. insertObjPos' = insertObjPos
      BY <2>1 DEF HandleAntiMessage
    <3>2. insertObjPos[o] \in S
      BY <2>1, <1>1, <1>3 DEF HintValid
    <3> QED
      BY <3>1, <3>2, <1>1, <1>2, <1>3 DEF HintValid
  <2>2. CASE insertObjPos[o] = e
    <3>1. PICK p \in Event \cup {End} :
             /\ IF IsBegin(e, unprocessed[o]) THEN BeginPos(p, S)
                                              ELSE IsPredecessor(p, e, unprocessed[o])
             /\ insertObjPos' = [insertObjPos EXCEPT ![o] = p]
      BY <2>2 DEF HandleAntiMessage
    <3>2. IF S = {} THEN p = End ELSE p \in S
      <4>1. CASE IsBegin(e, unprocessed[o])
        BY <4>1, <3>1, <1>2, BeginType
      <4>2. CASE ~IsBegin(e, unprocessed[o])
        <5>1. p \in unprocessed[o] /\ Less(p, e)
          BY <4>2, <3>1 DEF IsPredecessor
        <5>2. p # e
          BY <5>1, <1>1, <1>2, LessIrreflexive
        <5> QED
          BY <5>1, <5>2
      <4> QED
        BY <4>1, <4>2
    <3>3. insertObjPos' \in [Object -> Event \cup {End}]
      BY <3>1, <1>2
    <3> QED
      BY <3>1, <3>2, <3>3, <1>1, <1>2, <1>3 DEF HintValid
  <2> QED
    BY <2>1, <2>2
<1>6. TypeOK'
  BY <1>1, <1>2, <1>3, <1>4, <1>5 DEF TypeOK
<1>7. ProcessedSorted'
  BY <1>3 DEF ProcessedSorted
<1>8. NothingSkipped'
  BY <1>1, <1>2, <1>3 DEF NothingSkipped
<1>9. OnePlace'
  BY <1>1, <1>2, <1>3 DEF OnePlace
<1> QED
  BY <1>4, <1>5, <1>6, <1>7, <1>8, <1>9


LEMMA GetEventStep ==
    ASSUME Inv, NEW o \in Object, GetEvent(o)
    PROVE  Inv'
<1> USE DEF Inv
<1>1. PICK e \in unprocessed[o] :
         /\ IsBegin(e, unprocessed[o])
         /\ unprocessed' = [unprocessed EXCEPT ![o] = unprocessed[o] \ {e}]
         /\ processed' = [processed EXCEPT ![o] = Append(@, e)]
         /\ \E p \in Event \cup {End} :
               /\ BeginPos(p, unprocessed[o] \ {e})
               /\ Reindex(o, p)
               /\ insertObjPos' = IF insertObjPos[o] = e
                                  THEN [insertObjPos EXCEPT ![o] = p]
                                  ELSE insertObjPos
         /\ UNCHANGED <<removed, reclaimed, horizon>>
  BY DEF GetEvent
<1> DEFINE S == unprocessed[o] \ {e}
           s == processed[o]
<1>2. PICK p \in Event \cup {End} :
         /\ BeginPos(p, S)
         /\ Reindex(o, p)
         /\ insertObjPos' = IF insertObjPos[o] = e
                            THEN [insertObjPos EXCEPT ![o] = p]
                            ELSE insertObjPos
  BY <1>1
<1>3. /\ unprocessed \in [Object -> SUBSET Event] /\ processed \in [Object -> Seq(Event)]
      /\ insertObjPos \in [Object -> Event \cup {End}]
      /\ e \in Event /\ S \in SUBSET Event /\ s \in Seq(Event)
  BY DEF TypeOK
<1>4. /\ IndexExact'
      /\ lowest' \subseteq Event
      /\ lowObjPos' \in [Object -> Event \cup {End}]
  BY <1>1, <1>2, <1>3, ReindexExact
<1>5. /\ processed'[o] = Append(s, e) /\ unprocessed'[o] = S
      /\ \A x \in Object : x # o => processed'[x] = processed[x] /\ unprocessed'[x] = unprocessed[x]
  BY <1>1, <1>3
<1>6. TypeOK'
  <2>1. insertObjPos' \in [Object -> Event \cup {End}]
    BY <1>2, <1>3
  <2>2. Append(s, e) \in Seq(Event)
    BY <1>3
  <2>3. processed' \in [Object -> Seq(Event)]
    BY <2>2, <1>1, <1>3
  <2>4. unprocessed' \in [Object -> SUBSET Event]
    BY <1>1, <1>3
  <2> QED
    BY <2>1, <2>3, <2>4, <1>1, <1>4 DEF TypeOK
<1>7. HintValid'
  <2>1. IF S = {} THEN insertObjPos'[o] = End ELSE insertObjPos'[o] \in S
    <3>1. CASE insertObjPos[o] = e
      BY <3>1, <1>2, <1>3, BeginType
    <3>2. CASE insertObjPos[o] # e
      BY <3>2, <1>2, <1>3 DEF HintValid
    <3> QED
      BY <3>1, <3>2
  <2>2. \A x \in Object : x # o => insertObjPos'[x] = insertObjPos[x]
    BY <1>2, <1>3
  <2> QED
    BY <2>1, <2>2, <1>5 DEF HintValid
<1>8. Elements(Append(s, e)) = Elements(s) \cup {e}
  <2>1. Len(Append(s, e)) = Len(s) + 1 /\ Len(s) \in Nat
        /\ \A k \in 1 .. Len(s) : Append(s, e)[k] = s[k]
        /\ Append(s, e)[Len(s) + 1] = e
    BY <1>3
  <2> QED
    BY <2>1 DEF Elements
<1>9. \A x \in Elements(s) : Less(x, e)
  BY <1>1 DEF NothingSkipped
<1>10. ProcessedSorted'
  <2>1. ASSUME NEW j \in 1 .. Len(Append(s, e)), NEW k \in 1 .. Len(Append(s, e)), j < k
        PROVE  Less(Append(s, e)[j], Append(s, e)[k])
    <3>1. Len(s) \in Nat /\ j \in 1 .. Len(s) /\ Append(s, e)[j] = s[j]
      BY <2>1, <1>3
    <3>2. CASE k = Len(s) + 1
      <4>1. Append(s, e)[k] = e /\ s[j] \in Elements(s)
        BY <3>1, <3>2, <1>3 DEF Elements
      <4> QED
        BY <3>1, <4>1, <1>9
    <3>3. CASE k \in 1 .. Len(s)
      <4>1. Append(s, e)[k] = s[k]
        BY <3>3, <1>3
      <4>2. Less(s[j], s[k])
        BY <2>1, <3>1, <3>3 DEF ProcessedSorted
      <4> QED
        BY <3>1, <4>1, <4>2
    <3> QED
      BY <3>2, <3>3, <1>3
  <2> QED
    BY <2>1, <1>5 DEF ProcessedSorted
<1>11. NothingSkipped'
  <2>1. \A u \in S : Less(e, u)
    BY <1>1 DEF IsBegin
  <2>2. \A x \in Elements(processed'[o]) : \A u \in S : Less(x, u)
    BY <2>1, <1>5, <1>8 DEF NothingSkipped
  <2> QED
    BY <2>2, <1>5 DEF NothingSkipped
<1>12. OnePlace'
  <2>1. unprocessed'[o] \cup Elements(processed'[o]) = unprocessed[o] \cup Elements(processed[o])
        /\ unprocessed'[o] \cap Elements(processed'[o]) = {}
    BY <1>5, <1>8 DEF OnePlace
  <2> QED
    BY <2>1, <1>1, <1>5 DEF OnePlace
<1> QED
  BY <1>4, <1>6, <1>7, <1>10, <1>11, <1>12

LEMMA RollbackStep ==
    ASSUME Inv, NEW o \in Object, NEW t \in Nat, Rollback(o, t)
    PROVE  Inv'
<1> USE DEF Inv
<1> DEFINE s == processed[o]
           back(n) == {s[k] : k \in n + 1 .. Len(s)}
<1>1. PICK n \in 0 .. Len(s) :
         /\ Below(s, t, n)
         /\ unprocessed' = [unprocessed EXCEPT ![o] = unprocessed[o] \cup back(n)]
         /\ processed' = [processed EXCEPT ![o] = SubSeq(@, 1, n)]
         /\ \E p \in Event \cup {End} :
               /\ BeginPos(p, unprocessed[o] \cup back(n))
               /\ IF lowObjPos[o] # p THEN Reindex(o, p) ELSE UNCHANGED indexVars
               /\ insertObjPos' = [insertObjPos EXCEPT ![o] = p]
         /\ UNCHANGED <<removed, reclaimed, horizon>>
  BY DEF Rollback
<1> DEFINE S == unprocessed[o] \cup back(n)
<1>2. PICK p \in Event \cup {End} :
         /\ BeginPos(p, S)
         /\ IF lowObjPos[o] # p THEN Reindex(o, p) ELSE UNCHANGED indexVars
         /\ insertObjPos' = [insertObjPos EXCEPT ![o] = p]
  BY <1>1
<1>3. /\ unprocessed \in [Object -> SUBSET Event] /\ processed \in [Object -> Seq(Event)]
      /\ insertObjPos \in [Object -> Event \cup {End}]
      /\ s \in Seq(Event) /\ Len(s) \in Nat /\ n \in Nat
      /\ \A k \in 1 .. Len(s) : s[k] \in Event
  BY <1>1 DEF TypeOK
<1>4. back(n) \subseteq Event /\ S \in SUBSET Event
  BY <1>3
<1>5. /\ IndexExact'
      /\ lowest' \subseteq Event
      /\ lowObjPos' \in [Object -> Event \cup {End}]
  <2> HIDE DEF S
  <2>1. CASE lowObjPos[o] # p
    BY <2>1, <1>1, <1>2, <1>4, ReindexExact DEF S
  <2>2. CASE lowObjPos[o] = p
    BY <2>2, <1>1, <1>2, <1>4, IndexStays DEF S
  <2> QED
    BY <2>1, <2>2
<1>6. /\ processed'[o] = SubSeq(s, 1, n) /\ unprocessed'[o] = S
      /\ \A x \in Object : x # o => processed'[x] = processed[x] /\ unprocessed'[x] = unprocessed[x]
  BY <1>1, <1>3
<1>7. /\ SubSeq(s, 1, n) \in Seq(Event) /\ Len(SubSeq(s, 1, n)) = n
      /\ \A k \in 1 .. n : SubSeq(s, 1, n)[k] = s[k]
  BY <1>3
<1>8. TypeOK'
  <2>1. insertObjPos' \in [Object -> Event \cup {End}]
    BY <1>2, <1>3
  <2>2. processed' \in [Object -> Seq(Event)]
    BY <1>1, <1>3, <1>7
  <2>3. unprocessed' \in [Object -> SUBSET Event]
    BY <1>1, <1>3, <1>4
  <2> QED
    BY <2>1, <2>2, <2>3, <1>1, <1>5 DEF TypeOK
<1>9. HintValid'
  <2>1. IF S = {} THEN insertObjPos'[o] = End ELSE insertObjPos'[o] \in S
    BY <1>2, <1>3, <1>4, BeginType
  <2>2. \A x \in Object : x # o => insertObjPos'[x] = insertObjPos[x]
    BY <1>2, <1>3
  <2> QED
    BY <2>1, <2>2, <1>6 DEF HintValid
<1>10. Elements(processed'[o]) = {s[k] : k \in 1 .. n}
  BY <1>6, <1>7 DEF Elements
<1>11. \A j, k \in 1 .. Len(s) : j < k => Less(s[j], s[k])
  BY DEF ProcessedSorted
<1>12. ProcessedSorted'
  <2>1. \A j, k \in 1 .. n : j < k => Less(processed'[o][j], processed'[o][k])
    BY <1>1, <1>3, <1>6, <1>7, <1>11
  <2> QED
    BY <2>1, <1>6, <1>7 DEF ProcessedSorted
<1>13. NothingSkipped'
  <2>1. \A q \in Elements(processed'[o]) : \A u \in S : Less(q, u)
    <3> SUFFICES ASSUME NEW k \in 1 .. n, NEW u \in S PROVE Less(s[k], u)
      BY <1>10
    <3>1. CASE u \in unprocessed[o]
      BY <3>1, <1>1, <1>3 DEF NothingSkipped, Elements
    <3>2. CASE u \in back(n)
      BY <3>2, <1>1, <1>3, <1>11
    <3> QED
      BY <3>1, <3>2
  <2> QED
    BY <2>1, <1>6 DEF NothingSkipped
<1>14. OnePlace'
  <2>1. Elements(s) = {s[k] : k \in 1 .. n} \cup back(n)
    BY <1>1, <1>3 DEF Elements
  <2>2. {s[k] : k \in 1 .. n} \cap back(n) = {}
    <3> SUFFICES ASSUME NEW j \in 1 .. n, NEW k \in n + 1 .. Len(s) PROVE s[j] # s[k]
      OBVIOUS
    <3>1. j \in 1 .. Len(s) /\ k \in 1 .. Len(s) /\ j < k
      BY <1>3
    <3>2. Less(s[j], s[k]) /\ s[j] \in Event /\ s[k] \in Event
      BY <3>1, <1>3, <1>11
    <3> QED
      BY <3>2, LessIrreflexive
  <2> DEFINE kept == {s[k] : k \in 1 .. n}
             B == back(n)
  <2>3. unprocessed'[o] = unprocessed[o] \cup B /\ Elements(processed'[o]) = kept
        /\ Elements(processed[o]) = kept \cup B /\ kept \cap B = {}
    BY <2>1, <2>2, <1>6, <1>10
  <2> HIDE DEF kept, B, S, back, s
  <2> QED
    BY <2>3, <1>1, <1>6 DEF OnePlace
<1> QED
  BY <1>5, <1>8, <1>9, <1>12, <1>13, <1>14

LEMMA FossilCollectStep ==
    ASSUME Inv, NEW o \in Object, NEW t \in Nat, FossilCollect(o, t)
    PROVE  Inv'
<1> USE DEF Inv
<1> DEFINE s == processed[o]
           gone(n) == {s[k] : k \in 1 .. n}
<1>1. PICK n \in 0 .. Len(s) :
         /\ Below(s, t, n)
         /\ processed' = [processed EXCEPT ![o] = SubSeq(@, n + 1, Len(@))]
         /\ removed' = [removed EXCEPT ![o] = {e \in @ : e.recv >= t}]
         /\ reclaimed' = reclaimed \cup (gone(n) \cup {e \in removed[o] : e.recv < t})
         /\ horizon' = [horizon EXCEPT ![o] = t]
         /\ UNCHANGED <<unprocessed, indexVars, insertObjPos>>
  BY DEF FossilCollect
<1>2. /\ unprocessed \in [Object -> SUBSET Event] /\ processed \in [Object -> Seq(Event)]
      /\ removed \in [Object -> SUBSET Event] /\ reclaimed \subseteq Event
      /\ horizon \in [Object -> Nat]
      /\ s \in Seq(Event) /\ Len(s) \in Nat /\ n \in Nat
      /\ \A k \in 1 .. Len(s) : s[k] \in Event
  BY <1>1 DEF TypeOK
<1> DEFINE r == SubSeq(s, n + 1, Len(s))
<1>3. /\ r \in Seq(Event) /\ Len(r) = Len(s) - n
      /\ \A k \in 1 .. Len(r) : r[k] = s[k + n]
  BY <1>1, <1>2
<1>4. /\ processed'[o] = r
      /\ removed'[o] = {e \in removed[o] : e.recv >= t}
      /\ \A x \in Object : x # o => processed'[x] = processed[x] /\ removed'[x] = removed[x]
  BY <1>1, <1>2
<1> HIDE DEF r
<1>5. TypeOK'
  <2>1. processed' \in [Object -> Seq(Event)]
    BY <1>1, <1>2, <1>3 DEF r
  <2>2. removed' \in [Object -> SUBSET Event]
    BY <1>1, <1>2
  <2>3. reclaimed' \subseteq Event
    BY <1>1, <1>2
  <2>4. horizon' \in [Object -> Nat]
    BY <1>1, <1>2
  <2> QED
    BY <2>1, <2>2, <2>3, <2>4, <1>1 DEF TypeOK, indexVars
<1>6. IndexExact' /\ HintValid'
  BY <1>1 DEF IndexExact, HintValid, indexVars
<1>7. \A j, k \in 1 .. Len(s) : j < k => Less(s[j], s[k])
  BY DEF ProcessedSorted
<1>8. ProcessedSorted'
  <2>1. ASSUME NEW j \in 1 .. Len(r), NEW k \in 1 .. Len(r), j < k
        PROVE  Less(r[j], r[k])
    <3>1. j + n \in 1 .. Len(s) /\ k + n \in 1 .. Len(s) /\ j + n < k + n
      BY <2>1, <1>2, <1>3
    <3> QED
      BY <3>1, <1>3, <1>7
  <2> QED
    BY <2>1, <1>4 DEF ProcessedSorted
<1>9. Elements(r) \subseteq Elements(s) /\ gone(n) \subseteq Elements(s)
      /\ Elements(r) \cap gone(n) = {}
  <2>1. Elements(r) \subseteq Elements(s) /\ gone(n) \subseteq Elements(s)
    <3>1. ASSUME NEW k \in 1 .. Len(r) PROVE r[k] \in Elements(s)
      <4>1. k + n \in 1 .. Len(s) /\ r[k] = s[k + n]
        BY <1>2, <1>3
      <4> QED
        BY <4>1 DEF Elements
    <3>2. ASSUME NEW k \in 1 .. n PROVE s[k] \in Elements(s)
      BY <1>2 DEF Elements
    <3> QED
      BY <3>1, <3>2 DEF Elements
  <2>2. ASSUME NEW j \in 1 .. n, NEW k \in 1 .. Len(r) PROVE s[j] # r[k]
    <3>1. j \in 1 .. Len(s) /\ k + n \in 1 .. Len(s) /\ j < k + n /\ r[k] = s[k + n]
      BY <1>2, <1>3
    <3>2. Less(s[j], r[k]) /\ s[j] \in Event /\ r[k] \in Event
      BY <3>1, <1>2, <1>7
    <3> QED
      BY <3>2, LessIrreflexive
  <2> QED
    BY <2>1, <2>2 DEF Elements
<1>10. NothingSkipped'
  BY <1>1, <1>4, <1>9 DEF NothingSkipped
<1>11. OnePlace'
  <2> DEFINE G == gone(n)
             old == {e \in removed[o] : e.recv < t}
             new == {e \in removed[o] : e.recv >= t}
  <2>1. /\ reclaimed' = reclaimed \cup (G \cup old) /\ removed'[o] = new
        /\ Elements(processed'[o]) = Elements(r) /\ unprocessed' = unprocessed
        /\ G \subseteq Elements(processed[o]) /\ Elements(r) \subseteq Elements(processed[o])
        /\ Elements(r) \cap G = {}
        /\ old \subseteq removed[o] /\ new \subseteq removed[o]
        /\ \A x \in Object : x # o => processed'[x] = processed[x] /\ removed'[x] = removed[x]
    BY <1>1, <1>4, <1>9
  <2>2. old \cap new = {}
    <3> SUFFICES ASSUME NEW e \in removed[o] PROVE ~(e.recv < t /\ e.recv >= t)
      OBVIOUS
    <3> QED
      BY <1>2, EventFields
  <2> HIDE DEF G, old, new, gone, s
  <2>3. \A x \in Object : x # o => \A e \in G \cup old :
           e \notin unprocessed[x] \cup Elements(processed[x]) \cup removed[x]
    <3>1. \A e \in G \cup old : e.obj = o
      BY <2>1 DEF OnePlace
    <3> QED
      BY <3>1 DEF OnePlace
  <2>4. ASSUME NEW x \in Object, x # o
        PROVE  /\ \A e \in unprocessed'[x] \cup Elements(processed'[x]) \cup removed'[x] : e.obj = x
               /\ unprocessed'[x] \cap Elements(processed'[x]) = {}
               /\ (unprocessed'[x] \cup Elements(processed'[x])) \cap (removed'[x] \cup reclaimed') = {}
               /\ removed'[x] \cap reclaimed' = {}
    BY <2>1, <2>3, <2>4 DEF OnePlace
  <2>5. /\ \A e \in unprocessed'[o] \cup Elements(processed'[o]) \cup removed'[o] : e.obj = o
        /\ unprocessed'[o] \cap Elements(processed'[o]) = {}
        /\ (unprocessed'[o] \cup Elements(processed'[o])) \cap (removed'[o] \cup reclaimed') = {}
        /\ removed'[o] \cap reclaimed' = {}
    BY <2>1, <2>2 DEF OnePlace
  <2> QED
    BY <2>4, <2>5 DEF OnePlace
<1> QED
  BY <1>5, <1>6, <1>8, <1>10, <1>11

LEMMA OfcPurgeStep ==
    ASSUME OfcPurge
    PROVE  Inv'
<1>1. TypeOK'
  BY DEF OfcPurge, TypeOK
<1>2. IndexExact' /\ HintValid'
  BY DEF OfcPurge, IndexExact, HintValid, BeginPos
<1>3. \A o \in Object : processed'[o] = <<>> /\ Elements(processed'[o]) = {}
  <2>1. \A o \in Object : processed'[o] = <<>>
    BY DEF OfcPurge
  <2>2. Elements(<<>>) = {}
    BY DEF Elements
  <2> QED
    BY <2>1, <2>2
<1>4. ProcessedSorted' /\ NothingSkipped'
  <2>1. 1 .. Len(<<>>) = {}
    OBVIOUS
  <2>2. \A o \in Object : 1 .. Len(processed'[o]) = {}
    BY <1>3, <2>1, Zenon
  <2> QED
    BY <1>3, <2>2 DEF ProcessedSorted, NothingSkipped
<1>5. OnePlace'
  <2>1. reclaimed' = {} /\ \A o \in Object : unprocessed'[o] = {} /\ removed'[o] = {}
    BY DEF OfcPurge
  <2> QED
    BY <1>3, <2>1 DEF OnePlace
<1> QED
  BY <1>1, <1>2, <1>4, <1>5 DEF Inv

-----------------------------------------------------------------------------
(***************************************************************************)
(* The theorems.                                                           *)
(***************************************************************************)
LEMMA InvInit ==
    ASSUME Init
    PROVE  Inv
<1>1. TypeOK
  BY DEF Init, TypeOK
<1>2. IndexExact /\ HintValid
  BY DEF Init, IndexExact, HintValid, BeginPos
<1>3. \A o \in Object : processed[o] = <<>> /\ Elements(processed[o]) = {}
  <2>1. \A o \in Object : processed[o] = <<>>
    BY DEF Init
  <2>2. Elements(<<>>) = {}
    BY DEF Elements
  <2> QED
    BY <2>1, <2>2
<1>4. ProcessedSorted /\ NothingSkipped
  <2>1. 1 .. Len(<<>>) = {}
    OBVIOUS
  <2>2. \A o \in Object : 1 .. Len(processed[o]) = {}
    BY <1>3, <2>1, Zenon
  <2> QED
    BY <1>3, <2>2 DEF ProcessedSorted, NothingSkipped
<1>5. OnePlace
  <2>1. reclaimed = {} /\ \A o \in Object : unprocessed[o] = {} /\ removed[o] = {}
    BY DEF Init
  <2> QED
    BY <1>3, <2>1 DEF OnePlace
<1> QED
  BY <1>1, <1>2, <1>4, <1>5 DEF Inv

LEMMA InvStep ==
    ASSUME Inv, [Next]_vars
    PROVE  Inv'
<1>1. ASSUME NEW e \in Event, Insert(e) \/ HandleAntiMessage(e)
      PROVE  Inv'
  BY <1>1, InsertStep, HandleAntiMessageStep
<1>2. ASSUME NEW o \in Object, GetEvent(o)
      PROVE  Inv'
  BY <1>2, GetEventStep
<1>3. ASSUME NEW o \in Object, NEW t \in {e.recv : e \in Event}, Rollback(o, t) \/ FossilCollect(o, t)
      PROVE  Inv'
  <2>1. t \in Nat
    BY EventFields
  <2> QED
    BY <1>3, <2>1, RollbackStep, FossilCollectStep
<1>4. CASE OfcPurge
  BY <1>4, OfcPurgeStep
<1>5. CASE UNCHANGED vars
  BY <1>5 DEF vars, indexVars, Inv, TypeOK, IndexExact, HintValid, ProcessedSorted,
              NothingSkipped, OnePlace
<1> QED
  BY <1>1, <1>2, <1>3, <1>4, <1>5 DEF Next

LEMMA InvAlways == Spec => []Inv
<1>1. Init => Inv
  BY InvInit
<1>2. Inv /\ [Next]_vars => Inv'
  BY InvStep
<1> QED
  BY <1>1, <1>2, PTL DEF Spec

LEMMA InvPeek ==
    ASSUME Inv
    PROVE  PeekIsLowest
<1> USE DEF Inv
<1> SUFFICES ASSUME NEW e \in lowest, IsBegin(e, lowest)
             PROVE  IsBegin(e, UNION {unprocessed[o] : o \in Object})
  BY DEF PeekIsLowest
<1>1. PICK q \in Object : e = lowObjPos[q] /\ e # End
  BY DEF IndexExact
<1>2. e \in unprocessed[q] /\ e \in Event
  BY <1>1, IndexEntry
<1>3. ASSUME NEW o \in Object, NEW x \in unprocessed[o]
      PROVE  x = e \/ Less(e, x)
  <2>1. IsBegin(lowObjPos[o], unprocessed[o])
    BY DEF IndexExact, BeginPos
  <2>2. lowObjPos[o] \in Event /\ x \in Event
    BY <2>1 DEF TypeOK, IsBegin
  <2>3. lowObjPos[o] \in lowest
    BY <2>2, EndAssumption DEF IndexExact
  <2>4. lowObjPos[o] = e \/ Less(e, lowObjPos[o])
    BY <2>3 DEF IsBegin
  <2>5. x = lowObjPos[o] \/ Less(lowObjPos[o], x)
    BY <2>1 DEF IsBegin
  <2> QED
    BY <1>2, <2>2, <2>4, <2>5, LessTransitive
<1> DEFINE W == {unprocessed[o] : o \in Object}
<1>4. unprocessed[q] \in W /\ \A w \in W : \E o \in Object : w = unprocessed[o]
  OBVIOUS
<1>5. e \in UNION W
  BY <1>2, <1>4
<1>6. ASSUME NEW x \in UNION W
      PROVE  x = e \/ Less(e, x)
  <2>1. PICK w \in W : x \in w
    OBVIOUS
  <2>2. PICK o \in Object : w = unprocessed[o]
    BY <1>4
  <2> QED
    BY <1>3, <2>1, <2>2
<1> QED
  BY <1>5, <1>6 DEF IsBegin

\* The iterators and the containers of the event set keep their types under
\* every operation of TimeWarpMultiSet.
THEOREM TypeCorrect == Spec => []TypeOK
<1>1. Inv => TypeOK
  BY DEF Inv
<1> QED
  BY <1>1, InvAlways, PTL

\* lowestObjEvents always holds exactly the lowest event of every object.
THEOREM IteratorsFollow == Spec => []IndexExact
<1>1. Inv => IndexExact
  BY DEF Inv
<1> QED
  BY <1>1, InvAlways, PTL

\* The insertion hint is always an iterator getEvent() may dereference, whatever
\* was erased since it was kept.
THEOREM HintFollows == Spec => []HintValid
<1>1. Inv => HintValid
  BY DEF Inv
<1> QED
  BY <1>1, InvAlways, PTL

\* peekEvent(NULL) is the lowest unprocessed event of the manager: the
\* scheduler executes in timestamp order and the GVT estimation reports a
\* true minimum.
THEOREM SchedulerSeesLowest == Spec => []PeekIsLowest
<1>1. Inv => PeekIsLowest
  BY InvPeek
<1> QED
  BY <1>1, InvAlways, PTL

\* The processed vector is sorted and before everything unprocessed, so that
\* the scans of rollback() and fossilCollect() may stop early.
THEOREM ProcessedInOrder == Spec => [](ProcessedSorted /\ NothingSkipped)
<1>1. Inv => ProcessedSorted /\ NothingSkipped
  BY DEF Inv
<1> QED
  BY <1>1, InvAlways, PTL

\* No event is lost to two containers at once, executed twice without a
\* rollback, or used after fossilCollect() gave it back.
THEOREM EventsInOnePlace == Spec => []OnePlace
<1>1. Inv => OnePlace
  BY DEF Inv
<1> QED
  BY <1>1, InvAlways, PTL
=============================================================================
