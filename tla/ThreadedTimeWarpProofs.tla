----------------------- MODULE ThreadedTimeWarpProofs -----------------------
(* The locks of the threaded kernel keep the schedule queues exact and give   *)
(* every object to one worker at a time, and no event is lost or doubled, for *)
(* every number of workers, objects and schedule queues and every application. *)
EXTENDS ThreadedTimeWarp, FiniteSetTheorems, WellFoundedInduction, TLAPS

\* The application sends to objects of the manager, at times that are not negative.
AppOK == \A o \in Object, t \in Nat : App(o, t) \in Seq(Message)

\* The events an object receives.
EventsOf(o) == {e \in Event : e.dst = o}

Sorted(s) == \A j, k \in 1..Len(s) : j < k => ~Less(s[k], s[j])

-----------------------------------------------------------------------------
(* The order of a multiset *)

LEMMA LessAsymmetric ==
  ASSUME NEW a \in Event, NEW b \in Event
  PROVE  ~(Less(a, b) /\ Less(b, a))
BY DEF Less, Event

LEMMA LessNegTransitive ==
  ASSUME NEW a \in Event, NEW b \in Event, NEW c \in Event, ~Less(a, b), ~Less(b, c)
  PROVE  ~Less(a, c)
BY DEF Less, Event

\* NotAfter is a total order of the positions.
LEMMA NotAfterOrder ==
  ASSUME NEW m, NEW K \in SUBSET Nat, \A k \in K : m[k] \in Event,
         NEW i \in K, NEW j \in K, NEW k \in K
  PROVE  /\ NotAfter(m, i, i)
         /\ NotAfter(m, i, j) \/ NotAfter(m, j, i)
         /\ NotAfter(m, i, j) /\ NotAfter(m, j, i) => i = j
         /\ NotAfter(m, i, j) /\ NotAfter(m, j, k) => NotAfter(m, i, k)
<1>1. m[i] \in Event /\ m[j] \in Event /\ m[k] \in Event /\ i \in Nat /\ j \in Nat /\ k \in Nat
  OBVIOUS
<1>2. ~(Less(m[i], m[j]) /\ Less(m[j], m[i])) /\ ~(Less(m[j], m[k]) /\ Less(m[k], m[j]))
      /\ ~(Less(m[i], m[k]) /\ Less(m[k], m[i])) /\ ~Less(m[i], m[i])
  BY <1>1, LessAsymmetric
<1>3. /\ ~Less(m[i], m[j]) /\ ~Less(m[j], m[k]) => ~Less(m[i], m[k])
      /\ ~Less(m[k], m[j]) /\ ~Less(m[j], m[i]) => ~Less(m[k], m[i])
      /\ ~Less(m[i], m[k]) /\ ~Less(m[k], m[j]) => ~Less(m[i], m[j])
      /\ ~Less(m[j], m[i]) /\ ~Less(m[i], m[k]) => ~Less(m[j], m[k])
  BY <1>1, LessNegTransitive
<1> QED
  BY <1>1, <1>2, <1>3 DEF NotAfter

\* The positions that are not after k.
UpTo(m, K, k) == {j \in K : NotAfter(m, j, k)}

LEMMA RankType ==
  ASSUME NEW m, NEW K \in SUBSET Nat, IsFiniteSet(K), \A k \in K : m[k] \in Event, NEW k \in K
  PROVE  /\ IsFiniteSet(UpTo(m, K, k)) /\ Rank(m, K, k) = Cardinality(UpTo(m, K, k))
         /\ Rank(m, K, k) \in 1..Cardinality(K)
<1>1. UpTo(m, K, k) \in SUBSET K /\ k \in UpTo(m, K, k)
  BY NotAfterOrder DEF UpTo
<1>2. /\ IsFiniteSet(UpTo(m, K, k)) /\ Cardinality(UpTo(m, K, k)) <= Cardinality(K)
      /\ Cardinality(K) \in Nat /\ Cardinality(UpTo(m, K, k)) \in Nat
  BY <1>1, FS_Subset, FS_CardinalityType
<1>3. Cardinality(UpTo(m, K, k)) # 0
  BY <1>1, <1>2, FS_EmptySet
<1>4. Rank(m, K, k) = Cardinality(UpTo(m, K, k))
  BY DEF Rank, UpTo
<1> QED
  BY <1>2, <1>3, <1>4

LEMMA RankOrder ==
  ASSUME NEW m, NEW K \in SUBSET Nat, IsFiniteSet(K), \A k \in K : m[k] \in Event,
         NEW i \in K, NEW j \in K, i # j, NotAfter(m, i, j)
  PROVE  Rank(m, K, i) < Rank(m, K, j)
<1>1. UpTo(m, K, i) \in SUBSET UpTo(m, K, j)
  BY NotAfterOrder DEF UpTo
<1>2. j \in UpTo(m, K, j) /\ j \notin UpTo(m, K, i)
  BY NotAfterOrder DEF UpTo
<1>3. /\ IsFiniteSet(UpTo(m, K, j))
      /\ Rank(m, K, i) = Cardinality(UpTo(m, K, i)) /\ Rank(m, K, j) = Cardinality(UpTo(m, K, j))
      /\ Rank(m, K, i) \in Nat /\ Rank(m, K, j) \in Nat
  BY RankType, FS_CardinalityType
<1>4. Rank(m, K, i) <= Rank(m, K, j) /\ (Rank(m, K, i) = Rank(m, K, j) => UpTo(m, K, i) = UpTo(m, K, j))
  BY <1>1, <1>3, FS_Subset
<1> QED
  BY <1>2, <1>3, <1>4

\* Every rank is taken.
LEMMA RankOnto ==
  ASSUME NEW m, NEW K \in SUBSET Nat, IsFiniteSet(K), \A k \in K : m[k] \in Event,
         NEW i \in 1..Cardinality(K)
  PROVE  \E k \in K : Rank(m, K, k) = i
<1> DEFINE f == [k \in K |-> Rank(m, K, k)]
<1>1. f \in [K -> 1..Cardinality(K)]
  BY RankType
<1>2. ASSUME NEW a \in K, NEW b \in K, a # b PROVE f[a] # f[b]
  <2>1. NotAfter(m, a, b) \/ NotAfter(m, b, a)
    BY NotAfterOrder
  <2>2. Rank(m, K, a) < Rank(m, K, b) \/ Rank(m, K, b) < Rank(m, K, a)
    BY <1>2, <2>1, RankOrder
  <2>3. Rank(m, K, a) \in Nat /\ Rank(m, K, b) \in Nat
    BY RankType, FS_CardinalityType
  <2> QED
    BY <2>2, <2>3
<1>3. f \in Injection(K, 1..Cardinality(K))
  BY <1>1, <1>2 DEF Injection, IsInjective
<1>4. Cardinality(K) \in Nat
  BY FS_CardinalityType
<1>5. IsFiniteSet(1..Cardinality(K)) /\ Cardinality(1..Cardinality(K)) = Cardinality(K)
  BY <1>4, FS_Interval
<1>6. f \in Surjection(K, 1..Cardinality(K))
  BY <1>3, <1>5, FS_Injection
<1> QED
  BY <1>6 DEF Surjection

\* What Multiset(m, K) holds at each place: all of m at K, each once and in order.
LEMMA MultisetPlaces ==
  ASSUME NEW m, NEW K \in SUBSET Nat, IsFiniteSet(K), \A k \in K : m[k] \in Event
  PROVE  \E p \in [1..Cardinality(K) -> K] :
           /\ Multiset(m, K) = [i \in 1..Cardinality(K) |-> m[p[i]]]
           /\ \A k \in K : \E i \in 1..Cardinality(K) : p[i] = k
           /\ \A i, j \in 1..Cardinality(K) : i < j => p[i] # p[j] /\ NotAfter(m, p[i], p[j])
<1> DEFINE n == Cardinality(K)
           p == [i \in 1..n |-> CHOOSE k \in K : Rank(m, K, k) = i]
<1>1. ASSUME NEW i \in 1..n PROVE p[i] \in K /\ Rank(m, K, p[i]) = i
  BY RankOnto
<1>2. p \in [1..n -> K]
  BY <1>1
<1>3. Multiset(m, K) = [i \in 1..n |-> m[p[i]]]
  BY DEF Multiset
<1> HIDE DEF p
<1>4. n \in Nat /\ \A k \in K : Rank(m, K, k) \in 1..n
  BY RankType, FS_CardinalityType
<1>5. ASSUME NEW i \in 1..n, NEW j \in 1..n, i < j
      PROVE  p[i] # p[j] /\ NotAfter(m, p[i], p[j])
  <2>1. p[i] # p[j]
    BY <1>1, <1>4, <1>5
  <2>2. NotAfter(m, p[i], p[j]) \/ NotAfter(m, p[j], p[i])
    BY <1>2, NotAfterOrder
  <2>3. ~NotAfter(m, p[j], p[i])
    <3> SUFFICES ASSUME NotAfter(m, p[j], p[i]) PROVE FALSE
      OBVIOUS
    <3>1. Rank(m, K, p[j]) < Rank(m, K, p[i])
      BY <1>2, <2>1, RankOrder
    <3> QED
      BY <1>1, <1>4, <1>5, <3>1
  <2> QED
    BY <2>1, <2>2, <2>3
<1>6. ASSUME NEW k \in K PROVE \E i \in 1..n : p[i] = k
  <2>1. Rank(m, K, k) \in 1..n
    BY <1>4
  <2>2. PICK i \in 1..n : i = Rank(m, K, k)
    BY <2>1
  <2>3. p[i] \in K /\ Rank(m, K, p[i]) = Rank(m, K, k)
    BY <1>1, <2>2
  <2>4. CASE p[i] # k
    <3>1. NotAfter(m, p[i], k) \/ NotAfter(m, k, p[i])
      BY <2>3, NotAfterOrder
    <3>2. Rank(m, K, p[i]) < Rank(m, K, k) \/ Rank(m, K, k) < Rank(m, K, p[i])
      BY <2>3, <2>4, <3>1, RankOrder
    <3> QED
      BY <1>4, <2>3, <3>2
  <2> QED
    BY <2>4
<1> QED
  BY <1>2, <1>3, <1>5, <1>6

LEMMA PositionsFinite ==
  ASSUME NEW T, NEW s \in Seq(T), NEW K \in SUBSET (1..Len(s))
  PROVE  IsFiniteSet(K) /\ Cardinality(K) \in Nat /\ K \in SUBSET Nat
<1>1. Len(s) \in Nat /\ 1 \in Int /\ Len(s) \in Int
  OBVIOUS
<1>2. IsFiniteSet(1..Len(s))
  BY <1>1, FS_Interval
<1>3. IsFiniteSet(K)
  BY <1>2, FS_Subset
<1>4. K \in SUBSET Nat
  BY <1>1
<1> QED
  BY <1>3, <1>4, FS_CardinalityType

\* Erasing elements of a multiset, or arranging a sequence as one.
LEMMA MultisetOK ==
  ASSUME NEW T \in SUBSET Event, NEW s \in Seq(T), NEW K \in SUBSET (1..Len(s))
  PROVE  /\ Multiset(s, K) \in Seq(T) /\ Sorted(Multiset(s, K))
         /\ Len(Multiset(s, K)) = Cardinality(K)
         /\ \A i \in 1..Len(Multiset(s, K)) : \E k \in K : Multiset(s, K)[i] = s[k]
         /\ \A k \in K : \E i \in 1..Len(Multiset(s, K)) : Multiset(s, K)[i] = s[k]
<1>1. /\ IsFiniteSet(K) /\ Cardinality(K) \in Nat /\ K \in SUBSET Nat
      /\ \A k \in K : s[k] \in T /\ s[k] \in Event
  BY PositionsFinite
<1>2. PICK p \in [1..Cardinality(K) -> K] :
         /\ Multiset(s, K) = [i \in 1..Cardinality(K) |-> s[p[i]]]
         /\ \A k \in K : \E i \in 1..Cardinality(K) : p[i] = k
         /\ \A i, j \in 1..Cardinality(K) : i < j => p[i] # p[j] /\ NotAfter(s, p[i], p[j])
  BY <1>1, MultisetPlaces
<1>3. PICK n, r : n = Cardinality(K) /\ r = Multiset(s, K) /\ n \in Nat
  BY <1>1
<1>4. /\ r = [i \in 1..n |-> s[p[i]]] /\ p \in [1..n -> K]
      /\ \A k \in K : \E i \in 1..n : p[i] = k
      /\ \A i, j \in 1..n : i < j => NotAfter(s, p[i], p[j])
  BY <1>2, <1>3
<1>5. r \in Seq(T) /\ Len(r) = n
  <2>1. r \in [1..n -> T]
    BY <1>1, <1>4
  <2> QED
    BY <1>3, <2>1
<1>6. ASSUME NEW j \in 1..n, NEW k \in 1..n, j < k PROVE ~Less(r[k], r[j])
  <2>1. NotAfter(s, p[j], p[k]) /\ r[j] = s[p[j]] /\ r[k] = s[p[k]] /\ p[j] \in K /\ p[k] \in K
    BY <1>4, <1>6
  <2> QED
    BY <1>1, <2>1, LessAsymmetric DEF NotAfter
<1>7. Sorted(r)
  BY <1>5, <1>6 DEF Sorted
<1>8. \A i \in 1..n : \E k \in K : r[i] = s[k]
  BY <1>4
<1>9. \A k \in K : \E i \in 1..n : r[i] = s[k]
  BY <1>4
<1> QED
  BY <1>3, <1>5, <1>7, <1>8, <1>9

Distinct(s) == \A j, k \in 1..Len(s) : j # k => s[j].dst # s[k].dst

LEMMA MultisetDistinct ==
  ASSUME NEW s \in Seq(Event), NEW K \in SUBSET (1..Len(s)),
         \A j, k \in K : j # k => s[j].dst # s[k].dst
  PROVE  Distinct(Multiset(s, K))
<1>1. /\ IsFiniteSet(K) /\ Cardinality(K) \in Nat /\ K \in SUBSET Nat
      /\ \A k \in K : s[k] \in Event
  BY PositionsFinite
<1>2. PICK p \in [1..Cardinality(K) -> K] :
         /\ Multiset(s, K) = [i \in 1..Cardinality(K) |-> s[p[i]]]
         /\ \A k \in K : \E i \in 1..Cardinality(K) : p[i] = k
         /\ \A i, j \in 1..Cardinality(K) : i < j => p[i] # p[j] /\ NotAfter(s, p[i], p[j])
  BY <1>1, MultisetPlaces
<1>3. Len(Multiset(s, K)) = Cardinality(K)
  BY <1>1, MultisetOK
<1>4. ASSUME NEW i \in 1..Cardinality(K), NEW j \in 1..Cardinality(K), i # j
      PROVE  Multiset(s, K)[i].dst # Multiset(s, K)[j].dst
  <2>1. p[i] # p[j] /\ p[i] \in K /\ p[j] \in K
    BY <1>1, <1>2, <1>4
  <2>2. Multiset(s, K)[i] = s[p[i]] /\ Multiset(s, K)[j] = s[p[j]]
    BY <1>2
  <2> QED
    BY <2>1, <2>2
<1> QED
  BY <1>3, <1>4 DEF Distinct

LEMMA Concatenated ==
  ASSUME NEW T, NEW s \in Seq(T), NEW es \in Seq(T)
  PROVE  /\ s \o es \in Seq(T) /\ Len(s) \in Nat /\ Len(es) \in Nat
         /\ Len(s \o es) = Len(s) + Len(es) /\ DOMAIN (s \o es) = 1..(Len(s) + Len(es))
         /\ \A k \in 1..Len(s) : (s \o es)[k] = s[k]
         /\ \A k \in 1..Len(es) : (s \o es)[Len(s) + k] = es[k]
OBVIOUS

\* insert() keeps a multiset sorted, and its elements are those before and the new ones.
LEMMA InsertedAllOK ==
  ASSUME NEW T \in SUBSET Event, NEW s \in Seq(T), NEW es \in Seq(T)
  PROVE  InsertedAll(s, es) \in Seq(T) /\ Sorted(InsertedAll(s, es))
<1>1. s \o es \in Seq(T) /\ DOMAIN (s \o es) = 1..Len(s \o es)
  BY Concatenated
<1> QED
  BY <1>1, MultisetOK DEF InsertedAll

LEMMA InsertedOK ==
  ASSUME NEW T \in SUBSET Event, NEW s \in Seq(T), NEW e \in T
  PROVE  /\ Inserted(s, e) \in Seq(T) /\ Sorted(Inserted(s, e))
         /\ Len(Inserted(s, e)) = Len(s) + 1
         /\ \A i \in 1..Len(Inserted(s, e)) :
              Inserted(s, e)[i] = e \/ \E k \in 1..Len(s) : Inserted(s, e)[i] = s[k]
         /\ \E i \in 1..Len(Inserted(s, e)) : Inserted(s, e)[i] = e
         /\ \A k \in 1..Len(s) : \E i \in 1..Len(Inserted(s, e)) : Inserted(s, e)[i] = s[k]
<1> DEFINE m == s \o <<e>>
           r == Inserted(s, e)
<1>1. /\ m \in Seq(T) /\ Len(m) = Len(s) + 1 /\ DOMAIN m = 1..Len(m) /\ Len(s) \in Nat
      /\ \A k \in 1..Len(s) : m[k] = s[k]
      /\ m[Len(s) + 1] = e
  OBVIOUS
<1>2. r = Multiset(m, 1..Len(m))
  BY <1>1 DEF Inserted, InsertedAll
<1>3. Cardinality(1..Len(m)) = Len(m)
  BY <1>1, FS_Interval
<1> HIDE DEF m, r
<1>4. /\ r \in Seq(T) /\ Sorted(r) /\ Len(r) = Len(m)
      /\ \A i \in 1..Len(r) : \E k \in 1..Len(m) : r[i] = m[k]
      /\ \A k \in 1..Len(m) : \E i \in 1..Len(r) : r[i] = m[k]
  <2>1. PICK K \in SUBSET (1..Len(m)) : K = 1..Len(m)
    OBVIOUS
  <2>2. m \in Seq(T) /\ r = Multiset(m, K) /\ Cardinality(K) = Len(m)
    BY <1>1, <1>2, <1>3, <2>1
  <2>3. /\ r \in Seq(T) /\ Sorted(r) /\ Len(r) = Cardinality(K)
        /\ \A i \in 1..Len(r) : \E k \in K : r[i] = m[k]
        /\ \A k \in K : \E i \in 1..Len(r) : r[i] = m[k]
    BY <2>2, MultisetOK
  <2> QED
    BY <2>1, <2>2, <2>3
<1>5. \A k \in 1..Len(m) : k \in 1..Len(s) \/ k = Len(s) + 1
  BY <1>1
<1>6. ASSUME NEW i \in 1..Len(r) PROVE r[i] = e \/ \E k \in 1..Len(s) : r[i] = s[k]
  <2>1. PICK k \in 1..Len(m) : r[i] = m[k]
    BY <1>4
  <2> QED
    BY <1>1, <1>5, <2>1
<1>7. Len(s) + 1 \in 1..Len(m) /\ \A k \in 1..Len(s) : k \in 1..Len(m)
  BY <1>1
<1>8. /\ \E i \in 1..Len(r) : r[i] = e
      /\ \A k \in 1..Len(s) : \E i \in 1..Len(r) : r[i] = s[k]
  BY <1>1, <1>4, <1>7
<1> QED
  BY <1>1, <1>4, <1>6, <1>8 DEF r

\* The first element stays the first, unless it is the new one.
LEMMA InsertedHead ==
  ASSUME NEW s \in Seq(Event), Sorted(s), NEW e \in Event, Head(Inserted(s, e)) # e
  PROVE  s # <<>> /\ Inserted(s, e) # <<>> /\ Head(Inserted(s, e)) = Head(s)
<1> DEFINE m == s \o <<e>>
           K == 1..Len(m)
<1>1. /\ m \in Seq(Event) /\ Len(m) = Len(s) + 1 /\ DOMAIN m = K /\ Len(s) \in Nat
      /\ \A k \in 1..Len(s) : m[k] = s[k]
      /\ m[Len(s) + 1] = e
  OBVIOUS
<1>2. Inserted(s, e) = Multiset(m, K)
  BY <1>1 DEF Inserted, InsertedAll
<1>3. Cardinality(K) = Len(m)
  BY <1>1, FS_Interval
<1>4. IsFiniteSet(K) /\ K \in SUBSET Nat /\ \A k \in K : m[k] \in Event
  <2>1. IsFiniteSet(K)
    BY <1>1, FS_Interval
  <2> QED
    BY <1>1, <2>1
<1>5. PICK p \in [K -> K] :
         /\ Multiset(m, K) = [i \in K |-> m[p[i]]]
         /\ \A k \in K : \E i \in K : p[i] = k
         /\ \A i, j \in K : i < j => p[i] # p[j] /\ NotAfter(m, p[i], p[j])
  <2>1. PICK n, x : n = Cardinality(K) /\ x = m
    OBVIOUS
  <2>2. \A k \in K : x[k] \in Event
    BY <1>4, <2>1
  <2>3. \E p \in [1..Cardinality(K) -> K] :
           /\ Multiset(x, K) = [i \in 1..Cardinality(K) |-> x[p[i]]]
           /\ \A k \in K : \E i \in 1..Cardinality(K) : p[i] = k
           /\ \A i, j \in 1..Cardinality(K) : i < j => p[i] # p[j] /\ NotAfter(x, p[i], p[j])
    BY <1>4, <2>2, MultisetPlaces
  <2>4. 1..Cardinality(K) = K
    BY <1>3
  <2> QED
    BY <2>1, <2>3, <2>4
<1> HIDE DEF m
<1>6. Inserted(s, e) \in Seq(Event) /\ Len(Inserted(s, e)) = Len(s) + 1
  BY InsertedOK
<1>7. 1 \in K /\ Inserted(s, e) # <<>> /\ Head(Inserted(s, e)) = Inserted(s, e)[1]
  BY <1>1, <1>6
<1>8. Head(Inserted(s, e)) = m[p[1]] /\ p[1] \in K
  BY <1>2, <1>5, <1>7
<1>9. p[1] \in 1..Len(s)
  BY <1>1, <1>8
<1>10. p[1] = 1
  <2> SUFFICES ASSUME p[1] # 1 PROVE FALSE
    OBVIOUS
  <2>1. PICK j \in K : p[j] = 1
    BY <1>5, <1>7
  <2>2. 1 < j
    BY <1>1, <2>1
  <2>3. NotAfter(m, p[1], 1)
    BY <1>5, <1>7, <2>1, <2>2
  <2>4. 1 \in 1..Len(s) /\ p[1] > 1
    BY <1>1, <1>9
  <2>5. m[p[1]] = s[p[1]] /\ m[1] = s[1]
    BY <1>1, <1>9, <2>4
  <2>6. ~Less(s[p[1]], s[1])
    BY <1>9, <2>4 DEF Sorted
  <2> QED
    BY <1>1, <1>9, <2>3, <2>4, <2>5, <2>6 DEF NotAfter
<1>11. s # <<>> /\ Head(s) = s[1] /\ 1 \in 1..Len(s)
  BY <1>1, <1>9
<1> QED
  BY <1>1, <1>7, <1>8, <1>10, <1>11

\* eraseSkipFirst() and insertEvent(): the old entry gives way to the new one.
Swapped(s, old, e) == Inserted(Multiset(s, {k \in 1..Len(s) : s[k] # old}), e)

LEMMA RescheduledOK ==
  ASSUME NEW s \in Seq(Event), Distinct(s), NEW old, NEW e \in Event,
         \A k \in 1..Len(s) : s[k] # old => s[k].dst # e.dst,
         NEW r, r = Swapped(s, old, e)
  PROVE  /\ r \in Seq(Event) /\ Distinct(r)
         /\ \A i \in 1..Len(r) : r[i] = e \/ \E k \in 1..Len(s) : r[i] = s[k] /\ s[k] # old
         /\ \E i \in 1..Len(r) : r[i] = e
         /\ \A k \in 1..Len(s) : s[k] # old => \E i \in 1..Len(r) : r[i] = s[k]
<1> DEFINE K == {k \in 1..Len(s) : s[k] # old}
           t == Multiset(s, K)
           m == t \o <<e>>
<1>1. /\ t \in Seq(Event)
      /\ \A i \in 1..Len(t) : \E k \in K : t[i] = s[k]
      /\ \A k \in K : \E i \in 1..Len(t) : t[i] = s[k]
  <2>1. Event \in SUBSET Event /\ K \in SUBSET (1..Len(s))
    OBVIOUS
  <2> QED
    BY <2>1, MultisetOK
<1>2. Distinct(t)
  BY MultisetDistinct DEF Distinct
<1> HIDE DEF t
<1>3. \A i \in 1..Len(t) : t[i].dst # e.dst
  BY <1>1
<1>4. /\ m \in Seq(Event) /\ Len(m) = Len(t) + 1 /\ DOMAIN m = 1..Len(m) /\ Len(t) \in Nat
      /\ \A k \in 1..Len(t) : m[k] = t[k]
      /\ m[Len(t) + 1] = e
  BY <1>1
<1>5. r = Multiset(m, 1..Len(m))
  BY <1>4 DEF Inserted, InsertedAll, Swapped, t
<1> HIDE DEF m
<1>6. \A j, k \in 1..Len(m) : j # k => m[j].dst # m[k].dst
  <2> SUFFICES ASSUME NEW j \in 1..Len(m), NEW k \in 1..Len(m), j # k
               PROVE  m[j].dst # m[k].dst
    OBVIOUS
  <2>1. (j \in 1..Len(t) \/ j = Len(t) + 1) /\ (k \in 1..Len(t) \/ k = Len(t) + 1)
    BY <1>4
  <2> QED
    BY <1>2, <1>3, <1>4, <2>1 DEF Distinct
<1>7. Distinct(r)
  BY <1>4, <1>5, <1>6, MultisetDistinct
<1>8. r = Inserted(t, e)
  BY DEF Swapped, t
<1>9. /\ r \in Seq(Event)
      /\ \A i \in 1..Len(r) : r[i] = e \/ \E k \in 1..Len(t) : r[i] = t[k]
      /\ \E i \in 1..Len(r) : r[i] = e
      /\ \A k \in 1..Len(t) : \E i \in 1..Len(r) : r[i] = t[k]
  <2>1. Event \in SUBSET Event /\ t \in Seq(Event) /\ e \in Event
    BY <1>1
  <2>2. /\ Inserted(t, e) \in Seq(Event)
        /\ \A i \in 1..Len(Inserted(t, e)) :
             Inserted(t, e)[i] = e \/ \E k \in 1..Len(t) : Inserted(t, e)[i] = t[k]
        /\ \E i \in 1..Len(Inserted(t, e)) : Inserted(t, e)[i] = e
        /\ \A k \in 1..Len(t) : \E i \in 1..Len(Inserted(t, e)) : Inserted(t, e)[i] = t[k]
    BY ONLY <2>1, InsertedOK, ZenonT(60)
  <2> QED
    BY ONLY <1>8, <2>2
<1>10. ASSUME NEW i \in 1..Len(r) PROVE r[i] = e \/ \E k \in K : r[i] = s[k]
  <2>1. CASE \E k \in 1..Len(t) : r[i] = t[k]
    <3>1. PICK k \in 1..Len(t) : r[i] = t[k]
      BY <2>1
    <3> QED
      BY <1>1, <3>1
  <2> QED
    BY <1>9, <2>1
<1>11. ASSUME NEW k \in K PROVE \E i \in 1..Len(r) : r[i] = s[k]
  <2>1. PICK j \in 1..Len(t) : t[j] = s[k]
    BY <1>1
  <2>2. PICK i \in 1..Len(r) : r[i] = t[j]
    BY <1>9
  <2> QED
    BY <2>1, <2>2
<1> QED
  BY <1>7, <1>9, <1>10, <1>11
-----------------------------------------------------------------------------
(* Operators of a rollback *)

\* A set of numbers has a least element, and a greatest if it is bounded.
LEMMA MinIsLeast ==
  ASSUME NEW S \in SUBSET Nat, S # {}
  PROVE  Min(S) \in S /\ \A x \in S : Min(S) <= x
<1>1. PICK x \in S : \A y \in S : ~(<<y, x>> \in OpToRel(<, Nat))
  BY WFMin, NatLessThanWellFounded
<1>2. ASSUME NEW y \in S PROVE x <= y
  <2>1. x \in Nat /\ y \in Nat
    OBVIOUS
  <2>2. y < x => <<y, x>> \in OpToRel(<, Nat)
    BY <2>1, Zenon DEF OpToRel
  <2>3. ~(y < x)
    BY <1>1, <2>2, Zenon
  <2> QED
    BY <2>1, <2>3
<1> QED
  BY <1>2 DEF Min

LEMMA MaxIsGreatest ==
  ASSUME NEW n \in Nat, NEW S \in SUBSET (1..n), S # {}
  PROVE  Max(S) \in S /\ \A x \in S : x <= Max(S)
<1> DEFINE D == {n - x : x \in S}
<1>1. D \in SUBSET Nat /\ D # {}
  <2>1. ASSUME NEW x \in S PROVE n - x \in Nat
    <3>1. x \in 1..n
      OBVIOUS
    <3> QED
      BY <3>1
  <2> QED
    BY <2>1
<1>2. PICK d \in D : \A y \in D : d <= y
  BY <1>1, MinIsLeast
<1>3. PICK x \in S : d = n - x
  OBVIOUS
<1>4. \A y \in S : n - y \in D
  OBVIOUS
<1>5. ASSUME NEW y \in S PROVE y <= x
  <2>1. n - x <= n - y
    BY <1>2, <1>3, <1>4
  <2>2. x \in 1..n /\ y \in 1..n
    OBVIOUS
  <2> QED
    BY <2>1, <2>2
<1> QED
  BY <1>5 DEF Max

LEMMA SliceOf ==
  ASSUME NEW T, NEW s \in Seq(T), NEW i \in Nat \ {0}, NEW j \in 0..Len(s)
  PROVE  /\ SubSeq(s, i, j) \in Seq(T)
         /\ Len(SubSeq(s, i, j)) = IF i <= j THEN j - i + 1 ELSE 0
         /\ \A k \in 1..Len(SubSeq(s, i, j)) : SubSeq(s, i, j)[k] = s[i + k - 1]
OBVIOUS

LEMMA SliceSorted ==
  ASSUME NEW s \in Seq(Event), Sorted(s), NEW i \in Nat \ {0}, NEW j \in 0..Len(s)
  PROVE  Sorted(SubSeq(s, i, j))
<1>1. PICK r : r = SubSeq(s, i, j)
  OBVIOUS
<1>2. Len(r) = (IF i <= j THEN j - i + 1 ELSE 0) /\ \A k \in 1..Len(r) : r[k] = s[i + k - 1]
  BY <1>1, SliceOf
<1>3. ASSUME NEW k \in 1..Len(r) PROVE i + k - 1 \in 1..Len(s)
  BY <1>2
<1>4. ASSUME NEW k \in 1..Len(r), NEW l \in 1..Len(r), k < l PROVE ~Less(r[l], r[k])
  <2>1. i + k - 1 \in 1..Len(s) /\ i + l - 1 \in 1..Len(s)
    BY <1>3
  <2>2. i + k - 1 < i + l - 1
    BY <1>4
  <2>3. ~Less(s[i + l - 1], s[i + k - 1])
    BY <2>1, <2>2 DEF Sorted
  <2> QED
    BY <1>2, <2>3
<1> QED
  BY <1>1, <1>4 DEF Sorted

LEMMA TailOf ==
  ASSUME NEW T, NEW s \in Seq(T), s # <<>>
  PROVE  /\ Tail(s) \in Seq(T) /\ Head(s) \in T /\ Head(s) = s[1] /\ 1 \in 1..Len(s)
         /\ Len(s) \in Nat /\ Len(Tail(s)) = Len(s) - 1
         /\ \A k \in 1..Len(Tail(s)) : Tail(s)[k] = s[k + 1]
OBVIOUS

LEMMA TailSorted ==
  ASSUME NEW s \in Seq(Event), Sorted(s), s # <<>>
  PROVE  Sorted(Tail(s))
<1>1. PICK r : r = Tail(s)
  OBVIOUS
<1>2. Len(s) \in Nat /\ Len(r) = Len(s) - 1 /\ \A k \in 1..Len(r) : r[k] = s[k + 1]
  BY <1>1, TailOf
<1>3. \A k \in 1..Len(r) : k + 1 \in 1..Len(s)
  BY <1>2
<1> QED
  BY <1>1, <1>2, <1>3 DEF Sorted

\* A StragglerEvent is an event for the receiver of those it cancels.
LEMMA StragglerIsEvent ==
  ASSUME NEW es \in Seq(Event), NEW k \in 1..Len(es)
  PROVE  StragglerEvent(es, es[k].dst) \in Event
<1> DEFINE K == {x \in DOMAIN es : es[x].dst = es[k].dst}
           R == {es[x].recv : x \in K}
<1>1. K \in SUBSET Nat /\ k \in K /\ \A x \in K : es[x] \in Event
  OBVIOUS
<1>2. Min(K) \in K
  BY <1>1, MinIsLeast
<1>3. R \in SUBSET Nat /\ R # {}
  <2>1. \A x \in K : es[x].recv \in Nat
    BY <1>1 DEF Event
  <2> HIDE DEF K
  <2> QED
    BY <1>1, <2>1
<1>4. Min(R) \in Nat
  BY <1>3, MinIsLeast
<1>5. {<<es[x].src, es[x].id>> : x \in K} \in SUBSET (Nat \X Nat)
  <2>1. ASSUME NEW x \in K PROVE <<es[x].src, es[x].id>> \in Nat \X Nat
    BY <1>1 DEF Event
  <2> QED
    BY <2>1
<1>6. es[Min(K)] \in Event
  BY <1>1, <1>2
<1> QED
  BY <1>4, <1>5, <1>6 DEF StragglerEvent, Event

\* cancelEvents() makes a sequence of events of them.
LEMMA StragglersOrdered ==
  ASSUME NEW es \in Seq(Event), NEW order \in SetToSeqs(Stragglers(es))
  PROVE  order \in Seq(Event)
<1> DEFINE f == [k \in 1..Len(es) |-> StragglerEvent(es, es[k].dst)]
           S == Stragglers(es)
<1>1. S \in SUBSET Event
  BY StragglerIsEvent DEF Stragglers
<1>2. f \in Surjection(1..Len(es), S)
  <2>1. S = {StragglerEvent(es, es[k].dst) : k \in 1..Len(es)}
    BY DEF Stragglers
  <2>2. f \in [1..Len(es) -> S] /\ \A x \in S : \E k \in 1..Len(es) : f[k] = x
    BY <2>1
  <2> QED
    BY <2>2 DEF Surjection
<1>3. Len(es) \in Nat /\ IsFiniteSet(1..Len(es))
  BY FS_Interval
<1>4. IsFiniteSet(S) /\ Cardinality(S) \in Nat
  BY <1>2, <1>3, FS_Surjection, FS_CardinalityType
<1>5. order \in [1..Cardinality(S) -> S]
  BY DEF SetToSeqs
<1> HIDE DEF S
<1>6. order \in [1..Cardinality(S) -> Event]
  BY <1>1, <1>5
<1> QED
  BY <1>4, <1>6

\* What getEventsSentAtOrAfterAndRemove() leaves and takes away.
LEMMA OutputSplit ==
  ASSUME NEW o \in Object, output[o] \in Seq(Event), NEW t
  PROVE  KeptOutput(o, t) \in 0..Len(output[o]) /\ Cancelled(o, t) \in Seq(Event)
<1> DEFINE K == {k \in DOMAIN output[o] : output[o][k].send < t}
<1>1. KeptOutput(o, t) \in 0..Len(output[o])
  <2>1. K \in SUBSET (1..Len(output[o])) /\ Len(output[o]) \in Nat
    OBVIOUS
  <2>2. CASE K # {}
    <3>1. Max(K) \in K
      BY <2>1, <2>2, MaxIsGreatest
    <3> QED
      BY <2>1, <2>2, <3>1 DEF KeptOutput
  <2> QED
    BY <2>1, <2>2 DEF KeptOutput
<1>2. PICK from \in Nat \ {0} : Cancelled(o, t) = Reverse(SubSeq(output[o], from, Len(output[o])))
  BY <1>1 DEF Cancelled
<1>3. PICK x : x = SubSeq(output[o], from, Len(output[o]))
  OBVIOUS
<1>4. x \in Seq(Event)
  BY <1>3, SliceOf
<1>5. Reverse(x) \in Seq(Event)
  BY <1>4 DEF Reverse
<1> QED
  BY <1>1, <1>2, <1>3, <1>5
-----------------------------------------------------------------------------
(* The inductive invariant *)

Stage == {"idle", "peek", "straggler", "rollback", "cancel", "cancelFirst", "coast", "anti",
          "execute", "send", "sendFirst", "more", "update", "updateFirst"}

\* In the middle of insert(): the new event came first.
First == {"sendFirst", "cancelFirst"}

\* An unprocessed queue of o.
Pending(o) == {s \in Seq(EventsOf(o)) : Sorted(s)}

DataOK ==
    /\ DOMAIN unprocessed = Object /\ \A o \in Object : unprocessed[o] \in Pending(o)
    /\ DOMAIN processed = Object /\ \A o \in Object : processed[o] \in Seq(EventsOf(o))
    /\ output \in [Object -> Seq(Event)]
    /\ nextId \in [Object -> 0..MaxId]
    /\ todo \in [Thread -> Seq(Event)]
    /\ inbox \in Seq(Event)

ControlTypes ==
    /\ uLock \in [Object -> Thread \cup {NoOne}]
    /\ oLock \in [Object -> Worker \cup {NoOne}]
    /\ sLock \in [Queue -> Worker \cup {NoOne}]
    /\ obj \in [Thread -> Object \cup {NoOne}]
    /\ pc \in [Thread -> Stage]
    /\ scheduleQueue \in [Queue -> Seq(Event)]
    /\ DOMAIN lowestPos = Object

\* Where a thread may be without an object, and which locks it has there.
WhereOK ==
    \A t \in Thread :
      /\ t = Master => pc[t] \in {"send", "sendFirst"} /\ obj[t] = NoOne
      /\ t \in Worker => (obj[t] = NoOne <=> pc[t] \in {"idle", "peek"})
      /\ pc[t] = "peek" => sLock[QueueOfThread(t)] = t /\ scheduleQueue[QueueOfThread(t)] # <<>>
      /\ pc[t] \in {"rollback", "updateFirst"} => uLock[obj[t]] = t

\* The event e is the first of its object, unless a worker has the object: one that
\* coasts forward without the lock may have taken it.
InFront(e) ==
    oLock[e.dst] = NoOne => unprocessed[e.dst] # <<>> /\ Head(unprocessed[e.dst]) = e

\* A thread in the middle of insert() still has the queue, with the event in front.
InsertOK ==
    \A t \in Thread : pc[t] \in First =>
      /\ todo[t] # <<>>
      /\ uLock[Head(todo[t]).dst] = t
      /\ InFront(Head(todo[t]))

\* A worker owns its object, and whoever has an unprocessed queue has a reason to.
OwnersOK ==
    /\ \A t \in Worker : obj[t] # NoOne => oLock[obj[t]] = t
    /\ \A o \in Object : uLock[o] # NoOne =>
         \/ obj[uLock[o]] = o
         \/ pc[uLock[o]] \in First /\ Head(todo[uLock[o]]).dst = o

\* The entries of a schedule queue are the positions its objects know of.
QueueOK(q, s, lowest) ==
    /\ Distinct(s)
    /\ \A k \in 1..Len(s) : QueueOfObject(s[k].dst) = q /\ s[k] = lowest[s[k].dst]

PositionOK(o, s, pos) == pos = End \/ (pos \in EventsOf(o) /\ \E k \in 1..Len(s) : s[k] = pos)

EntriesOK ==
    /\ \A q \in Queue : QueueOK(q, scheduleQueue[q], lowestPos)
    /\ \A o \in Object : PositionOK(o, scheduleQueue[QueueOfObject(o)], lowestPos[o])

FirstOf(s) == IF s = <<>> THEN End ELSE Head(s)

\* An object that a worker has is not scheduled; one that nobody touches is, exactly.
ExactOK ==
    \A o \in Object :
      /\ oLock[o] # NoOne => lowestPos[o] = End
      /\ oLock[o] = NoOne /\ uLock[o] = NoOne => lowestPos[o] = FirstOf(unprocessed[o])

ControlOK == ControlTypes /\ WhereOK /\ InsertOK /\ OwnersOK /\ EntriesOK /\ ExactOK

ScheduleInv == DataOK /\ ControlOK

LEMMA Constants ==
  /\ \A t \in Thread : t \in Nat /\ t # NoOne /\ (t \in Worker <=> t # Master)
  /\ \A o \in Object : o \in Nat /\ o # NoOne /\ QueueOfObject(o) \in Queue
  /\ \A t \in Worker : t \in Thread /\ QueueOfThread(t) \in Queue
  /\ Master \in Thread
<1>1. ASSUME NEW a \in Int PROVE a % QueueCount \in Queue
  BY QueueAssumption DEF Queue
<1>2. \A t \in Worker : t \in Nat /\ t # 0 /\ t - 1 \in Int
  BY ThreadAssumption
<1>3. \A o \in Object : o \in Nat /\ o \in Int
  BY ThreadAssumption
<1> QED
  BY <1>1, <1>2, <1>3 DEF Thread, Master, NoOne, QueueOfObject, QueueOfThread

LEMMA NotEnd == \A e \in Event : e # End
<1>1. ASSUME NEW e \in Event PROVE e # End
  <2>1. e.recv \in Nat
    BY DEF Event
  <2>2. End.recv = -1
    BY DEF End
  <2> QED
    BY <2>1, <2>2
<1> QED
  BY <1>1

\* Thread t works on its object o, whose queue it may lock or leaves as it is, and is
\* at 'stage' then.
WorksOn(t, o, l, new, stage, td) ==
    /\ obj[t] = o /\ pc[t] \notin First \cup {"idle", "peek"}
    /\ (CanLock(uLock[o], t) /\ l \in {NoOne, t}) \/ l = uLock[o]
    /\ new \in Pending(o)
    /\ stage \in Stage \ (First \cup {"idle", "peek"})
    /\ stage \in {"rollback", "updateFirst"} => l = t
    /\ DOMAIN unprocessed' = Object
    /\ \A x \in Object : unprocessed'[x] = IF x = o THEN new ELSE unprocessed[x]
    /\ uLock' \in [Object -> Thread \cup {NoOne}]
    /\ \A x \in Object : uLock'[x] = IF x = o THEN l ELSE uLock[x]
    /\ pc' = [pc EXCEPT ![t] = stage]
    /\ todo' \in [Thread -> Seq(Event)]
    /\ \A u \in Thread : todo'[u] = IF u = t THEN td ELSE todo[u]
    /\ UNCHANGED <<queueVars, oLock, sLock, obj>>

LEMMA WorksOnStep ==
  ASSUME ScheduleInv, NEW t \in Worker, NEW o \in Object,
         NEW l, NEW new, NEW stage, NEW td, WorksOn(t, o, l, new, stage, td)
  PROVE  /\ ControlOK'
         /\ DOMAIN unprocessed' = Object /\ \A x \in Object : unprocessed'[x] \in Pending(x)
         /\ todo' \in [Thread -> Seq(Event)]
<1> USE DEF ScheduleInv, ControlOK
<1>1. t \in Thread /\ t # NoOne /\ t # Master
  BY Constants DEF Thread
<1>2. /\ \A x \in Object : unprocessed'[x] = IF x = o THEN new ELSE unprocessed[x]
      /\ \A x \in Object : uLock'[x] = IF x = o THEN l ELSE uLock[x]
      /\ DOMAIN unprocessed' = Object
  BY DEF WorksOn, DataOK, ControlTypes
<1>3. /\ \A u \in Thread : pc'[u] = IF u = t THEN stage ELSE pc[u]
      /\ \A u \in Thread : todo'[u] = IF u = t THEN td ELSE todo[u]
      /\ todo' \in [Thread -> Seq(Event)]
  BY <1>1 DEF WorksOn, DataOK, ControlTypes
<1>4. /\ scheduleQueue' = scheduleQueue /\ lowestPos' = lowestPos /\ oLock' = oLock
      /\ sLock' = sLock /\ obj' = obj
  BY DEF WorksOn, queueVars
<1>5. /\ obj[t] = o /\ pc[t] \notin First \cup {"idle", "peek"}
      /\ (uLock[o] \in {NoOne, t} /\ l \in {NoOne, t}) \/ l = uLock[o]
      /\ new \in Pending(o) /\ stage \in Stage \ (First \cup {"idle", "peek"})
      /\ stage \in {"rollback", "updateFirst"} => l = t
  BY DEF WorksOn, CanLock
<1>6. ControlTypes'
  <2>1. uLock' \in [Object -> Thread \cup {NoOne}]
    BY <1>1, <1>5 DEF WorksOn, ControlTypes
  <2>2. pc' \in [Thread -> Stage]
    BY <1>1, <1>5 DEF WorksOn, ControlTypes
  <2> QED
    BY <1>4, <2>1, <2>2 DEF ControlTypes
<1>7. oLock[o] = t /\ o # NoOne
  BY <1>5, Constants DEF OwnersOK
<1>8. WhereOK'
  <2> SUFFICES ASSUME NEW u \in Thread
               PROVE  /\ u = Master => pc'[u] \in {"send", "sendFirst"} /\ obj[u] = NoOne
                      /\ u \in Worker => (obj[u] = NoOne <=> pc'[u] \in {"idle", "peek"})
                      /\ pc'[u] = "peek" => /\ sLock[QueueOfThread(u)] = u
                                            /\ scheduleQueue[QueueOfThread(u)] # <<>>
                      /\ pc'[u] \in {"rollback", "updateFirst"} => uLock'[obj[u]] = u
    BY <1>4 DEF WhereOK
  <2>1. CASE u = t
    BY <1>1, <1>2, <1>3, <1>5, <1>7, <2>1
  <2>2. CASE u # t
    <3>1. pc'[u] = pc[u]
      BY <1>3, <2>2
    <3>2. ASSUME pc[u] \in {"rollback", "updateFirst"} PROVE uLock'[obj[u]] = u
      <4>1. uLock[obj[u]] = u
        BY <3>2 DEF WhereOK
      <4>2. u \in Worker /\ obj[u] # NoOne
        BY <3>2, Constants DEF WhereOK
      <4>3. obj[u] \in Object
        BY <4>2 DEF ControlTypes
      <4>4. obj[u] # o
        BY <1>7, <2>2, <4>2 DEF OwnersOK
      <4> QED
        BY <1>2, <4>1, <4>3, <4>4
    <3> QED
      BY <3>1, <3>2 DEF WhereOK
  <2> QED
    BY <2>1, <2>2
<1>9. InsertOK'
  <2> SUFFICES ASSUME NEW u \in Thread, pc'[u] \in First
               PROVE  /\ todo'[u] # <<>>
                      /\ uLock'[Head(todo'[u]).dst] = u
                      /\ InFront(Head(todo[u]))'
    BY DEF InsertOK
  <2>1. u # t /\ pc[u] \in First /\ todo'[u] = todo[u]
    BY <1>3, <1>5
  <2>2. PICK e : e = Head(todo[u])
    OBVIOUS
  <2>3. todo[u] # <<>> /\ uLock[e.dst] = u /\ InFront(e)
    BY <2>1, <2>2 DEF InsertOK
  <2>4. e.dst \in Object
    <3>1. todo[u] \in Seq(Event)
      BY DEF DataOK
    <3>2. Head(todo[u]) \in Event
      BY <2>3, <3>1, TailOf
    <3> QED
      BY <2>2, <3>2 DEF Event
  <2>5. CASE e.dst = o
    <3>1. uLock'[o] = u
      BY <1>2, <1>5, <2>1, <2>3, <2>5, Constants
    <3>2. InFront(e)'
      BY <1>1, <1>4, <1>7, <2>5 DEF InFront
    <3> QED
      BY <2>1, <2>2, <2>3, <2>5, <3>1, <3>2
  <2>6. CASE e.dst # o
    <3>1. uLock'[e.dst] = u /\ unprocessed'[e.dst] = unprocessed[e.dst]
      BY <1>2, <2>3, <2>4, <2>6
    <3>2. InFront(e)'
      BY <1>4, <2>3, <3>1 DEF InFront
    <3> QED
      BY <2>1, <2>2, <2>3, <3>1, <3>2
  <2> QED
    BY <2>5, <2>6
<1>10. OwnersOK'
  <2>1. \A u \in Worker : obj'[u] # NoOne => oLock'[obj'[u]] = u
    BY <1>4 DEF OwnersOK
  <2>2. ASSUME NEW x \in Object, uLock'[x] # NoOne
        PROVE  \/ obj[uLock'[x]] = x
               \/ pc'[uLock'[x]] \in First /\ Head(todo'[uLock'[x]]).dst = x
    <3>1. CASE x = o /\ uLock'[o] = t
      BY <1>5, <3>1
    <3>2. CASE x # o \/ uLock'[o] # t
      <4>1. uLock'[x] = uLock[x] /\ uLock[x] \in Thread
        BY <1>2, <1>5, <2>2, <3>2 DEF ControlTypes
      <4>2. \/ obj[uLock[x]] = x
            \/ pc[uLock[x]] \in First /\ Head(todo[uLock[x]]).dst = x
        BY <2>2, <4>1 DEF OwnersOK
      <4> QED
        BY <1>3, <1>5, <4>1, <4>2
    <3> QED
      BY <3>1, <3>2
  <2> QED
    BY <1>4, <2>1, <2>2 DEF OwnersOK
<1>11. EntriesOK'
  BY <1>4 DEF EntriesOK
<1>12. ExactOK'
  <2> SUFFICES ASSUME NEW x \in Object
               PROVE  /\ oLock[x] # NoOne => lowestPos[x] = End
                      /\ oLock[x] = NoOne /\ uLock'[x] = NoOne => lowestPos[x] = FirstOf(unprocessed'[x])
    BY <1>4 DEF ExactOK
  <2>1. CASE x = o
    BY <1>1, <1>7, <2>1 DEF ExactOK
  <2>2. CASE x # o
    BY <1>2, <2>2 DEF ExactOK
  <2> QED
    BY <2>1, <2>2
<1>13. \A x \in Object : unprocessed'[x] \in Pending(x)
  BY <1>2, <1>5 DEF DataOK
<1> QED
  BY <1>2, <1>3, <1>6, <1>8, <1>9, <1>10, <1>11, <1>12, <1>13
-----------------------------------------------------------------------------
(* The steps of a worker that has an object *)

LEMMA HasObject ==
  ASSUME ScheduleInv, NEW t \in Worker, pc[t] \notin {"idle", "peek"}
  PROVE  obj[t] \in Object /\ t \in Thread
BY Constants DEF ScheduleInv, ControlOK, WhereOK, ControlTypes

LEMMA PendingFacts ==
  ASSUME NEW o \in Object, NEW s \in Pending(o)
  PROVE  /\ s \in Seq(EventsOf(o)) /\ s \in Seq(Event) /\ Sorted(s)
         /\ s # <<>> => Tail(s) \in Pending(o) /\ Head(s) \in EventsOf(o)
<1>1. s \in Seq(EventsOf(o)) /\ Sorted(s)
  BY DEF Pending
<1>2. EventsOf(o) \in SUBSET Event
  BY DEF EventsOf
<1>3. s \in Seq(Event)
  BY <1>1, <1>2
<1>4. ASSUME s # <<>> PROVE Tail(s) \in Pending(o) /\ Head(s) \in EventsOf(o)
  <2>1. Tail(s) \in Seq(EventsOf(o)) /\ Head(s) \in EventsOf(o)
    BY <1>1, <1>4, TailOf
  <2>2. Sorted(Tail(s))
    BY <1>1, <1>3, <1>4, TailSorted
  <2> QED
    BY <2>1, <2>2 DEF Pending
<1> QED
  BY <1>1, <1>3, <1>4

\* The part of the data that no step of the kind above touches.
LEMMA DataKept ==
  ASSUME DataOK, DOMAIN unprocessed' = Object, \A x \in Object : unprocessed'[x] \in Pending(x),
         todo' \in [Thread -> Seq(Event)], UNCHANGED <<processed, output, nextId, inbox>>
  PROVE  DataOK'
BY DEF DataOK

LEMMA GetEventIfStragglerStep ==
  ASSUME ScheduleInv, NEW t \in Worker, GetEventIfStraggler(t)
  PROVE  ScheduleInv'
<1>1. PICK o \in Object : o = obj[t]
  BY HasObject DEF GetEventIfStraggler
<1>2. unprocessed[o] \in Pending(o) /\ DOMAIN unprocessed = Object
  BY DEF ScheduleInv, DataOK
<1>3. t \in Thread
  BY Constants
<1>4. \E l, new, stage : WorksOn(t, o, l, new, stage, todo[t])
  <2>1. CASE unprocessed[o] = <<>> \/ (~Head(unprocessed[o]).neg /\ Head(unprocessed[o]).recv >= time[o])
    <3>1. WorksOn(t, o, NoOne, unprocessed[o], "execute", todo[t])
      BY <1>1, <1>2, <1>3, <2>1 DEF WorksOn, GetEventIfStraggler, CanLock, Stage, First,
                                    ScheduleInv, ControlOK, ControlTypes, DataOK
    <3> QED
      BY <3>1
  <2>2. CASE ~(unprocessed[o] = <<>> \/ (~Head(unprocessed[o]).neg /\ Head(unprocessed[o]).recv >= time[o]))
    <3>1. PICK new \in Pending(o) :
             new = IF Head(unprocessed[o]).neg THEN Tail(unprocessed[o]) ELSE unprocessed[o]
      BY <1>2, <2>2, PendingFacts
    <3>2. PICK stage \in {"rollback", "anti"} :
             stage = IF Head(unprocessed[o]).recv < time[o] THEN "rollback" ELSE "anti"
      OBVIOUS
    <3>3. /\ unprocessed' = IF Head(unprocessed[o]).neg
                              THEN [unprocessed EXCEPT ![o] = Tail(unprocessed[o])] ELSE unprocessed
          /\ uLock' = [uLock EXCEPT ![o] = t] /\ pc' = [pc EXCEPT ![t] = stage]
          /\ todo' = todo /\ UNCHANGED <<queueVars, oLock, sLock, obj>>
          /\ pc[t] = "straggler" /\ CanLock(uLock[o], t)
      BY <1>1, <2>2, <3>2 DEF GetEventIfStraggler
    <3>4. DOMAIN unprocessed' = Object /\ \A x \in Object : unprocessed'[x] = IF x = o THEN new ELSE unprocessed[x]
      BY <1>2, <3>1, <3>3
    <3>5. WorksOn(t, o, t, new, stage, todo[t])
      BY <1>1, <1>3, <3>2, <3>3, <3>4 DEF WorksOn, Stage, First, ScheduleInv, ControlOK, ControlTypes, DataOK
    <3> QED
      BY <3>5
  <2> QED
    BY <2>1, <2>2
<1>5. UNCHANGED <<processed, output, nextId, inbox>>
  BY DEF GetEventIfStraggler, objectVars
<1> QED
  BY <1>4, <1>5, WorksOnStep, DataKept DEF ScheduleInv

\* What handleAntiMessage() looks through and leaves in the queue.
LEMMA AnnihilatedFrom ==
  ASSUME NEW o \in Object, unprocessed[o] \in Pending(o), NEW c
  PROVE  \E K \in SUBSET (1..Len(unprocessed[o])) :
           /\ Annihilated(o, c) = Multiset(unprocessed[o], K)
           /\ \A k \in (1..Len(unprocessed[o])) \ K :
                <<unprocessed[o][k].src, unprocessed[o][k].id>> = c
<1>1. PICK m \in Seq(Event) : m = unprocessed[o]
  BY PendingFacts
<1> DEFINE found == {k \in DOMAIN m : ~m[k].neg /\ <<m[k].src, m[k].id>> = c}
           gone == IF found = {} THEN {} ELSE {Min(found)}
<1>2. DOMAIN m = 1..Len(m) /\ Len(m) \in Nat
  OBVIOUS
<1>3. Annihilated(o, c) = Multiset(m, (1..Len(m)) \ gone)
  BY <1>1, <1>2 DEF Annihilated
<1>4. gone \in SUBSET found
  <2>1. CASE found # {}
    <3>1. found \in SUBSET (1..Len(m))
      BY <1>2
    <3>2. Min(found) \in found
      <4>1. found \in SUBSET Nat
        BY <1>2, <3>1
      <4> HIDE DEF found
      <4> QED
        BY <2>1, <4>1, MinIsLeast
    <3> QED
      BY <3>2
  <2> QED
    BY <2>1
<1>5. \A k \in gone : <<m[k].src, m[k].id>> = c
  BY <1>4
<1> HIDE DEF gone
<1> QED
  BY <1>1, <1>3, <1>5

LEMMA HandleAntiMessageStep ==
  ASSUME ScheduleInv, NEW t \in Worker, HandleAntiMessage(t)
  PROVE  ScheduleInv'
<1>1. PICK o \in Object : o = obj[t]
  BY HasObject DEF HandleAntiMessage
<1>2. unprocessed[o] \in Pending(o) /\ DOMAIN unprocessed = Object
  BY DEF ScheduleInv, DataOK
<1>3. t \in Thread
  BY Constants
<1>4. PICK c : /\ unprocessed' = [unprocessed EXCEPT ![o] = Annihilated(o, c)]
               /\ pc' = [pc EXCEPT ![t] = IF straggler[t].cancels = {c} THEN "update" ELSE "anti"]
  BY <1>1 DEF HandleAntiMessage
<1>5. PICK new \in Pending(o) : new = Annihilated(o, c)
  <2>1. PICK K \in SUBSET (1..Len(unprocessed[o])) : Annihilated(o, c) = Multiset(unprocessed[o], K)
    BY <1>2, AnnihilatedFrom
  <2>2. EventsOf(o) \in SUBSET Event /\ unprocessed[o] \in Seq(EventsOf(o))
    BY <1>2, PendingFacts DEF EventsOf
  <2>3. Multiset(unprocessed[o], K) \in Pending(o)
    BY <2>2, MultisetOK DEF Pending
  <2> QED
    BY <2>1, <2>3
<1>6. PICK stage \in {"update", "anti"} : pc' = [pc EXCEPT ![t] = stage]
  BY <1>4
<1>7. WorksOn(t, o, NoOne, new, stage, todo[t])
  BY <1>1, <1>2, <1>3, <1>4, <1>5, <1>6 DEF WorksOn, HandleAntiMessage, CanLock, Stage, First,
                                            ScheduleInv, ControlOK, ControlTypes, DataOK
<1>8. UNCHANGED <<processed, output, nextId, inbox>>
  BY DEF HandleAntiMessage, objectVars
<1> QED
  BY <1>7, <1>8, WorksOnStep, DataKept DEF ScheduleInv

LEMMA UpdateLockStep ==
  ASSUME ScheduleInv, NEW t \in Worker, UpdateLock(t)
  PROVE  ScheduleInv'
<1>1. PICK o \in Object : o = obj[t]
  BY HasObject DEF UpdateLock
<1>2. unprocessed[o] \in Pending(o) /\ DOMAIN unprocessed = Object
  BY DEF ScheduleInv, DataOK
<1>3. t \in Thread
  BY Constants
<1>4. WorksOn(t, o, t, unprocessed[o], "updateFirst", todo[t])
  BY <1>1, <1>2, <1>3 DEF WorksOn, UpdateLock, CanLock, Stage, First,
                          ScheduleInv, ControlOK, ControlTypes, DataOK
<1>5. UNCHANGED <<processed, output, nextId, inbox>>
  BY DEF UpdateLock, objectVars
<1> QED
  BY <1>4, <1>5, WorksOnStep, DataKept DEF ScheduleInv

LEMMA HaveMoreEventsStep ==
  ASSUME ScheduleInv, NEW t \in Worker, HaveMoreEvents(t)
  PROVE  ScheduleInv'
<1>1. PICK o \in Object : o = obj[t]
  BY HasObject DEF HaveMoreEvents
<1>2. unprocessed[o] \in Pending(o) /\ DOMAIN unprocessed = Object
  BY DEF ScheduleInv, DataOK
<1>3. t \in Thread
  BY Constants
<1>4. PICK stage \in {"more", "update"} : pc' = [pc EXCEPT ![t] = stage]
  BY DEF HaveMoreEvents
<1>5. WorksOn(t, o, uLock[o], unprocessed[o], stage, todo[t])
  BY <1>1, <1>2, <1>3, <1>4 DEF WorksOn, HaveMoreEvents, CanLock, Stage, First,
                                ScheduleInv, ControlOK, ControlTypes, DataOK
<1>6. UNCHANGED <<processed, output, nextId, inbox>>
  BY DEF HaveMoreEvents, objectVars
<1> QED
  BY <1>5, <1>6, WorksOnStep, DataKept DEF ScheduleInv

\* handleEvent() makes events, with numbers from the object's counter on.
LEMMA SendsAreEvents ==
  ASSUME NEW o \in Object, nextId[o] \in Nat, NEW t \in Nat, NEW cs \in Seq(Message)
  PROVE  Sends(o, t, cs) \in Seq(Event) /\ Len(Sends(o, t, cs)) = Len(cs)
<1>1. ASSUME NEW k \in 1..Len(cs)
      PROVE  NewEvent(o, cs[k].dst, t, cs[k].recv, nextId[o] + k - 1) \in Event
  <2>1. cs[k] \in Message /\ nextId[o] + k - 1 \in Nat /\ o \in Nat
    BY ThreadAssumption
  <2>2. cs[k].dst \in Object /\ cs[k].recv \in Nat
    BY <2>1 DEF Message
  <2> QED
    BY <2>1, <2>2 DEF NewEvent, Event
<1>2. DOMAIN cs = 1..Len(cs) /\ Len(cs) \in Nat
  OBVIOUS
<1>3. Sends(o, t, cs) = [k \in 1..Len(cs) |-> NewEvent(o, cs[k].dst, t, cs[k].recv, nextId[o] + k - 1)]
  BY <1>2 DEF Sends
<1>4. Sends(o, t, cs) \in [1..Len(cs) -> Event]
  BY <1>1, <1>3
<1> QED
  BY <1>2, <1>4

LEMMA ExecuteFirstStep ==
  ASSUME AppOK, ScheduleInv, NEW t \in Worker, NEW o \in Object, obj[t] = o,
         pc[t] \in {"execute", "more"}, CanLock(uLock[o], t), unprocessed[o] # <<>>,
         ExecuteFirst(t, o), UNCHANGED <<queueVars, oLock, sLock, obj, inbox>>
  PROVE  ScheduleInv'
<1>1. unprocessed[o] \in Pending(o) /\ DOMAIN unprocessed = Object /\ t \in Thread
  BY Constants DEF ScheduleInv, DataOK
<1>2. Tail(unprocessed[o]) \in Pending(o) /\ Head(unprocessed[o]) \in EventsOf(o)
  BY <1>1, PendingFacts
<1>3. PICK e \in EventsOf(o) : e = Head(unprocessed[o])
  BY <1>2
<1>4. e \in Event /\ e.recv \in Nat
  BY DEF EventsOf, Event
<1>5. App(o, e.recv) \in Seq(Message) /\ nextId[o] \in Nat
  <2>1. nextId[o] \in 0..MaxId
    BY DEF ScheduleInv, DataOK
  <2>2. App(o, e.recv) \in Seq(Message)
    BY <1>4 DEF AppOK
  <2> QED
    BY <2>1, <2>2, BoundAssumption
<1>6. PICK out \in Seq(Event) : out = Sends(o, e.recv, App(o, e.recv))
  BY <1>4, <1>5, SendsAreEvents
<1>7. /\ nextId[o] + Len(out) <= MaxId
      /\ unprocessed' = [unprocessed EXCEPT ![o] = Tail(unprocessed[o])]
      /\ processed' = [processed EXCEPT ![o] = Append(processed[o], e)]
      /\ output' = [output EXCEPT ![o] = output[o] \o out]
      /\ nextId' = [nextId EXCEPT ![o] = nextId[o] + Len(out)]
      /\ todo' = [todo EXCEPT ![t] = out]
      /\ uLock' = [uLock EXCEPT ![o] = NoOne]
      /\ pc' = [pc EXCEPT ![t] = "send"]
  BY <1>3, <1>6 DEF ExecuteFirst, ScheduleInv, DataOK
<1>8. WorksOn(t, o, NoOne, Tail(unprocessed[o]), "send", out)
  BY <1>1, <1>2, <1>7 DEF WorksOn, CanLock, Stage, First, ScheduleInv, ControlOK, ControlTypes, DataOK
<1>9. /\ ControlOK' /\ DOMAIN unprocessed' = Object /\ todo' \in [Thread -> Seq(Event)]
      /\ \A x \in Object : unprocessed'[x] \in Pending(x)
  BY <1>8, WorksOnStep
<1>10. DOMAIN processed' = Object /\ \A x \in Object : processed'[x] \in Seq(EventsOf(x))
  <2>1. Append(processed[o], e) \in Seq(EventsOf(o))
    BY DEF ScheduleInv, DataOK
  <2> QED
    BY <1>7, <2>1 DEF ScheduleInv, DataOK
<1>11. output' \in [Object -> Seq(Event)]
  <2>1. output[o] \o out \in Seq(Event)
    BY DEF ScheduleInv, DataOK
  <2> QED
    BY <1>7, <2>1 DEF ScheduleInv, DataOK
<1>12. nextId' \in [Object -> 0..MaxId]
  <2>1. Len(out) \in Nat
    OBVIOUS
  <2>2. nextId[o] + Len(out) \in 0..MaxId
    BY <1>5, <1>7, <2>1, BoundAssumption
  <2> QED
    BY <1>7, <2>2 DEF ScheduleInv, DataOK
<1> QED
  BY <1>9, <1>10, <1>11, <1>12 DEF ScheduleInv, DataOK

LEMMA ExecuteProcessStep ==
  ASSUME AppOK, ScheduleInv, NEW t \in Worker, ExecuteProcess(t)
  PROVE  ScheduleInv'
<1>1. PICK o \in Object : o = obj[t]
  BY HasObject DEF ExecuteProcess
<1>2. unprocessed[o] \in Pending(o) /\ DOMAIN unprocessed = Object /\ t \in Thread
  BY Constants DEF ScheduleInv, DataOK
<1>3. CASE Executable(o)
  <2>1. /\ ExecuteFirst(t, o) /\ CanLock(uLock[o], t) /\ pc[t] = "execute"
        /\ UNCHANGED <<queueVars, oLock, sLock, obj, inbox>>
    BY <1>1, <1>3 DEF ExecuteProcess
  <2> QED
    BY <1>1, <1>3, <2>1, ExecuteFirstStep DEF Executable
<1>4. CASE ~Executable(o)
  <2>1. PICK l \in {NoOne, t} : l = IF unprocessed[o] = <<>> THEN t ELSE NoOne
    OBVIOUS
  <2>2. /\ uLock' = [uLock EXCEPT ![o] = l] /\ pc' = [pc EXCEPT ![t] = "update"]
        /\ UNCHANGED <<unprocessed, processed, output, nextId, todo, inbox, queueVars, oLock, sLock, obj>>
        /\ CanLock(uLock[o], t) /\ pc[t] = "execute"
    BY <1>1, <1>4, <2>1 DEF ExecuteProcess
  <2>3. WorksOn(t, o, l, unprocessed[o], "update", todo[t])
    BY <1>1, <1>2, <2>1, <2>2 DEF WorksOn, Stage, First, ScheduleInv, ControlOK, ControlTypes, DataOK
  <2> QED
    BY <2>2, <2>3, WorksOnStep, DataKept DEF ScheduleInv
<1> QED
  BY <1>3, <1>4

LEMMA GetEventStep ==
  ASSUME AppOK, ScheduleInv, NEW t \in Worker, GetEvent(t)
  PROVE  ScheduleInv'
<1>1. PICK o \in Object : o = obj[t]
  BY HasObject DEF GetEvent
<1>2. unprocessed[o] \in Pending(o) /\ DOMAIN unprocessed = Object /\ t \in Thread
  BY Constants DEF ScheduleInv, DataOK
<1>3. CASE Executable(o)
  <2>1. /\ ExecuteFirst(t, o) /\ CanLock(uLock[o], t) /\ pc[t] = "more"
        /\ UNCHANGED <<queueVars, oLock, sLock, obj, inbox>>
    BY <1>1, <1>3 DEF GetEvent
  <2> QED
    BY <1>1, <1>3, <2>1, ExecuteFirstStep DEF Executable
<1>4. CASE ~Executable(o)
  <2>1. /\ uLock' = [uLock EXCEPT ![o] = NoOne] /\ pc' = [pc EXCEPT ![t] = "send"]
        /\ UNCHANGED <<unprocessed, processed, output, nextId, todo, inbox, queueVars, oLock, sLock, obj>>
        /\ CanLock(uLock[o], t) /\ pc[t] = "more"
    BY <1>1, <1>4 DEF GetEvent
  <2>2. WorksOn(t, o, NoOne, unprocessed[o], "send", todo[t])
    BY <1>1, <1>2, <2>1 DEF WorksOn, Stage, First, ScheduleInv, ControlOK, ControlTypes, DataOK
  <2> QED
    BY <2>1, <2>2, WorksOnStep, DataKept DEF ScheduleInv
<1> QED
  BY <1>3, <1>4

LEMMA RollbackStep ==
  ASSUME ScheduleInv, NEW t \in Worker, Rollback(t)
  PROVE  ScheduleInv'
<1>1. PICK o \in Object : o = obj[t]
  BY HasObject DEF Rollback
<1>2. /\ unprocessed[o] \in Pending(o) /\ DOMAIN unprocessed = Object /\ t \in Thread
      /\ processed[o] \in Seq(EventsOf(o)) /\ output[o] \in Seq(Event)
  BY Constants DEF ScheduleInv, DataOK
<1>3. pc[t] = "rollback" /\ uLock[o] = t
  BY <1>1, <1>2 DEF Rollback, ScheduleInv, ControlOK, WhereOK
<1>4. PICK kept \in 0..Len(processed[o]) :
         /\ processed' = [processed EXCEPT ![o] = SubSeq(processed[o], 1, kept)]
         /\ unprocessed' = [unprocessed EXCEPT ![o] = InsertedAll(unprocessed[o], Returned(o, kept))]
  BY <1>1, <1>2 DEF Rollback, ScheduleInv, DataOK
<1>5. /\ Returned(o, kept) \in Seq(EventsOf(o))
      /\ SubSeq(processed[o], 1, kept) \in Seq(EventsOf(o))
  <2>1. kept + 1 \in Nat \ {0} /\ 1 \in Nat \ {0} /\ Len(processed[o]) \in 0..Len(processed[o])
    BY <1>2
  <2> QED
    BY <1>2, <2>1, SliceOf DEF Returned
<1>6. PICK new \in Pending(o) : new = InsertedAll(unprocessed[o], Returned(o, kept))
  <2>1. EventsOf(o) \in SUBSET Event /\ unprocessed[o] \in Seq(EventsOf(o))
    BY <1>2, PendingFacts DEF EventsOf
  <2> QED
    BY <1>5, <2>1, InsertedAllOK DEF Pending
<1>7. PICK rt : rt = straggler[t].recv
  OBVIOUS
<1>8. PICK order \in SetToSeqs(Stragglers(Cancelled(o, rt))) : todo' = [todo EXCEPT ![t] = order]
  BY <1>1, <1>7 DEF Rollback
<1>9. /\ output' = [output EXCEPT ![o] = SubSeq(output[o], 1, KeptOutput(o, rt))]
      /\ pc' = [pc EXCEPT ![t] = "cancel"]
      /\ UNCHANGED <<nextId, queueVars, uLock, oLock, sLock, obj, inbox>>
  BY <1>1, <1>7 DEF Rollback
<1>10. KeptOutput(o, rt) \in 0..Len(output[o]) /\ order \in Seq(Event)
  BY <1>2, <1>8, OutputSplit, StragglersOrdered
<1>11. DOMAIN unprocessed' = Object /\ \A x \in Object : unprocessed'[x] = IF x = o THEN new ELSE unprocessed[x]
  BY <1>2, <1>4, <1>6
<1>12. todo' \in [Thread -> Seq(Event)] /\ \A u \in Thread : todo'[u] = IF u = t THEN order ELSE todo[u]
  BY <1>2, <1>8, <1>10 DEF ScheduleInv, DataOK
<1>13. WorksOn(t, o, t, new, "cancel", order)
  BY <1>1, <1>2, <1>3, <1>9, <1>11, <1>12
     DEF WorksOn, CanLock, Stage, First, ScheduleInv, ControlOK, ControlTypes
<1>14. /\ ControlOK' /\ DOMAIN unprocessed' = Object
       /\ \A x \in Object : unprocessed'[x] \in Pending(x)
  BY <1>13, WorksOnStep
<1>15. DOMAIN processed' = Object /\ \A x \in Object : processed'[x] \in Seq(EventsOf(x))
  BY <1>4, <1>5 DEF ScheduleInv, DataOK
<1>16. output' \in [Object -> Seq(Event)]
  <2>1. SubSeq(output[o], 1, KeptOutput(o, rt)) \in Seq(Event)
    BY <1>2, <1>10, SliceOf
  <2> QED
    BY <1>9, <2>1 DEF ScheduleInv, DataOK
<1> QED
  BY <1>9, <1>12, <1>14, <1>15, <1>16 DEF ScheduleInv, DataOK

LEMMA CoastForwardStep ==
  ASSUME ScheduleInv, NEW t \in Worker, CoastForward(t)
  PROVE  ScheduleInv'
<1>1. PICK o \in Object : o = obj[t]
  BY HasObject DEF CoastForward
<1>2. unprocessed[o] \in Pending(o) /\ DOMAIN unprocessed = Object /\ t \in Thread
  BY Constants DEF ScheduleInv, DataOK
<1>3. /\ pc[t] = "cancel" /\ CanLock(uLock[o], t)
      /\ UNCHANGED <<unprocessed, processed, output, nextId, queueVars, oLock, sLock, obj, todo, inbox>>
  BY <1>1 DEF CoastForward
<1>4. PICK l \in {NoOne, t} : uLock' = [uLock EXCEPT ![o] = l]
  BY <1>1 DEF CoastForward, CanLock, ScheduleInv, ControlOK, ControlTypes
<1>5. PICK stage \in {"coast", "anti", "update"} : pc' = [pc EXCEPT ![t] = stage]
  BY DEF CoastForward
<1>6. WorksOn(t, o, l, unprocessed[o], stage, todo[t])
  BY <1>1, <1>2, <1>3, <1>4, <1>5
  DEF WorksOn, Stage, First, ScheduleInv, ControlOK, ControlTypes, DataOK
<1> QED
  BY <1>3, <1>6, WorksOnStep, DataKept DEF ScheduleInv

\* Whether or not the worker has the queue: nobody else touches what it takes.
LEMMA GetEventWhileRollbackStep ==
  ASSUME ScheduleInv, NEW t \in Worker, GetEventWhileRollback(t)
  PROVE  ScheduleInv'
<1>1. PICK o \in Object : o = obj[t]
  BY HasObject DEF GetEventWhileRollback
<1>2. /\ unprocessed[o] \in Pending(o) /\ DOMAIN unprocessed = Object /\ t \in Thread
      /\ processed[o] \in Seq(EventsOf(o))
  BY Constants DEF ScheduleInv, DataOK
<1>3. /\ pc[t] = "coast" /\ pc' = [pc EXCEPT ![t] = "cancel"]
      /\ UNCHANGED <<output, nextId, queueVars, oLock, sLock, obj, todo, inbox>>
  BY DEF GetEventWhileRollback
<1>4. CASE Executable(o)
  <2>1. unprocessed[o] # <<>> /\ uLock' = uLock
    BY <1>1, <1>4 DEF GetEventWhileRollback, Executable
  <2>2. PICK e \in EventsOf(o) : e = Head(unprocessed[o])
    BY <1>2, <2>1, PendingFacts
  <2>3. PICK new \in Pending(o) : new = Tail(unprocessed[o])
    BY <1>2, <2>1, PendingFacts
  <2>4. /\ unprocessed' = [unprocessed EXCEPT ![o] = new]
        /\ processed' = [processed EXCEPT ![o] = Append(processed[o], e)]
    BY <1>1, <1>4, <2>2, <2>3 DEF GetEventWhileRollback
  <2>5. WorksOn(t, o, uLock[o], new, "cancel", todo[t])
    BY <1>1, <1>2, <1>3, <2>1, <2>4
    DEF WorksOn, Stage, First, ScheduleInv, ControlOK, ControlTypes, DataOK
  <2>6. ControlOK' /\ DOMAIN unprocessed' = Object /\ \A x \in Object : unprocessed'[x] \in Pending(x)
    BY <2>5, WorksOnStep
  <2>7. DOMAIN processed' = Object /\ \A x \in Object : processed'[x] \in Seq(EventsOf(x))
    <3>1. Append(processed[o], e) \in Seq(EventsOf(o))
      BY <1>2
    <3> QED
      BY <2>4, <3>1 DEF ScheduleInv, DataOK
  <2> QED
    BY <1>3, <2>6, <2>7 DEF ScheduleInv, DataOK
<1>5. CASE ~Executable(o)
  <2>1. PICK l : /\ l = IF uLock[o] = t THEN NoOne ELSE uLock[o]
                 /\ uLock' = [uLock EXCEPT ![o] = l]
    BY <1>1, <1>5 DEF GetEventWhileRollback
  <2>2. UNCHANGED <<unprocessed, processed>>
    BY <1>1, <1>5 DEF GetEventWhileRollback
  <2>3. (CanLock(uLock[o], t) /\ l \in {NoOne, t}) \/ l = uLock[o]
    BY <2>1 DEF CanLock
  <2>4. WorksOn(t, o, l, unprocessed[o], "cancel", todo[t])
    BY <1>1, <1>2, <1>3, <2>1, <2>2, <2>3
    DEF WorksOn, Stage, First, ScheduleInv, ControlOK, ControlTypes, DataOK
  <2> QED
    BY <1>3, <2>2, <2>4, WorksOnStep, DataKept DEF ScheduleInv
<1> QED
  BY <1>4, <1>5
-----------------------------------------------------------------------------
(* The steps that schedule and unschedule *)

LEMMA ReceiveKernelMessageStep ==
  ASSUME ScheduleInv, ReceiveKernelMessage
  PROVE  ScheduleInv'
<1> USE DEF ScheduleInv, ControlOK
<1>1. Master \in Thread /\ inbox \in Seq(Event) /\ inbox # <<>> /\ inbox' = Tail(inbox)
  BY Constants DEF ReceiveKernelMessage, DataOK
<1>2. Tail(inbox) \in Seq(Event) /\ Head(inbox) \in Event
  BY <1>1, TailOf
<1>3. PICK td \in Seq(Event) : td = IF Head(inbox).neg THEN <<>> ELSE <<Head(inbox)>>
  <2>1. <<>> \in Seq(Event) /\ <<Head(inbox)>> \in Seq(Event)
    BY <1>2
  <2> QED
    BY <2>1
<1>4. /\ todo' = [todo EXCEPT ![Master] = td] /\ todo[Master] = <<>>
      /\ UNCHANGED <<unprocessed, processed, output, nextId, scheduleQueue, lowestPos, uLock, oLock,
                     sLock, pc, obj>>
  BY <1>3 DEF ReceiveKernelMessage, objectVars, queueVars
<1>5. todo' \in [Thread -> Seq(Event)] /\ \A u \in Thread : u # Master => todo'[u] = todo[u]
  BY <1>1, <1>4 DEF DataOK
<1>6. pc[Master] \notin First
  BY <1>1, <1>4 DEF InsertOK
<1>7. DataOK'
  BY <1>1, <1>2, <1>4, <1>5 DEF DataOK
<1>8. InsertOK'
  BY <1>4, <1>5, <1>6 DEF InsertOK, InFront
<1>9. OwnersOK'
  <2>1. ASSUME NEW o \in Object, uLock[o] # NoOne
        PROVE  obj[uLock[o]] = o \/ (pc[uLock[o]] \in First /\ Head(todo'[uLock[o]]).dst = o)
    <3>1. uLock[o] \in Thread
      BY <2>1 DEF ControlTypes
    <3> QED
      BY <1>5, <1>6, <2>1, <3>1 DEF OwnersOK
  <2> QED
    BY <1>4, <2>1 DEF OwnersOK
<1>10. ControlTypes' /\ WhereOK' /\ EntriesOK' /\ ExactOK'
  BY <1>4 DEF ControlTypes, WhereOK, EntriesOK, ExactOK
<1> QED
  BY <1>7, <1>8, <1>9, <1>10

LEMMA PeekLockStep ==
  ASSUME ScheduleInv, NEW t \in Worker, PeekLock(t)
  PROVE  ScheduleInv'
<1> USE DEF ScheduleInv, ControlOK
<1>1. PICK q \in Queue : q = QueueOfThread(t)
  BY Constants
<1>2. /\ pc[t] = "idle" /\ sLock[q] = NoOne /\ scheduleQueue[q] # <<>>
      /\ sLock' = [sLock EXCEPT ![q] = t] /\ pc' = [pc EXCEPT ![t] = "peek"]
      /\ UNCHANGED <<unprocessed, processed, output, nextId, scheduleQueue, lowestPos, uLock, oLock,
                     obj, todo, inbox>>
  BY <1>1 DEF PeekLock, objectVars, queueVars
<1>3. t \in Thread /\ t # Master
  BY Constants
<1>4. /\ \A u \in Thread : pc'[u] = IF u = t THEN "peek" ELSE pc[u]
      /\ \A x \in Queue : sLock'[x] = IF x = q THEN t ELSE sLock[x]
      /\ pc' \in [Thread -> Stage] /\ sLock' \in [Queue -> Worker \cup {NoOne}]
  BY <1>2, <1>3 DEF ControlTypes, Stage
<1>5. DataOK' /\ ControlTypes'
  BY <1>2, <1>4 DEF DataOK, ControlTypes
<1>6. WhereOK'
  <2> SUFFICES ASSUME NEW u \in Thread
               PROVE  /\ u = Master => pc'[u] \in {"send", "sendFirst"} /\ obj[u] = NoOne
                      /\ u \in Worker => (obj[u] = NoOne <=> pc'[u] \in {"idle", "peek"})
                      /\ pc'[u] = "peek" => /\ sLock'[QueueOfThread(u)] = u
                                            /\ scheduleQueue[QueueOfThread(u)] # <<>>
                      /\ pc'[u] \in {"rollback", "updateFirst"} => uLock[obj[u]] = u
    BY <1>2 DEF WhereOK
  <2>1. CASE u = t
    BY <1>1, <1>2, <1>3, <1>4, <2>1 DEF WhereOK
  <2>2. CASE u # t
    <3>1. ASSUME pc[u] = "peek" PROVE sLock'[QueueOfThread(u)] = u
      <4>1. u \in Worker /\ u # NoOne
        BY <3>1, Constants DEF WhereOK
      <4>2. QueueOfThread(u) \in Queue /\ sLock[QueueOfThread(u)] = u
        BY <3>1, <4>1, Constants DEF WhereOK
      <4> QED
        BY <1>2, <1>4, <4>1, <4>2
    <3> QED
      BY <1>4, <2>2, <3>1 DEF WhereOK
  <2> QED
    BY <2>1, <2>2
<1>7. \A u \in Thread : pc'[u] \in First <=> pc[u] \in First
  BY <1>2, <1>4 DEF First
<1>8. InsertOK'
  BY <1>2, <1>7 DEF InsertOK, InFront
<1>9. OwnersOK'
  <2>1. ASSUME NEW o \in Object, uLock[o] # NoOne
        PROVE  obj[uLock[o]] = o \/ (pc'[uLock[o]] \in First /\ Head(todo[uLock[o]]).dst = o)
    <3>1. uLock[o] \in Thread
      BY <2>1 DEF ControlTypes
    <3> QED
      BY <1>7, <2>1, <3>1 DEF OwnersOK
  <2> QED
    BY <1>2, <2>1 DEF OwnersOK
<1>10. EntriesOK' /\ ExactOK'
  BY <1>2 DEF EntriesOK, ExactOK
<1> QED
  BY <1>5, <1>6, <1>8, <1>9, <1>10

\* What a worker finds in the queue it has locked: an object that nobody has.
LEMMA PeekFinds ==
  ASSUME ScheduleInv, NEW t \in Worker, pc[t] = "peek"
  PROVE  /\ QueueOfThread(t) \in Queue /\ scheduleQueue[QueueOfThread(t)] # <<>>
         /\ sLock[QueueOfThread(t)] = t
         /\ Head(scheduleQueue[QueueOfThread(t)]) \in Event
         /\ Head(scheduleQueue[QueueOfThread(t)]).dst \in Object
         /\ oLock[Head(scheduleQueue[QueueOfThread(t)]).dst] = NoOne
         /\ QueueOfObject(Head(scheduleQueue[QueueOfThread(t)]).dst) = QueueOfThread(t)
<1> USE DEF ScheduleInv, ControlOK
<1>1. PICK q \in Queue : q = QueueOfThread(t)
  BY Constants
<1>2. sLock[q] = t /\ scheduleQueue[q] # <<>> /\ scheduleQueue[q] \in Seq(Event)
  BY <1>1, Constants DEF WhereOK, ControlTypes
<1>3. PICK e \in Event : e = Head(scheduleQueue[q]) /\ e = scheduleQueue[q][1] /\ 1 \in 1..Len(scheduleQueue[q])
  BY <1>2, TailOf
<1>4. e.dst \in Object
  BY DEF Event
<1>5. e = lowestPos[e.dst] /\ QueueOfObject(e.dst) = q
  BY <1>3 DEF EntriesOK, QueueOK
<1>6. oLock[e.dst] = NoOne
  BY <1>4, <1>5, NotEnd DEF ExactOK
<1> QED
  BY <1>1, <1>2, <1>3, <1>4, <1>5, <1>6

\* Queue q, which was s, becomes r when o gets the position p.
Repositions(q, o, s, r, p) ==
    /\ q = QueueOfObject(o) /\ s = scheduleQueue[q]
    /\ r \in Seq(Event) /\ Distinct(r)
    /\ \A i \in 1..Len(r) : (r[i] = p /\ p \in EventsOf(o)) \/ \E k \in 1..Len(s) : r[i] = s[k] /\ s[k].dst # o
    /\ \A k \in 1..Len(s) : s[k].dst # o => \E i \in 1..Len(r) : r[i] = s[k]
    /\ p = End \/ (p \in EventsOf(o) /\ \E i \in 1..Len(r) : r[i] = p)
    /\ scheduleQueue' \in [Queue -> Seq(Event)]
    /\ \A x \in Queue : scheduleQueue'[x] = IF x = q THEN r ELSE scheduleQueue[x]
    /\ DOMAIN lowestPos' = Object
    /\ \A x \in Object : lowestPos'[x] = IF x = o THEN p ELSE lowestPos[x]

LEMMA RepositionsStep ==
  ASSUME ScheduleInv, NEW q \in Queue, NEW o \in Object, NEW s, NEW r, NEW p, Repositions(q, o, s, r, p)
  PROVE  EntriesOK'
<1> USE DEF ScheduleInv, ControlOK
<1>1. /\ q = QueueOfObject(o) /\ s = scheduleQueue[q] /\ r \in Seq(Event) /\ Distinct(r)
      /\ \A i \in 1..Len(r) : (r[i] = p /\ p \in EventsOf(o)) \/ \E k \in 1..Len(s) : r[i] = s[k] /\ s[k].dst # o
      /\ \A k \in 1..Len(s) : s[k].dst # o => \E i \in 1..Len(r) : r[i] = s[k]
      /\ p = End \/ (p \in EventsOf(o) /\ \E i \in 1..Len(r) : r[i] = p)
      /\ \A x \in Queue : scheduleQueue'[x] = IF x = q THEN r ELSE scheduleQueue[x]
      /\ \A x \in Object : lowestPos'[x] = IF x = o THEN p ELSE lowestPos[x]
  BY DEF Repositions
<1>2. \A x \in Queue : scheduleQueue[x] \in Seq(Event) /\ QueueOK(x, scheduleQueue[x], lowestPos)
  BY DEF ControlTypes, EntriesOK
<1>3. \A e \in Event : e.dst \in Object
  BY DEF Event
<1>4. ASSUME NEW x \in Queue PROVE QueueOK(x, scheduleQueue'[x], lowestPos')
  <2>1. CASE x # q
    <3>1. PICK y \in Seq(Event) : y = scheduleQueue[x] /\ y = scheduleQueue'[x]
      BY <1>1, <1>2, <2>1
    <3>2. QueueOK(x, y, lowestPos)
      BY <1>2, <3>1
    <3>3. ASSUME NEW k \in 1..Len(y)
          PROVE  QueueOfObject(y[k].dst) = x /\ y[k] = lowestPos'[y[k].dst]
      <4>1. QueueOfObject(y[k].dst) = x /\ y[k] = lowestPos[y[k].dst] /\ y[k] \in Event
        BY <3>2 DEF QueueOK
      <4>2. y[k].dst # o /\ y[k].dst \in Object
        BY <1>1, <1>3, <2>1, <4>1
      <4> QED
        BY <1>1, <4>1, <4>2
    <3> QED
      BY <3>1, <3>2, <3>3 DEF QueueOK
  <2>2. CASE x = q
    <3>1. scheduleQueue'[x] = r
      BY <1>1, <2>2
    <3>2. ASSUME NEW i \in 1..Len(r)
          PROVE  QueueOfObject(r[i].dst) = q /\ r[i] = lowestPos'[r[i].dst]
      <4>1. CASE r[i] = p /\ p \in EventsOf(o)
        BY <1>1, <4>1 DEF EventsOf
      <4>2. CASE \E k \in 1..Len(s) : r[i] = s[k] /\ s[k].dst # o
        <5>1. PICK k \in 1..Len(s) : r[i] = s[k] /\ s[k].dst # o
          BY <4>2
        <5>2. QueueOfObject(s[k].dst) = q /\ s[k] = lowestPos[s[k].dst]
          BY <1>1, <1>2 DEF QueueOK
        <5>3. s \in Seq(Event)
          BY <1>1, <1>2
        <5>4. s[k].dst \in Object
          BY <1>3, <5>3
        <5>5. lowestPos'[s[k].dst] = lowestPos[s[k].dst]
          BY <1>1, <5>1, <5>4
        <5> QED
          BY <5>1, <5>2, <5>5
      <4> QED
        BY <1>1, <4>1, <4>2
    <3> QED
      BY <1>1, <2>2, <3>1, <3>2 DEF QueueOK
  <2> QED
    BY <2>1, <2>2
<1>5. ASSUME NEW x \in Object PROVE PositionOK(x, scheduleQueue'[QueueOfObject(x)], lowestPos'[x])
  <2>1. QueueOfObject(x) \in Queue /\ PositionOK(x, scheduleQueue[QueueOfObject(x)], lowestPos[x])
    BY Constants DEF EntriesOK
  <2>2. CASE x = o
    BY <1>1, <2>2 DEF PositionOK
  <2>3. CASE x # o /\ QueueOfObject(x) # q
    BY <1>1, <2>1, <2>3
  <2>4. CASE x # o /\ QueueOfObject(x) = q
    <3>1. lowestPos'[x] = lowestPos[x] /\ scheduleQueue'[QueueOfObject(x)] = r
      BY <1>1, <2>1, <2>4
    <3>2. lowestPos[x] = End \/ (lowestPos[x] \in EventsOf(x) /\ \E k \in 1..Len(s) : s[k] = lowestPos[x])
      BY <1>1, <2>1, <2>4 DEF PositionOK
    <3>3. lowestPos[x] # End => \E i \in 1..Len(r) : r[i] = lowestPos[x]
      BY <1>1, <2>4, <3>2 DEF EventsOf
    <3> QED
      BY <3>1, <3>2, <3>3 DEF PositionOK
  <2> QED
    BY <2>2, <2>3, <2>4
<1> QED
  BY <1>4, <1>5 DEF EntriesOK

\* Both calls of insertEvent() reposition the object.
LEMMA Reschedules ==
  ASSUME ScheduleInv, NEW o \in Object, NEW e \in EventsOf(o),
         scheduleQueue' = Rescheduled(QueueOfObject(o), lowestPos[o], e),
         lowestPos' = [lowestPos EXCEPT ![o] = e]
  PROVE  /\ EntriesOK' /\ scheduleQueue' \in [Queue -> Seq(Event)] /\ DOMAIN lowestPos' = Object
         /\ \A x \in Queue : x # QueueOfObject(o) => scheduleQueue'[x] = scheduleQueue[x]
<1> USE DEF ScheduleInv, ControlOK
<1>1. PICK q \in Queue : q = QueueOfObject(o)
  BY Constants
<1>2. PICK s \in Seq(Event) : s = scheduleQueue[q]
  BY DEF ControlTypes
<1>3. PICK old : old = lowestPos[o]
  OBVIOUS
<1>4. Distinct(s) /\ \A k \in 1..Len(s) : s[k] = lowestPos[s[k].dst]
  BY <1>2 DEF EntriesOK, QueueOK
<1>5. e \in Event /\ e.dst = o
  BY DEF EventsOf
<1>6. ASSUME NEW k \in 1..Len(s) PROVE s[k] # old <=> s[k].dst # o
  <2>1. s[k] \in Event /\ s[k] # End
    BY NotEnd
  <2>2. s[k].dst = o => s[k] = old
    BY <1>3, <1>4
  <2>3. old = End \/ old \in EventsOf(o)
    BY <1>3 DEF EntriesOK, PositionOK
  <2>4. s[k] = old => s[k].dst = o
    BY <2>1, <2>3 DEF EventsOf
  <2> QED
    BY <2>2, <2>4
<1>7. PICK r : r = Swapped(s, old, e)
  OBVIOUS
<1>8. scheduleQueue' = [scheduleQueue EXCEPT ![q] = r]
  <2>1. DOMAIN s = 1..Len(s)
    OBVIOUS
  <2> QED
    BY <1>1, <1>2, <1>3, <1>7, <2>1 DEF Rescheduled, Swapped
<1>9. \A k \in 1..Len(s) : s[k] # old => s[k].dst # e.dst
  BY <1>5, <1>6
<1>10. /\ r \in Seq(Event) /\ Distinct(r)
       /\ \A i \in 1..Len(r) : r[i] = e \/ \E k \in 1..Len(s) : r[i] = s[k] /\ s[k] # old
       /\ \E i \in 1..Len(r) : r[i] = e
       /\ \A k \in 1..Len(s) : s[k] # old => \E i \in 1..Len(r) : r[i] = s[k]
  BY <1>4, <1>5, <1>7, <1>9, RescheduledOK
<1>11. scheduleQueue' \in [Queue -> Seq(Event)]
  BY <1>8, <1>10 DEF ControlTypes
<1>12. \A x \in Queue : scheduleQueue'[x] = IF x = q THEN r ELSE scheduleQueue[x]
  BY <1>8 DEF ControlTypes
<1>13. DOMAIN lowestPos' = Object /\ \A x \in Object : lowestPos'[x] = IF x = o THEN e ELSE lowestPos[x]
  BY DEF ControlTypes
<1>14. \A i \in 1..Len(r) : (r[i] = e /\ e \in EventsOf(o)) \/ \E k \in 1..Len(s) : r[i] = s[k] /\ s[k].dst # o
  BY <1>6, <1>10
<1>15. \A k \in 1..Len(s) : s[k].dst # o => \E i \in 1..Len(r) : r[i] = s[k]
  BY <1>6, <1>10
<1>16. Repositions(q, o, s, r, e)
  BY <1>1, <1>2, <1>10, <1>11, <1>12, <1>13, <1>14, <1>15 DEF Repositions
<1> QED
  BY <1>1, <1>11, <1>12, <1>13, <1>16, RepositionsStep

LEMMA PeekStep ==
  ASSUME ScheduleInv, NEW t \in Worker, Peek(t)
  PROVE  ScheduleInv'
<1> USE DEF ScheduleInv, ControlOK
<1>1. pc[t] = "peek" /\ t \in Thread /\ t # Master /\ t # NoOne
  BY Constants DEF Peek
<1>2. PICK q \in Queue, o \in Object : q = QueueOfThread(t) /\ o = Head(scheduleQueue[q]).dst
  BY <1>1, PeekFinds
<1>3. /\ scheduleQueue[q] # <<>> /\ sLock[q] = t /\ oLock[o] = NoOne /\ q = QueueOfObject(o)
      /\ Head(scheduleQueue[q]) \in Event
  BY <1>1, <1>2, PeekFinds
<1>4. /\ oLock' = [oLock EXCEPT ![o] = t]
      /\ scheduleQueue' = [scheduleQueue EXCEPT ![q] = Tail(scheduleQueue[q])]
      /\ lowestPos' = [lowestPos EXCEPT ![o] = End]
      /\ sLock' = [sLock EXCEPT ![q] = NoOne]
      /\ obj' = [obj EXCEPT ![t] = o]
      /\ pc' = [pc EXCEPT ![t] = "straggler"]
      /\ UNCHANGED <<unprocessed, processed, output, nextId, uLock, todo, inbox>>
  BY <1>2 DEF Peek, objectVars, ControlTypes
<1>5. PICK s \in Seq(Event), r \in Seq(Event) : s = scheduleQueue[q] /\ r = Tail(s)
  BY <1>3, TailOf DEF ControlTypes
<1>6. /\ Len(s) \in Nat /\ Len(r) = Len(s) - 1 /\ s[1].dst = o /\ 1 \in 1..Len(s)
      /\ \A k \in 1..Len(r) : r[k] = s[k + 1]
  BY <1>2, <1>3, <1>5, TailOf
<1>7. /\ \A x \in Queue : scheduleQueue'[x] = IF x = q THEN r ELSE scheduleQueue[x]
      /\ \A x \in Queue : sLock'[x] = IF x = q THEN NoOne ELSE sLock[x]
      /\ scheduleQueue' \in [Queue -> Seq(Event)] /\ sLock' \in [Queue -> Worker \cup {NoOne}]
  BY <1>4, <1>5 DEF ControlTypes
<1>8. /\ \A u \in Thread : pc'[u] = IF u = t THEN "straggler" ELSE pc[u]
      /\ \A u \in Thread : obj'[u] = IF u = t THEN o ELSE obj[u]
      /\ pc' \in [Thread -> Stage] /\ obj' \in [Thread -> Object \cup {NoOne}]
  BY <1>1, <1>4 DEF ControlTypes, Stage
<1>9. /\ \A x \in Object : oLock'[x] = IF x = o THEN t ELSE oLock[x]
      /\ \A x \in Object : lowestPos'[x] = IF x = o THEN End ELSE lowestPos[x]
      /\ oLock' \in [Object -> Worker \cup {NoOne}] /\ DOMAIN lowestPos' = Object
  BY <1>4 DEF ControlTypes
<1>10. DataOK' /\ ControlTypes'
  BY <1>4, <1>7, <1>8, <1>9 DEF DataOK, ControlTypes
<1>11. EntriesOK'
  <2>1. Distinct(s)
    BY <1>5 DEF EntriesOK, QueueOK
  <2>2. \A k \in 1..Len(r) : k + 1 \in 1..Len(s) /\ k + 1 # 1
    BY <1>6
  <2>3. Distinct(r)
    BY <1>6, <2>1, <2>2, SMTT(60) DEF Distinct
  <2>4. \A i \in 1..Len(r) : \E k \in 1..Len(s) : r[i] = s[k] /\ s[k].dst # o
    <3> SUFFICES ASSUME NEW i \in 1..Len(r)
                 PROVE  r[i] = s[i + 1] /\ s[i + 1].dst # o /\ i + 1 \in 1..Len(s)
      OBVIOUS
    <3> QED
      BY <1>6, <2>1, <2>2 DEF Distinct
  <2>5. ASSUME NEW k \in 1..Len(s), s[k].dst # o PROVE \E i \in 1..Len(r) : r[i] = s[k]
    <3>1. k # 1
      BY <1>6, <2>5
    <3>2. k - 1 \in 1..Len(r) /\ (k - 1) + 1 = k
      BY <1>6, <3>1
    <3>3. r[k - 1] = s[k]
      BY <1>6, <3>2
    <3> QED
      BY <3>2, <3>3
  <2>6. Repositions(q, o, s, r, End)
    BY <1>3, <1>5, <1>7, <1>9, <2>3, <2>4, <2>5 DEF Repositions
  <2> QED
    BY <2>6, RepositionsStep
<1>12. obj[t] = NoOne
  BY <1>1 DEF WhereOK
<1>13. ASSUME NEW u \in Thread, u # t, obj[u] \in Object PROVE obj[u] # o
  <2>1. u \in Worker
    BY <1>13, Constants DEF WhereOK
  <2>2. oLock[obj[u]] = u /\ u # NoOne
    BY <1>13, <2>1, Constants DEF OwnersOK
  <2> QED
    BY <1>3, <2>2
<1>14. WhereOK'
  <2> SUFFICES ASSUME NEW u \in Thread
               PROVE  /\ u = Master => pc'[u] \in {"send", "sendFirst"} /\ obj'[u] = NoOne
                      /\ u \in Worker => (obj'[u] = NoOne <=> pc'[u] \in {"idle", "peek"})
                      /\ pc'[u] = "peek" => /\ sLock'[QueueOfThread(u)] = u
                                            /\ scheduleQueue'[QueueOfThread(u)] # <<>>
                      /\ pc'[u] \in {"rollback", "updateFirst"} => uLock[obj'[u]] = u
    BY <1>4 DEF WhereOK
  <2>1. CASE u = t
    <3>1. o # NoOne
      BY Constants
    <3> QED
      BY <1>1, <1>8, <2>1, <3>1
  <2>2. CASE u # t
    <3>1. pc'[u] = pc[u] /\ obj'[u] = obj[u]
      BY <1>8, <2>2
    <3>2. ASSUME pc[u] = "peek"
          PROVE  sLock'[QueueOfThread(u)] = u /\ scheduleQueue'[QueueOfThread(u)] # <<>>
      <4>1. u \in Worker
        BY <3>2, Constants DEF WhereOK
      <4>2. QueueOfThread(u) \in Queue /\ sLock[QueueOfThread(u)] = u /\ scheduleQueue[QueueOfThread(u)] # <<>>
        BY <3>2, <4>1, Constants DEF WhereOK
      <4>3. QueueOfThread(u) # q
        BY <1>3, <2>2, <4>2
      <4> QED
        BY <1>7, <4>2, <4>3
    <3> QED
      BY <3>1, <3>2 DEF WhereOK
  <2> QED
    BY <2>1, <2>2
<1>15. \A u \in Thread : pc'[u] \in First <=> pc[u] \in First
  BY <1>1, <1>8 DEF First
<1>16. InsertOK'
  <2> SUFFICES ASSUME NEW u \in Thread, pc[u] \in First, NEW e, e = Head(todo[u])
               PROVE  todo[u] # <<>> /\ uLock[e.dst] = u /\ InFront(e)'
    BY <1>4, <1>15 DEF InsertOK
  <2>1. todo[u] # <<>> /\ uLock[e.dst] = u /\ InFront(e)
    BY DEF InsertOK
  <2>2. e.dst \in Object
    <3>1. e \in Event
      BY <2>1, TailOf DEF DataOK
    <3> QED
      BY <3>1 DEF Event
  <2>3. oLock'[e.dst] = NoOne => oLock[e.dst] = NoOne
    BY <1>1, <1>9, <2>2
  <2> QED
    BY <1>4, <2>1, <2>3 DEF InFront
<1>17. OwnersOK'
  <2>1. ASSUME NEW u \in Worker, obj'[u] # NoOne PROVE oLock'[obj'[u]] = u
    <3>1. u \in Thread
      BY Constants
    <3>2. CASE u = t
      BY <1>8, <1>9, <3>1, <3>2
    <3>3. CASE u # t
      <4>1. obj'[u] = obj[u] /\ obj[u] \in Object
        BY <1>8, <2>1, <3>1, <3>3 DEF ControlTypes
      <4>2. obj[u] # o /\ oLock[obj[u]] = u
        BY <1>13, <2>1, <3>1, <3>3, <4>1 DEF OwnersOK
      <4> QED
        BY <1>9, <4>1, <4>2
    <3> QED
      BY <3>2, <3>3
  <2>2. ASSUME NEW x \in Object, uLock[x] # NoOne
        PROVE  obj'[uLock[x]] = x \/ (pc'[uLock[x]] \in First /\ Head(todo[uLock[x]]).dst = x)
    <3>1. uLock[x] \in Thread
      BY <2>2 DEF ControlTypes
    <3>2. obj[uLock[x]] = x \/ (pc[uLock[x]] \in First /\ Head(todo[uLock[x]]).dst = x)
      BY <2>2 DEF OwnersOK
    <3>3. uLock[x] # t
      BY <1>1, <1>12, <3>2, Constants DEF First
    <3> QED
      BY <1>8, <1>15, <3>1, <3>2, <3>3
  <2> QED
    BY <1>4, <2>1, <2>2 DEF OwnersOK
<1>18. ExactOK'
  BY <1>1, <1>4, <1>9 DEF ExactOK
<1> QED
  BY <1>10, <1>11, <1>14, <1>16, <1>17, <1>18

LEMMA UpdateScheduleQueueStep ==
  ASSUME ScheduleInv, NEW t \in Worker, UpdateScheduleQueue(t)
  PROVE  ScheduleInv'
<1> USE DEF ScheduleInv, ControlOK
<1>1. pc[t] = "updateFirst" /\ t \in Thread /\ t # Master /\ t # NoOne
  BY Constants DEF UpdateScheduleQueue
<1>2. PICK o \in Object : o = obj[t] /\ o # NoOne
  BY <1>1, HasObject, Constants
<1>3. PICK q \in Queue : q = QueueOfObject(o)
  BY Constants
<1>4. uLock[o] = t /\ oLock[o] = t /\ lowestPos[o] = End /\ unprocessed[o] \in Pending(o)
  BY <1>1, <1>2 DEF WhereOK, OwnersOK, ExactOK, DataOK
<1>5. /\ CanLock(sLock[q], t)
      /\ oLock' = [oLock EXCEPT ![o] = NoOne]
      /\ uLock' = [uLock EXCEPT ![o] = NoOne]
      /\ obj' = [obj EXCEPT ![t] = NoOne]
      /\ pc' = [pc EXCEPT ![t] = "idle"]
      /\ UNCHANGED <<unprocessed, processed, output, nextId, sLock, todo, inbox>>
  BY <1>2, <1>3 DEF UpdateScheduleQueue, objectVars
<1>6. /\ \A u \in Thread : pc'[u] = IF u = t THEN "idle" ELSE pc[u]
      /\ \A u \in Thread : obj'[u] = IF u = t THEN NoOne ELSE obj[u]
      /\ pc' \in [Thread -> Stage] /\ obj' \in [Thread -> Object \cup {NoOne}]
  BY <1>1, <1>5 DEF ControlTypes, Stage
<1>7. /\ \A x \in Object : oLock'[x] = IF x = o THEN NoOne ELSE oLock[x]
      /\ \A x \in Object : uLock'[x] = IF x = o THEN NoOne ELSE uLock[x]
      /\ oLock' \in [Object -> Worker \cup {NoOne}] /\ uLock' \in [Object -> Thread \cup {NoOne}]
  BY <1>5 DEF ControlTypes
<1>8. /\ EntriesOK' /\ scheduleQueue' \in [Queue -> Seq(Event)] /\ DOMAIN lowestPos' = Object
      /\ \A x \in Queue : x # q => scheduleQueue'[x] = scheduleQueue[x]
      /\ \A x \in Object : lowestPos'[x] = IF x = o THEN FirstOf(unprocessed[o]) ELSE lowestPos[x]
  <2>1. CASE unprocessed[o] # <<>>
    <3>1. PICK e \in EventsOf(o) : e = Head(unprocessed[o])
      BY <1>4, <2>1, PendingFacts
    <3>2. scheduleQueue' = Rescheduled(QueueOfObject(o), lowestPos[o], e) /\ lowestPos' = [lowestPos EXCEPT ![o] = e]
      BY <1>2, <1>4, <2>1, <3>1 DEF UpdateScheduleQueue
    <3>3. /\ EntriesOK' /\ scheduleQueue' \in [Queue -> Seq(Event)] /\ DOMAIN lowestPos' = Object
          /\ \A x \in Queue : x # q => scheduleQueue'[x] = scheduleQueue[x]
      BY <1>3, <3>2, Reschedules
    <3>4. FirstOf(unprocessed[o]) = e
      BY <2>1, <3>1 DEF FirstOf
    <3> QED
      BY <3>2, <3>3, <3>4 DEF ControlTypes
  <2>2. CASE unprocessed[o] = <<>>
    <3>1. scheduleQueue' = scheduleQueue /\ lowestPos' = [lowestPos EXCEPT ![o] = End]
      BY <1>2, <2>2 DEF UpdateScheduleQueue
    <3>2. DOMAIN lowestPos' = Object /\ \A x \in Object : lowestPos'[x] = lowestPos[x]
      BY <1>4, <3>1 DEF ControlTypes
    <3>3. \A x \in Queue : QueueOK(x, scheduleQueue[x], lowestPos')
      <4>1. ASSUME NEW x \in Queue, NEW k \in 1..Len(scheduleQueue[x])
            PROVE  scheduleQueue[x][k] = lowestPos'[scheduleQueue[x][k].dst]
        <5>1. scheduleQueue[x] \in Seq(Event)
          BY DEF ControlTypes
        <5>2. scheduleQueue[x][k] \in Event
          BY <5>1
        <5>3. scheduleQueue[x][k].dst \in Object
          BY <5>2 DEF Event
        <5>4. scheduleQueue[x][k] = lowestPos[scheduleQueue[x][k].dst]
          BY DEF EntriesOK, QueueOK
        <5> QED
          BY <3>2, <5>3, <5>4
      <4> QED
        BY <4>1 DEF EntriesOK, QueueOK
    <3>4. FirstOf(unprocessed[o]) = End
      BY <2>2 DEF FirstOf
    <3>5. EntriesOK'
      BY <3>1, <3>2, <3>3 DEF EntriesOK
    <3> QED
      BY <1>4, <3>1, <3>2, <3>4, <3>5 DEF ControlTypes
  <2> QED
    BY <2>1, <2>2
<1>9. DataOK' /\ ControlTypes'
  BY <1>5, <1>6, <1>7, <1>8 DEF DataOK, ControlTypes
<1>10. \A x \in Object : x # o => uLock[x] # t
  BY <1>1, <1>2, Constants DEF OwnersOK, First
<1>11. WhereOK'
  <2> SUFFICES ASSUME NEW u \in Thread
               PROVE  /\ u = Master => pc'[u] \in {"send", "sendFirst"} /\ obj'[u] = NoOne
                      /\ u \in Worker => (obj'[u] = NoOne <=> pc'[u] \in {"idle", "peek"})
                      /\ pc'[u] = "peek" => /\ sLock[QueueOfThread(u)] = u
                                            /\ scheduleQueue'[QueueOfThread(u)] # <<>>
                      /\ pc'[u] \in {"rollback", "updateFirst"} => uLock'[obj'[u]] = u
    BY <1>5 DEF WhereOK
  <2>1. CASE u = t
    BY <1>1, <1>6, <2>1
  <2>2. CASE u # t
    <3>1. pc'[u] = pc[u] /\ obj'[u] = obj[u]
      BY <1>6, <2>2
    <3>2. ASSUME pc[u] = "peek" PROVE scheduleQueue'[QueueOfThread(u)] # <<>>
      <4>1. u \in Worker /\ u # NoOne
        BY <3>2, Constants DEF WhereOK
      <4>2. QueueOfThread(u) \in Queue /\ sLock[QueueOfThread(u)] = u /\ scheduleQueue[QueueOfThread(u)] # <<>>
        BY <3>2, <4>1, Constants DEF WhereOK
      <4>3. QueueOfThread(u) # q
        BY <1>5, <2>2, <4>1, <4>2 DEF CanLock
      <4> QED
        BY <1>8, <4>2, <4>3
    <3>3. ASSUME pc[u] \in {"rollback", "updateFirst"} PROVE uLock'[obj[u]] = u
      <4>1. u \in Worker
        BY <3>3, Constants DEF WhereOK
      <4>2. obj[u] \in Object /\ uLock[obj[u]] = u
        BY <3>3, <4>1, HasObject DEF WhereOK
      <4> QED
        BY <1>4, <1>7, <2>2, <4>2
    <3> QED
      BY <3>1, <3>2, <3>3 DEF WhereOK
  <2> QED
    BY <2>1, <2>2
<1>12. \A u \in Thread : pc'[u] \in First <=> pc[u] \in First
  BY <1>1, <1>6 DEF First
<1>13. InsertOK'
  <2> SUFFICES ASSUME NEW u \in Thread, pc[u] \in First
               PROVE  /\ todo[u] # <<>>
                      /\ uLock'[Head(todo[u]).dst] = u
                      /\ InFront(Head(todo[u]))'
    BY <1>5, <1>12 DEF InsertOK
  <2>1. u # t
    BY <1>1 DEF First
  <2>2. /\ todo[u] # <<>> /\ todo[u] \in Seq(Event) /\ uLock[Head(todo[u]).dst] = u
        /\ InFront(Head(todo[u]))
    BY DEF InsertOK, DataOK
  <2>3. Head(todo[u]) \in Event
    BY <2>2, TailOf
  <2>4. Head(todo[u]).dst \in Object
    BY <2>3 DEF Event
  <2>5. Head(todo[u]).dst # o
    BY <1>4, <2>1, <2>2
  <2> QED
    BY <1>5, <1>7, <2>2, <2>4, <2>5 DEF InFront
<1>14. OwnersOK'
  <2>1. ASSUME NEW u \in Worker, obj'[u] # NoOne PROVE oLock'[obj'[u]] = u
    <3>1. u \in Thread /\ u # t
      BY <1>6, <2>1, Constants
    <3>2. obj'[u] = obj[u] /\ obj[u] \in Object /\ oLock[obj[u]] = u
      BY <1>6, <2>1, <3>1 DEF OwnersOK, ControlTypes
    <3> QED
      BY <1>4, <1>7, <3>1, <3>2
  <2>2. ASSUME NEW x \in Object, uLock'[x] # NoOne
        PROVE  obj'[uLock'[x]] = x \/ (pc'[uLock'[x]] \in First /\ Head(todo[uLock'[x]]).dst = x)
    <3>1. x # o /\ uLock'[x] = uLock[x] /\ uLock[x] \in Thread /\ uLock[x] # t
      BY <1>7, <1>10, <2>2 DEF ControlTypes
    <3> QED
      BY <1>6, <1>12, <2>2, <3>1 DEF OwnersOK
  <2> QED
    BY <1>5, <2>1, <2>2 DEF OwnersOK
<1>15. ExactOK'
  BY <1>5, <1>7, <1>8, ZenonT(60) DEF ExactOK
<1> QED
  BY <1>8, <1>9, <1>11, <1>13, <1>14, <1>15

LEMMA InsertStep ==
  ASSUME ScheduleInv, NEW t \in Thread, Insert(t)
  PROVE  ScheduleInv'
<1> USE DEF ScheduleInv, ControlOK
<1>1. pc[t] \in {"send", "cancel"} /\ pc[t] \notin First /\ t # NoOne
  BY Constants DEF Insert, First
<1>2. PICK e \in Event : e = Head(todo[t]) /\ todo[t] # <<>>
  <2>1. todo[t] # <<>> /\ todo[t] \in Seq(Event)
    BY DEF Insert, DataOK
  <2> QED
    BY <2>1, TailOf
<1>3. PICK o \in Object : o = e.dst
  BY DEF Event
<1>4. unprocessed[o] \in Pending(o) /\ DOMAIN unprocessed = Object
  BY DEF DataOK
<1>5. e \in EventsOf(o) /\ unprocessed[o] \in Seq(EventsOf(o)) /\ unprocessed[o] \in Seq(Event) /\ Sorted(unprocessed[o])
  BY <1>3, <1>4, PendingFacts DEF EventsOf
<1>6. PICK S \in Pending(o) : S = Inserted(unprocessed[o], e) /\ S # <<>>
  <2>1. EventsOf(o) \in SUBSET Event
    BY DEF EventsOf
  <2>2. Inserted(unprocessed[o], e) \in Seq(EventsOf(o)) /\ Sorted(Inserted(unprocessed[o], e))
    BY <1>5, <2>1, InsertedOK
  <2>3. \E i \in 1..Len(Inserted(unprocessed[o], e)) : Inserted(unprocessed[o], e)[i] = e
    BY <1>5, <2>1, InsertedOK
  <2>4. Inserted(unprocessed[o], e) # <<>>
    BY <2>3
  <2> QED
    BY <2>2, <2>4 DEF Pending
<1>7. /\ CanLock(uLock[o], t)
      /\ unprocessed' = [unprocessed EXCEPT ![o] = S]
      /\ UNCHANGED <<processed, output, nextId, scheduleQueue, lowestPos, oLock, sLock, obj, inbox>>
  BY <1>2, <1>3, <1>6 DEF Insert, objectVars, queueVars
<1>8. DOMAIN unprocessed' = Object /\ \A x \in Object : unprocessed'[x] = IF x = o THEN S ELSE unprocessed[x]
  BY <1>4, <1>7
<1>9. ASSUME NEW u \in Thread, u # t, pc[u] \in First
      PROVE  /\ todo[u] # <<>> /\ Head(todo[u]).dst \in Object /\ Head(todo[u]).dst # o
             /\ uLock[Head(todo[u]).dst] = u /\ InFront(Head(todo[u]))
  <2>1. /\ todo[u] # <<>> /\ todo[u] \in Seq(Event) /\ uLock[Head(todo[u]).dst] = u /\ u # NoOne
        /\ InFront(Head(todo[u]))
    BY <1>9, Constants DEF InsertOK, DataOK
  <2>2. Head(todo[u]) \in Event
    BY <2>1, TailOf
  <2>3. Head(todo[u]).dst \in Object
    BY <2>2 DEF Event
  <2> QED
    BY <1>7, <1>9, <2>1, <2>3 DEF CanLock
<1>10. ASSUME NEW u \in Thread, u # t, pc[u] \in {"rollback", "updateFirst"}
       PROVE  obj[u] \in Object /\ obj[u] # o /\ uLock[obj[u]] = u
  <2>1. u \in Worker /\ u # NoOne
    BY <1>10, Constants DEF WhereOK
  <2>2. obj[u] \in Object /\ uLock[obj[u]] = u
    BY <1>10, <2>1, HasObject DEF WhereOK
  <2> QED
    BY <1>7, <1>10, <2>1, <2>2 DEF CanLock
<1>11. ASSUME oLock[o] = NoOne PROVE uLock[o] = NoOne /\ lowestPos[o] = FirstOf(unprocessed[o])
  <2>1. ASSUME uLock[o] = t PROVE FALSE
    <3>1. obj[t] = o
      BY <1>1, <2>1 DEF OwnersOK
    <3>2. t \in Worker
      BY <3>1, Constants DEF WhereOK
    <3>3. oLock[o] = t
      BY <3>1, <3>2, Constants DEF OwnersOK
    <3> QED
      BY <1>1, <1>11, <3>3
  <2>2. uLock[o] = NoOne
    BY <1>7, <2>1 DEF CanLock
  <2> QED
    BY <1>11, <2>2 DEF ExactOK
<1>12. CASE Head(S) = e
  <2>1. PICK stage \in First :
           stage = IF pc[t] = "send" THEN "sendFirst" ELSE "cancelFirst"
    BY DEF First
  <2>2. uLock' = [uLock EXCEPT ![o] = t] /\ pc' = [pc EXCEPT ![t] = stage] /\ todo' = todo
    BY <1>2, <1>3, <1>6, <1>12, <2>1 DEF Insert, ControlTypes
  <2>3. /\ \A x \in Object : uLock'[x] = IF x = o THEN t ELSE uLock[x]
        /\ \A u \in Thread : pc'[u] = IF u = t THEN stage ELSE pc[u]
        /\ uLock' \in [Object -> Thread \cup {NoOne}] /\ pc' \in [Thread -> Stage]
    BY <2>2 DEF ControlTypes, Stage, First
  <2>4. DataOK'
    BY <1>6, <1>7, <1>8, <2>2 DEF DataOK
  <2>5. ControlTypes'
    BY <1>7, <2>3 DEF ControlTypes
  <2>6. WhereOK'
    <3> SUFFICES ASSUME NEW u \in Thread
                 PROVE  /\ u = Master => pc'[u] \in {"send", "sendFirst"} /\ obj[u] = NoOne
                        /\ u \in Worker => (obj[u] = NoOne <=> pc'[u] \in {"idle", "peek"})
                        /\ pc'[u] = "peek" => /\ sLock[QueueOfThread(u)] = u
                                              /\ scheduleQueue[QueueOfThread(u)] # <<>>
                        /\ pc'[u] \in {"rollback", "updateFirst"} => uLock'[obj[u]] = u
      BY <1>7 DEF WhereOK
    <3>1. CASE u = t
      BY <1>1, <2>1, <2>3, <3>1 DEF WhereOK, First
    <3>2. CASE u # t
      BY <1>10, <2>3, <3>2 DEF WhereOK
    <3> QED
      BY <3>1, <3>2
  <2>7. InsertOK'
    <3> SUFFICES ASSUME NEW u \in Thread, pc'[u] \in First
                 PROVE  /\ todo[u] # <<>>
                        /\ uLock'[Head(todo[u]).dst] = u
                        /\ InFront(Head(todo[u]))'
      BY <2>2 DEF InsertOK
    <3>1. CASE u = t
      BY <1>2, <1>3, <1>6, <1>8, <1>12, <2>2, <2>3, <3>1 DEF InFront
    <3>2. CASE u # t
      BY <1>7, <1>8, <1>9, <2>2, <2>3, <3>2 DEF InFront
    <3> QED
      BY <3>1, <3>2
  <2>8. OwnersOK'
    <3>1. ASSUME NEW x \in Object, uLock'[x] # NoOne
          PROVE  obj[uLock'[x]] = x \/ (pc'[uLock'[x]] \in First /\ Head(todo[uLock'[x]]).dst = x)
      <4>1. CASE x = o
        BY <1>2, <1>3, <2>3, <4>1
      <4>2. CASE x # o
        <5>1. uLock'[x] = uLock[x] /\ uLock[x] \in Thread
          BY <2>3, <3>1, <4>2 DEF ControlTypes
        <5> QED
          BY <2>3, <3>1, <5>1 DEF OwnersOK
      <4> QED
        BY <4>1, <4>2
    <3> QED
      BY <1>7, <2>2, <3>1 DEF OwnersOK
  <2>9. EntriesOK'
    BY <1>7 DEF EntriesOK
  <2>10. ExactOK'
    BY <1>1, <1>7, <1>8, <2>3 DEF ExactOK
  <2> QED
    BY <2>4, <2>5, <2>6, <2>7, <2>8, <2>9, <2>10
<1>13. CASE Head(S) # e
  <2>1. uLock' = [uLock EXCEPT ![o] = NoOne] /\ todo' = [todo EXCEPT ![t] = Tail(todo[t])] /\ pc' = pc
    BY <1>2, <1>3, <1>6, <1>13 DEF Insert, DataOK
  <2>2. Tail(todo[t]) \in Seq(Event)
    BY <1>2, TailOf DEF DataOK
  <2>3. /\ \A x \in Object : uLock'[x] = IF x = o THEN NoOne ELSE uLock[x]
        /\ \A u \in Thread : u # t => todo'[u] = todo[u]
        /\ uLock' \in [Object -> Thread \cup {NoOne}] /\ todo' \in [Thread -> Seq(Event)]
    BY <2>1, <2>2 DEF ControlTypes, DataOK
  <2>4. DataOK'
    BY <1>6, <1>7, <1>8, <2>3 DEF DataOK
  <2>5. ControlTypes'
    BY <1>7, <2>1, <2>3 DEF ControlTypes
  <2>6. WhereOK'
    <3> SUFFICES ASSUME NEW u \in Thread, pc[u] \in {"rollback", "updateFirst"}
                 PROVE  uLock'[obj[u]] = u
      BY <1>7, <2>1 DEF WhereOK
    <3>1. u # t
      BY <1>1
    <3> QED
      BY <1>10, <2>3, <3>1
  <2>7. InsertOK'
    <3> SUFFICES ASSUME NEW u \in Thread, pc[u] \in First
                 PROVE  /\ todo'[u] # <<>>
                        /\ uLock'[Head(todo'[u]).dst] = u
                        /\ InFront(Head(todo[u]))'
      BY <2>1 DEF InsertOK
    <3>1. u # t /\ todo'[u] = todo[u]
      BY <1>1, <2>3
    <3> QED
      BY <1>7, <1>8, <1>9, <2>3, <3>1 DEF InFront
  <2>8. OwnersOK'
    <3>1. ASSUME NEW x \in Object, uLock'[x] # NoOne
          PROVE  obj[uLock'[x]] = x \/ (pc[uLock'[x]] \in First /\ Head(todo'[uLock'[x]]).dst = x)
      <4>1. x # o /\ uLock'[x] = uLock[x] /\ uLock[x] \in Thread
        BY <2>3, <3>1 DEF ControlTypes
      <4> QED
        BY <1>1, <2>3, <3>1, <4>1, SMTT(60) DEF OwnersOK
    <3> QED
      BY <1>7, <2>1, <3>1 DEF OwnersOK
  <2>9. EntriesOK'
    BY <1>7 DEF EntriesOK
  <2>10. unprocessed[o] # <<>> /\ Head(S) = Head(unprocessed[o])
    BY <1>5, <1>6, <1>13, InsertedHead
  <2>11. FirstOf(S) = FirstOf(unprocessed[o])
    BY <1>6, <2>10 DEF FirstOf
  <2>12. ExactOK'
    BY <1>7, <1>8, <1>11, <2>3, <2>11 DEF ExactOK
  <2> QED
    BY <2>4, <2>5, <2>6, <2>7, <2>8, <2>9, <2>12
<1> QED
  BY <1>12, <1>13

LEMMA InsertFirstStep ==
  ASSUME ScheduleInv, NEW t \in Thread, InsertFirst(t)
  PROVE  ScheduleInv'
<1> USE DEF ScheduleInv, ControlOK
<1>1. pc[t] \in First /\ t # NoOne
  BY Constants DEF InsertFirst, First
<1>2. PICK e \in Event : e = Head(todo[t]) /\ todo[t] # <<>> /\ todo[t] \in Seq(Event)
  <2>1. todo[t] # <<>> /\ todo[t] \in Seq(Event)
    BY <1>1 DEF InsertOK, DataOK
  <2> QED
    BY <2>1, TailOf
<1>3. PICK o \in Object : o = e.dst
  BY DEF Event
<1>4. PICK q \in Queue : q = QueueOfObject(o)
  BY Constants
<1>5. /\ uLock[o] = t /\ e \in EventsOf(o)
      /\ oLock[o] = NoOne => unprocessed[o] # <<>> /\ Head(unprocessed[o]) = e
  BY <1>1, <1>2, <1>3 DEF InsertOK, InFront, EventsOf
<1>6. PICK stage \in {"send", "cancel"} : stage = IF pc[t] = "sendFirst" THEN "send" ELSE "cancel"
  OBVIOUS
<1>7. /\ CanLock(sLock[q], t)
      /\ uLock' = [uLock EXCEPT ![o] = NoOne]
      /\ todo' = [todo EXCEPT ![t] = Tail(todo[t])]
      /\ pc' = [pc EXCEPT ![t] = stage]
      /\ UNCHANGED <<unprocessed, processed, output, nextId, oLock, sLock, obj, inbox>>
  BY <1>2, <1>3, <1>4, <1>6 DEF InsertFirst, objectVars, ControlTypes, DataOK
<1>8. Tail(todo[t]) \in Seq(Event)
  BY <1>2, TailOf
<1>9. /\ \A x \in Object : uLock'[x] = IF x = o THEN NoOne ELSE uLock[x]
      /\ uLock' \in [Object -> Thread \cup {NoOne}]
  BY <1>7 DEF ControlTypes
<1>10. /\ \A u \in Thread : pc'[u] = IF u = t THEN stage ELSE pc[u]
       /\ pc' \in [Thread -> Stage]
  BY <1>7 DEF ControlTypes, Stage
<1>11. todo' \in [Thread -> Seq(Event)] /\ \A u \in Thread : u # t => todo'[u] = todo[u]
  BY <1>7, <1>8 DEF DataOK
<1>12. /\ EntriesOK' /\ scheduleQueue' \in [Queue -> Seq(Event)] /\ DOMAIN lowestPos' = Object
       /\ \A x \in Queue : x # q => scheduleQueue'[x] = scheduleQueue[x]
       /\ \A x \in Object : lowestPos'[x] = IF x = o /\ oLock[o] = NoOne THEN e ELSE lowestPos[x]
  <2>1. CASE oLock[o] = NoOne
    <3>1. scheduleQueue' = Rescheduled(QueueOfObject(o), lowestPos[o], e) /\ lowestPos' = [lowestPos EXCEPT ![o] = e]
      BY <1>2, <1>3, <2>1 DEF InsertFirst, IsObjectScheduled
    <3>2. /\ EntriesOK' /\ scheduleQueue' \in [Queue -> Seq(Event)] /\ DOMAIN lowestPos' = Object
          /\ \A x \in Queue : x # q => scheduleQueue'[x] = scheduleQueue[x]
      BY <1>4, <1>5, <3>1, Reschedules
    <3> QED
      BY <2>1, <3>1, <3>2 DEF ControlTypes
  <2>2. CASE oLock[o] # NoOne
    <3>1. scheduleQueue' = scheduleQueue /\ lowestPos' = lowestPos
      BY <1>2, <1>3, <2>2 DEF InsertFirst, IsObjectScheduled, queueVars
    <3> QED
      BY <2>2, <3>1 DEF ControlTypes, EntriesOK
  <2> QED
    BY <2>1, <2>2
<1>13. DataOK' /\ ControlTypes'
  BY <1>7, <1>9, <1>10, <1>11, <1>12 DEF DataOK, ControlTypes
<1>14. WhereOK'
  <2> SUFFICES ASSUME NEW u \in Thread
               PROVE  /\ u = Master => pc'[u] \in {"send", "sendFirst"} /\ obj[u] = NoOne
                      /\ u \in Worker => (obj[u] = NoOne <=> pc'[u] \in {"idle", "peek"})
                      /\ pc'[u] = "peek" => /\ sLock[QueueOfThread(u)] = u
                                            /\ scheduleQueue'[QueueOfThread(u)] # <<>>
                      /\ pc'[u] \in {"rollback", "updateFirst"} => uLock'[obj[u]] = u
    BY <1>7 DEF WhereOK
  <2>1. CASE u = t
    BY <1>1, <1>6, <1>10, <2>1 DEF WhereOK, First
  <2>2. CASE u # t
    <3>1. ASSUME pc[u] = "peek" PROVE scheduleQueue'[QueueOfThread(u)] # <<>>
      <4>1. u \in Worker /\ u # NoOne
        BY <3>1, Constants DEF WhereOK
      <4>2. QueueOfThread(u) \in Queue /\ sLock[QueueOfThread(u)] = u /\ scheduleQueue[QueueOfThread(u)] # <<>>
        BY <3>1, <4>1, Constants DEF WhereOK
      <4>3. QueueOfThread(u) # q
        BY <1>7, <2>2, <4>1, <4>2 DEF CanLock
      <4> QED
        BY <1>12, <4>2, <4>3
    <3>2. ASSUME pc[u] \in {"rollback", "updateFirst"} PROVE uLock'[obj[u]] = u
      <4>1. u \in Worker
        BY <3>2, Constants DEF WhereOK
      <4>2. obj[u] \in Object /\ uLock[obj[u]] = u
        BY <3>2, <4>1, HasObject DEF WhereOK
      <4> QED
        BY <1>5, <1>9, <2>2, <4>2
    <3> QED
      BY <1>10, <2>2, <3>1, <3>2 DEF WhereOK
  <2> QED
    BY <2>1, <2>2
<1>15. InsertOK'
  <2> SUFFICES ASSUME NEW u \in Thread, pc'[u] \in First
               PROVE  /\ todo'[u] # <<>>
                      /\ uLock'[Head(todo'[u]).dst] = u
                      /\ InFront(Head(todo[u]))'
    BY <1>7 DEF InsertOK
  <2>1. u # t /\ pc[u] \in First /\ todo'[u] = todo[u]
    BY <1>6, <1>10, <1>11 DEF First
  <2>2. /\ todo[u] # <<>> /\ todo[u] \in Seq(Event) /\ uLock[Head(todo[u]).dst] = u
        /\ InFront(Head(todo[u]))
    BY <2>1 DEF InsertOK, DataOK
  <2>3. Head(todo[u]) \in Event
    BY <2>2, TailOf
  <2>4. Head(todo[u]).dst \in Object
    BY <2>3 DEF Event
  <2>5. uLock'[Head(todo[u]).dst] = u
    BY <1>5, <1>9, <2>1, <2>2, <2>4
  <2> QED
    BY <1>7, <2>1, <2>2, <2>5 DEF InFront
<1>16. OwnersOK'
  <2>1. ASSUME NEW x \in Object, uLock'[x] # NoOne
        PROVE  obj[uLock'[x]] = x \/ (pc'[uLock'[x]] \in First /\ Head(todo'[uLock'[x]]).dst = x)
    <3>1. x # o /\ uLock'[x] = uLock[x] /\ uLock[x] \in Thread
      BY <1>9, <2>1 DEF ControlTypes
    <3>2. obj[uLock[x]] = x \/ (pc[uLock[x]] \in First /\ Head(todo[uLock[x]]).dst = x)
      BY <2>1, <3>1 DEF OwnersOK
    <3>3. CASE uLock[x] = t
      BY <1>2, <1>3, <3>1, <3>2, <3>3
    <3>4. CASE uLock[x] # t
      BY <1>10, <1>11, <3>1, <3>2, <3>4
    <3> QED
      BY <3>3, <3>4
  <2> QED
    BY <1>7, <2>1 DEF OwnersOK
<1>17. ExactOK'
  <2> SUFFICES ASSUME NEW x \in Object
               PROVE  /\ oLock[x] # NoOne => lowestPos'[x] = End
                      /\ oLock[x] = NoOne /\ uLock'[x] = NoOne => lowestPos'[x] = FirstOf(unprocessed[x])
    BY <1>7 DEF ExactOK
  <2>1. CASE x = o
    BY <1>5, <1>12, <2>1 DEF ExactOK, FirstOf
  <2>2. CASE x # o
    BY <1>9, <1>12, <2>2 DEF ExactOK
  <2> QED
    BY <2>1, <2>2
<1> QED
  BY <1>12, <1>13, <1>14, <1>15, <1>16, <1>17
-----------------------------------------------------------------------------
(* The initial state *)

\* The elements of a finite set, as a sequence.
LEMMA SetToSeqOK ==
  ASSUME NEW S, IsFiniteSet(S)
  PROVE  /\ SetToSeq(S) \in Seq(S)
         /\ \A j, k \in 1..Len(SetToSeq(S)) : j # k => SetToSeq(S)[j] # SetToSeq(S)[k]
         /\ \A x \in S : \E k \in 1..Len(SetToSeq(S)) : SetToSeq(S)[k] = x
<1>1. Cardinality(S) \in Nat /\ ExistsBijection(1..Cardinality(S), S)
  BY FS_CardinalityType
<1>2. \E f \in [1..Cardinality(S) -> S] : IsInjective(f)
  BY <1>1 DEF ExistsBijection, Bijection, Injection
<1>3. SetToSeq(S) \in [1..Cardinality(S) -> S] /\ IsInjective(SetToSeq(S))
  BY <1>2 DEF SetToSeq
<1>4. SetToSeq(S) \in Injection(1..Cardinality(S), S)
  BY <1>3 DEF Injection
<1>5. IsFiniteSet(1..Cardinality(S)) /\ Cardinality(1..Cardinality(S)) = Cardinality(S)
  BY <1>1, FS_Interval
<1>6. SetToSeq(S) \in Surjection(1..Cardinality(S), S)
  BY <1>4, <1>5, FS_Injection
<1>7. SetToSeq(S) \in Seq(S) /\ Len(SetToSeq(S)) = Cardinality(S)
  BY <1>1, <1>3
<1>8. \A j, k \in 1..Len(SetToSeq(S)) : j # k => SetToSeq(S)[j] # SetToSeq(S)[k]
  BY <1>3, <1>7 DEF IsInjective
<1>9. \A x \in S : \E k \in 1..Len(SetToSeq(S)) : SetToSeq(S)[k] = x
  BY <1>6, <1>7 DEF Surjection
<1> QED
  BY <1>7, <1>8, <1>9

\* What a family of finite sets holds is finite.
LEMMA FamilyFinite ==
  ASSUME NEW I, IsFiniteSet(I), NEW f, \A i \in I : IsFiniteSet(f[i])
  PROVE  IsFiniteSet({f[i] : i \in I}) /\ IsFiniteSet(UNION {f[i] : i \in I})
<1> DEFINE g == [i \in I |-> f[i]]
           T == {f[i] : i \in I}
<1>1. g \in Surjection(I, T)
  BY DEF Surjection
<1>2. IsFiniteSet(T)
  BY <1>1, FS_Surjection
<1>3. \A t \in T : IsFiniteSet(t)
  OBVIOUS
<1> QED
  BY <1>2, <1>3, FS_UNION

LEMMA ImageFinite ==
  ASSUME NEW I, IsFiniteSet(I), NEW f
  PROVE  IsFiniteSet({f[i] : i \in I})
<1> DEFINE g == [i \in I |-> f[i]]
           T == {f[i] : i \in I}
<1>1. g \in Surjection(I, T)
  BY DEF Surjection
<1> QED
  BY <1>1, FS_Surjection

\* The events the objects send in initialize().
LEMMA FirstEvents ==
  ASSUME Init
  PROVE  /\ output \in [Object -> Seq(Event)]
         /\ IsFiniteSet(UNION {ToSet(output[s]) : s \in Object})
         /\ UNION {ToSet(output[s]) : s \in Object} \subseteq Event
<1>1. ASSUME NEW o \in Object
      PROVE  output[o] \in Seq(Event) /\ Len(output[o]) \in Nat
  <2>1. Initial[o] \in Seq(Message) /\ DOMAIN Initial[o] = 1..Len(Initial[o]) /\ Len(Initial[o]) \in Nat
    BY ApplicationAssumption
  <2>2. output[o] = [k \in 1..Len(Initial[o]) |->
                       NewEvent(o, Initial[o][k].dst, 0, Initial[o][k].recv, k - 1)]
    BY <2>1 DEF Init
  <2>3. ASSUME NEW k \in 1..Len(Initial[o])
        PROVE  NewEvent(o, Initial[o][k].dst, 0, Initial[o][k].recv, k - 1) \in Event
    <3>1. Initial[o][k] \in Message
      BY <2>1
    <3>2. Initial[o][k].dst \in Object /\ Initial[o][k].recv \in Nat
      BY <3>1 DEF Message
    <3>3. o \in Nat /\ k - 1 \in Nat /\ 0 \in Nat
      BY <2>1, Constants
    <3> QED
      BY <3>2, <3>3 DEF NewEvent, Event
  <2> QED
    BY <2>1, <2>2, <2>3
<1>2. output \in [Object -> Seq(Event)]
  BY <1>1 DEF Init
<1> DEFINE f == [o \in Object |-> ToSet(output[o])]
<1>3. ASSUME NEW o \in Object PROVE IsFiniteSet(f[o]) /\ f[o] \subseteq Event
  <2>1. output[o] \in Seq(Event) /\ Len(output[o]) \in Nat /\ DOMAIN output[o] = 1..Len(output[o])
    BY <1>1
  <2>2. f[o] = {output[o][k] : k \in 1..Len(output[o])}
    BY <2>1 DEF ToSet
  <2>3. IsFiniteSet(1..Len(output[o]))
    BY <2>1, FS_Interval
  <2>4. IsFiniteSet({output[o][k] : k \in 1..Len(output[o])})
    BY <2>3, ImageFinite
  <2>5. \A k \in 1..Len(output[o]) : output[o][k] \in Event
    BY <2>1
  <2> QED
    BY <2>2, <2>4, <2>5
<1>4. {f[o] : o \in Object} = {ToSet(output[o]) : o \in Object}
  OBVIOUS
<1>5. IsFiniteSet(UNION {f[o] : o \in Object})
  <2> HIDE DEF f
  <2>1. IsFiniteSet(Object)
    BY ThreadAssumption
  <2> QED
    BY <1>3, <2>1, FamilyFinite
<1> QED
  BY <1>2, <1>3, <1>4, <1>5

LEMMA DataInitial == Init => DataOK
<1> SUFFICES ASSUME Init PROVE DataOK
  OBVIOUS
<1>0. /\ nextId = [o \in Object |-> Len(Initial[o])]
      /\ processed = [o \in Object |-> <<>>]
      /\ todo = [t \in Thread |-> <<>>]
      /\ inbox = Inbox
  BY ZenonT(60) DEF Init
<1>1. ASSUME NEW o \in Object PROVE unprocessed[o] \in Pending(o)
  <2> DEFINE U == UNION {ToSet(output[s]) : s \in Object}
             S == {e \in U : e.dst = o}
  <2>1. IsFiniteSet(U) /\ U \subseteq Event
    BY FirstEvents
  <2>2. IsFiniteSet(S) /\ S \subseteq EventsOf(o)
    BY <2>1, FS_Subset DEF EventsOf
  <2>3. EventsOf(o) \in SUBSET Event
    BY DEF EventsOf
  <2>4. SetToSeq(S) \in Seq(S)
    BY <2>2, SetToSeqOK
  <2>5. SetToSeq(S) \in Seq(EventsOf(o)) /\ <<>> \in Seq(EventsOf(o))
    <3> HIDE DEF S
    <3> QED
      BY <2>2, <2>4
  <2>6. unprocessed[o] = InsertedAll(<<>>, SetToSeq(S))
    BY DEF Init
  <2>7. unprocessed[o] \in Seq(EventsOf(o)) /\ Sorted(unprocessed[o])
    <3> HIDE DEF S
    <3> QED
      BY <2>3, <2>5, <2>6, InsertedAllOK
  <2> QED
    BY <2>7 DEF Pending
<1>2. nextId \in [Object -> 0..MaxId]
  <2>1. \A o \in Object : Len(Initial[o]) \in Nat /\ Len(Initial[o]) <= MaxId
    BY ApplicationAssumption
  <2> QED
    BY ONLY <1>0, <2>1, BoundAssumption
<1>3. inbox \in Seq(Event)
  BY <1>0, ApplicationAssumption
<1>4. \A o \in Object : processed[o] \in Seq(EventsOf(o))
  BY ONLY <1>0
<1>5. todo \in [Thread -> Seq(Event)]
  BY ONLY <1>0
<1>6. DOMAIN unprocessed = Object /\ DOMAIN processed = Object
  BY DEF Init
<1> QED
  BY <1>1, <1>2, <1>3, <1>4, <1>5, <1>6, FirstEvents DEF DataOK

\* The first schedule queue q: one entry for each of its objects that has an event.
LEMMA FirstSchedule ==
  ASSUME Init, NEW q \in Queue
  PROVE  /\ scheduleQueue[q] \in Seq(Event)
         /\ Distinct(scheduleQueue[q])
         /\ \A k \in 1..Len(scheduleQueue[q]) : \E o \in Object :
               QueueOfObject(o) = q /\ scheduleQueue[q][k] = lowestPos[o] /\ lowestPos[o] \in EventsOf(o)
         /\ \A o \in Object : QueueOfObject(o) = q /\ lowestPos[o] # End =>
               \E k \in 1..Len(scheduleQueue[q]) : scheduleQueue[q][k] = lowestPos[o]
<1> DEFINE I == {x \in Object : QueueOfObject(x) = q}
           S == {lowestPos[o] : o \in I} \ {End}
           s == SetToSeq(S)
<1>1. ASSUME NEW o \in Object PROVE lowestPos[o] = End \/ lowestPos[o] \in EventsOf(o)
  <2>1. lowestPos[o] = IF unprocessed[o] = <<>> THEN End ELSE Head(unprocessed[o])
    BY DEF Init
  <2>2. unprocessed[o] \in Seq(EventsOf(o))
    BY DataInitial DEF DataOK, Pending
  <2> QED
    BY <2>1, <2>2
<1>2. IsFiniteSet(S)
  <2>1. IsFiniteSet(I)
    BY ThreadAssumption, FS_Subset
  <2>2. IsFiniteSet({lowestPos[o] : o \in I})
    BY <2>1, ImageFinite
  <2> QED
    BY <2>2, FS_Subset
<1>3. S \subseteq Event /\ \A e \in S : \E o \in Object :
         QueueOfObject(o) = q /\ e = lowestPos[o] /\ lowestPos[o] \in EventsOf(o)
  BY <1>1 DEF EventsOf
<1>4. \A o \in Object : QueueOfObject(o) = q /\ lowestPos[o] # End => lowestPos[o] \in S
  OBVIOUS
<1>5. scheduleQueue[q] = InsertedAll(<<>>, s)
  BY DEF Init
<1> HIDE DEF S
<1>6. /\ s \in Seq(S)
      /\ \A j, k \in 1..Len(s) : j # k => s[j] # s[k]
      /\ \A x \in S : \E k \in 1..Len(s) : s[k] = x
  BY <1>2, SetToSeqOK
<1> HIDE DEF s
<1>7. s \in Seq(Event) /\ Len(s) \in Nat /\ \A k \in 1..Len(s) : s[k] \in S
  BY <1>3, <1>6
<1>8. <<>> \o s = s /\ DOMAIN s = 1..Len(s)
  BY <1>7
<1>9. scheduleQueue[q] = Multiset(s, 1..Len(s))
  BY <1>5, <1>8 DEF InsertedAll
<1>10. \A j, k \in 1..Len(s) : j # k => s[j].dst # s[k].dst
  <2> SUFFICES ASSUME NEW j \in 1..Len(s), NEW k \in 1..Len(s), j # k, s[j].dst = s[k].dst PROVE FALSE
    OBVIOUS
  <2>1. PICK a \in Object : s[j] = lowestPos[a] /\ lowestPos[a] \in EventsOf(a)
    BY <1>3, <1>7
  <2>2. PICK b \in Object : s[k] = lowestPos[b] /\ lowestPos[b] \in EventsOf(b)
    BY <1>3, <1>7
  <2>3. a = b
    BY <2>1, <2>2 DEF EventsOf
  <2> QED
    BY <1>6, <2>1, <2>2, <2>3
<1>11. Event \in SUBSET Event /\ 1..Len(s) \in SUBSET (1..Len(s))
  OBVIOUS
<1>12. /\ Multiset(s, 1..Len(s)) \in Seq(Event)
       /\ \A i \in 1..Len(Multiset(s, 1..Len(s))) : \E k \in 1..Len(s) : Multiset(s, 1..Len(s))[i] = s[k]
       /\ \A k \in 1..Len(s) : \E i \in 1..Len(Multiset(s, 1..Len(s))) : Multiset(s, 1..Len(s))[i] = s[k]
  BY <1>7, <1>11, MultisetOK
<1>13. Distinct(Multiset(s, 1..Len(s)))
  BY <1>7, <1>10, <1>11, MultisetDistinct
<1>14. \A k \in 1..Len(scheduleQueue[q]) : scheduleQueue[q][k] \in S
  BY <1>7, <1>9, <1>12
<1>15. \A x \in S : \E k \in 1..Len(scheduleQueue[q]) : scheduleQueue[q][k] = x
  <2> SUFFICES ASSUME NEW x \in S
               PROVE  \E k \in 1..Len(scheduleQueue[q]) : scheduleQueue[q][k] = x
    OBVIOUS
  <2>1. PICK k \in 1..Len(s) : s[k] = x
    BY <1>6
  <2>2. \E i \in 1..Len(Multiset(s, 1..Len(s))) : Multiset(s, 1..Len(s))[i] = s[k]
    BY <1>12
  <2> QED
    BY <1>9, <2>1, <2>2
<1> QED
  BY <1>3, <1>4, <1>9, <1>12, <1>13, <1>14, <1>15

LEMMA ScheduleInitial == Init => ScheduleInv
<1> SUFFICES ASSUME Init PROVE ScheduleInv
  OBVIOUS
<1>1. DataOK
  BY DataInitial
<1>2. ControlTypes
  <2>1. scheduleQueue \in [Queue -> Seq(Event)]
    BY FirstSchedule DEF Init
  <2>2. pc \in [Thread -> Stage]
    BY DEF Init, Stage
  <2> QED
    BY <2>1, <2>2 DEF Init, ControlTypes
<1>3. \A t \in Thread : obj[t] = NoOne /\ pc[t] = IF t = Master THEN "send" ELSE "idle"
  BY DEF Init
<1>4. WhereOK
  BY <1>3, Constants DEF WhereOK
<1>5. InsertOK
  BY <1>3 DEF InsertOK, First
<1>6. OwnersOK
  BY <1>3, Constants DEF OwnersOK, Init
<1>7. EntriesOK
  <2>1. ASSUME NEW q \in Queue PROVE QueueOK(q, scheduleQueue[q], lowestPos)
    <3>1. ASSUME NEW k \in 1..Len(scheduleQueue[q])
          PROVE  /\ QueueOfObject(scheduleQueue[q][k].dst) = q
                 /\ scheduleQueue[q][k] = lowestPos[scheduleQueue[q][k].dst]
      <4>1. PICK o \in Object :
               QueueOfObject(o) = q /\ scheduleQueue[q][k] = lowestPos[o] /\ lowestPos[o] \in EventsOf(o)
        BY FirstSchedule
      <4>2. scheduleQueue[q][k].dst = o
        BY <4>1 DEF EventsOf
      <4> QED
        BY <4>1, <4>2
    <3> QED
      BY <3>1, FirstSchedule DEF QueueOK
  <2>2. ASSUME NEW o \in Object
        PROVE  PositionOK(o, scheduleQueue[QueueOfObject(o)], lowestPos[o])
    <3>1. lowestPos[o] = IF unprocessed[o] = <<>> THEN End ELSE Head(unprocessed[o])
      BY DEF Init
    <3>2. unprocessed[o] \in Seq(EventsOf(o))
      BY <1>1 DEF DataOK, Pending
    <3>3. lowestPos[o] = End \/ lowestPos[o] \in EventsOf(o)
      BY <3>1, <3>2
    <3>4. QueueOfObject(o) \in Queue
      BY Constants
    <3> QED
      BY <3>3, <3>4, FirstSchedule DEF PositionOK
  <2> QED
    BY <2>1, <2>2 DEF EntriesOK
<1>8. ExactOK
  BY DEF ExactOK, FirstOf, Init
<1> QED
  BY <1>1, <1>2, <1>4, <1>5, <1>6, <1>7, <1>8 DEF ScheduleInv, ControlOK

LEMMA SchedulePreserved ==
  ASSUME AppOK, ScheduleInv, [Next]_vars
  PROVE  ScheduleInv'
<1>1. CASE UNCHANGED vars
  <2>1. UNCHANGED <<unprocessed, processed, output, nextId, scheduleQueue, lowestPos, uLock, oLock,
                    sLock, pc, obj, todo, inbox>>
    BY <1>1 DEF vars, objectVars, queueVars
  <2>2. DataOK'
    BY <2>1 DEF ScheduleInv, DataOK
  <2>3. ControlTypes' /\ WhereOK' /\ InsertOK' /\ OwnersOK'
    BY <2>1 DEF ScheduleInv, ControlOK, ControlTypes, WhereOK, InsertOK, InFront,
                    OwnersOK
  <2>4. EntriesOK' /\ ExactOK'
    BY <2>1 DEF ScheduleInv, ControlOK, EntriesOK, ExactOK
  <2> QED
    BY <2>2, <2>3, <2>4 DEF ScheduleInv, ControlOK
<1>2. CASE MasterStep
  BY <1>2, ReceiveKernelMessageStep, InsertStep, InsertFirstStep, Constants DEF MasterStep
<1>3. ASSUME NEW t \in Worker, WorkerStep(t) PROVE ScheduleInv'
  <2>1. CASE PeekLock(t)
    BY <2>1, PeekLockStep
  <2>2. CASE Peek(t)
    BY <2>2, PeekStep
  <2>3. CASE GetEventIfStraggler(t)
    BY <2>3, GetEventIfStragglerStep
  <2>4. CASE Rollback(t)
    BY <2>4, RollbackStep
  <2>5. CASE CoastForward(t)
    BY <2>5, CoastForwardStep
  <2>6. CASE GetEventWhileRollback(t)
    BY <2>6, GetEventWhileRollbackStep
  <2>7. CASE HandleAntiMessage(t)
    BY <2>7, HandleAntiMessageStep
  <2>8. CASE ExecuteProcess(t)
    BY <2>8, ExecuteProcessStep
  <2>9. CASE HaveMoreEvents(t)
    BY <2>9, HaveMoreEventsStep
  <2>10. CASE GetEvent(t)
    BY <2>10, GetEventStep
  <2>11. CASE Insert(t)
    BY <2>11, InsertStep, Constants
  <2>12. CASE InsertFirst(t)
    BY <2>12, InsertFirstStep, Constants
  <2>13. CASE UpdateLock(t)
    BY <2>13, UpdateLockStep
  <2>14. CASE UpdateScheduleQueue(t)
    BY <2>14, UpdateScheduleQueueStep
  <2> QED
    BY <1>3, <2>1, <2>2, <2>3, <2>4, <2>5, <2>6, <2>7, <2>8, <2>9, <2>10, <2>11, <2>12, <2>13, <2>14
       DEF WorkerStep
<1> QED
  BY <1>1, <1>2, <1>3 DEF Next

-----------------------------------------------------------------------------
(* What follows from the invariant *)

LEMMA ElementsOf ==
  ASSUME NEW T, NEW s \in Seq(T)
  PROVE  \A k \in DOMAIN s : s[k] \in T
OBVIOUS

LEMMA TypesFollow ==
  ASSUME ScheduleInv
  PROVE  TypeOK
<1>1. ASSUME NEW o \in Object
      PROVE  /\ \A e \in ToSet(Events(o)) : e.dst = o
             /\ \A j, k \in DOMAIN unprocessed[o] :
                   j < k => ~Less(unprocessed[o][k], unprocessed[o][j])
  <2>1. unprocessed[o] \in Seq(EventsOf(o)) /\ Sorted(unprocessed[o]) /\ processed[o] \in Seq(EventsOf(o))
    BY DEF ScheduleInv, DataOK, Pending
  <2>2. DOMAIN unprocessed[o] = 1..Len(unprocessed[o])
    BY <2>1
  <2>3. unprocessed[o] \o processed[o] \in Seq(EventsOf(o))
    BY <2>1
  <2>4. \A k \in DOMAIN (unprocessed[o] \o processed[o]) :
           (unprocessed[o] \o processed[o])[k] \in EventsOf(o)
    BY <2>3, ElementsOf
  <2>5. \A e \in ToSet(Events(o)) : e \in EventsOf(o)
    BY <2>4 DEF ToSet, Events
  <2> QED
    BY <2>1, <2>2, <2>5 DEF Sorted, EventsOf
<1>2. nextId \in [Object -> 0..MaxId]
  BY DEF ScheduleInv, DataOK
<1> QED
  BY <1>1, <1>2 DEF TypeOK, ScheduleInv, ControlOK, ControlTypes

\* The schedule queues hold an object at the position it knows of, and nowhere else.
LEMMA EntriesFollow ==
  ASSUME ScheduleInv, NEW o \in Object
  PROVE  /\ lowestPos[o] = End => Entries(o) = {}
         /\ lowestPos[o] # End => ScheduledFor(o, lowestPos[o])
<1>1. ASSUME NEW q \in Queue, NEW k \in DOMAIN scheduleQueue[q], scheduleQueue[q][k].dst = o
      PROVE  q = QueueOfObject(o) /\ scheduleQueue[q][k] = lowestPos[o] /\ lowestPos[o] # End
  <2>1. scheduleQueue[q] \in Seq(Event)
    BY DEF ScheduleInv, ControlOK, ControlTypes
  <2>2. k \in 1..Len(scheduleQueue[q]) /\ scheduleQueue[q][k] \in Event
    BY <2>1
  <2>3. QueueOK(q, scheduleQueue[q], lowestPos)
    BY DEF ScheduleInv, ControlOK, EntriesOK
  <2> QED
    BY <1>1, <2>2, <2>3, NotEnd DEF QueueOK
<1>2. ASSUME NEW x \in Entries(o)
      PROVE  /\ x = <<x[1], x[2]>> /\ x[1] \in Queue /\ x[2] \in DOMAIN scheduleQueue[x[1]]
             /\ scheduleQueue[x[1]][x[2]].dst = o
  BY DEF Entries
<1>3. ASSUME lowestPos[o] = End PROVE Entries(o) = {}
  BY <1>1, <1>2, <1>3
<1>4. ASSUME lowestPos[o] # End PROVE ScheduledFor(o, lowestPos[o])
  <2>1. QueueOfObject(o) \in Queue
    BY Constants
  <2>2. PositionOK(o, scheduleQueue[QueueOfObject(o)], lowestPos[o])
    BY DEF ScheduleInv, ControlOK, EntriesOK
  <2>3. PICK k \in 1..Len(scheduleQueue[QueueOfObject(o)]) :
           scheduleQueue[QueueOfObject(o)][k] = lowestPos[o]
    BY <1>4, <2>2 DEF PositionOK
  <2>4. lowestPos[o].dst = o
    BY <1>4, <2>2 DEF PositionOK, EventsOf
  <2>5. scheduleQueue[QueueOfObject(o)] \in Seq(Event)
    BY <2>1 DEF ScheduleInv, ControlOK, ControlTypes
  <2>6. DOMAIN scheduleQueue[QueueOfObject(o)] = 1..Len(scheduleQueue[QueueOfObject(o)])
    BY <2>5
  <2>7. <<QueueOfObject(o), k>> \in Entries(o)
    <3> DEFINE q == QueueOfObject(o)
    <3>1. <<q, k>> \in {q} \X DOMAIN scheduleQueue[q]
      BY <2>6
    <3>2. <<q, k>> \in UNION {{p} \X DOMAIN scheduleQueue[p] : p \in Queue}
      BY <2>1, <3>1
    <3> QED
      BY <2>3, <2>4, <3>2 DEF Entries
  <2>8. ASSUME NEW x \in Entries(o) PROVE x = <<QueueOfObject(o), k>>
    <3>1. x[1] = QueueOfObject(o) /\ x[2] \in 1..Len(scheduleQueue[QueueOfObject(o)])
          /\ scheduleQueue[QueueOfObject(o)][x[2]].dst = o
      BY <1>1, <1>2, <2>6
    <3>2. Distinct(scheduleQueue[QueueOfObject(o)])
      BY <2>1 DEF ScheduleInv, ControlOK, EntriesOK, QueueOK
    <3>3. x[2] = k
      BY <2>3, <2>4, <3>1, <3>2 DEF Distinct
    <3> QED
      BY <1>2, <3>1, <3>3
  <2>9. Entries(o) = {<<QueueOfObject(o), k>>}
    BY <2>7, <2>8
  <2> QED
    BY <2>3, <2>6, <2>9 DEF ScheduledFor
<1> QED
  BY <1>3, <1>4

LEMMA ExactFollows ==
  ASSUME ScheduleInv
  PROVE  ScheduleExact
<1> SUFFICES ASSUME NEW o \in Object, oLock[o] = NoOne, uLock[o] = NoOne
             PROVE  IF unprocessed[o] = <<>>
                    THEN Entries(o) = {} /\ lowestPos[o] = End
                    ELSE /\ ScheduledFor(o, Head(unprocessed[o]))
                         /\ lowestPos[o] = Head(unprocessed[o])
  BY DEF ScheduleExact
<1>1. lowestPos[o] = FirstOf(unprocessed[o])
  BY DEF ScheduleInv, ControlOK, ExactOK
<1>2. CASE unprocessed[o] = <<>>
  BY <1>1, <1>2, EntriesFollow DEF FirstOf
<1>3. CASE unprocessed[o] # <<>>
  <2>1. unprocessed[o] \in Seq(EventsOf(o))
    BY DEF ScheduleInv, DataOK, Pending
  <2>2. Head(unprocessed[o]) \in Event
    BY <1>3, <2>1 DEF EventsOf
  <2> QED
    BY <1>1, <1>3, <2>2, NotEnd, EntriesFollow DEF FirstOf
<1> QED
  BY <1>2, <1>3

LEMMA OneWorkerFollows ==
  ASSUME ScheduleInv
  PROVE  OneWorker
<1>1. ASSUME NEW t \in Worker, obj[t] # NoOne
      PROVE  /\ oLock[obj[t]] = t
             /\ Entries(obj[t]) = {}
             /\ \A u \in Worker : obj[u] = obj[t] => u = t
  <2>1. obj[t] \in Object
    BY <1>1, Constants DEF ScheduleInv, ControlOK, ControlTypes
  <2>2. oLock[obj[t]] = t /\ \A u \in Worker : obj[u] = obj[t] => oLock[obj[t]] = u
    BY <1>1 DEF ScheduleInv, ControlOK, OwnersOK
  <2>3. lowestPos[obj[t]] = End
    BY <2>1, <2>2, Constants DEF ScheduleInv, ControlOK, ExactOK
  <2> QED
    BY <2>1, <2>2, <2>3, EntriesFollow
<1> QED
  BY <1>1, PeekFinds DEF OneWorker

-----------------------------------------------------------------------------
(* Queues hold the events of their object, the unprocessed ones in the order of *)
(* the multiset, and every lock belongs to a thread that can take it: insert(), *)
(* rollback(), coastForward() and handleAntiMessage() keep it so.               *)
THEOREM QueuesKept ==
  ASSUME AppOK
  PROVE  Spec => []TypeOK
<1>1. Init => ScheduleInv
  BY ScheduleInitial
<1>2. ScheduleInv /\ [Next]_vars => ScheduleInv'
  BY SchedulePreserved
<1>3. ScheduleInv => TypeOK
  BY TypesFollow
<1> QED
  BY <1>1, <1>2, <1>3, PTL DEF Spec

(* An object that no thread has hold of is in the schedule queues once, for its *)
(* first event, and not at all when it has none: the decision insert() takes    *)
(* after isObjectScheduled() never races with updateScheduleQueueAfterExecute(). *)
THEOREM ScheduleKeptExact ==
  ASSUME AppOK
  PROVE  Spec => []ScheduleExact
<1>1. Init => ScheduleInv
  BY ScheduleInitial
<1>2. ScheduleInv /\ [Next]_vars => ScheduleInv'
  BY SchedulePreserved
<1>3. ScheduleInv => ScheduleExact
  BY ExactFollows
<1> QED
  BY <1>1, <1>2, <1>3, PTL DEF Spec

(* peek() gives an object to one worker at a time, out of the schedule queue,   *)
(* and never finds one there that another worker still has.                     *)
THEOREM OneWorkerAtATime ==
  ASSUME AppOK
  PROVE  Spec => []OneWorker
<1>1. Init => ScheduleInv
  BY ScheduleInitial
<1>2. ScheduleInv /\ [Next]_vars => ScheduleInv'
  BY SchedulePreserved
<1>3. ScheduleInv => OneWorker
  BY OneWorkerFollows
<1> QED
  BY <1>1, <1>2, <1>3, PTL DEF Spec

-----------------------------------------------------------------------------
(* Where a sequence holds an element *)

None(s, e) == \A k \in 1..Len(s) : s[k] # e

One(s, e) == \E k \in 1..Len(s) : s[k] = e /\ \A j \in 1..Len(s) : s[j] = e => j = k

\* The step from s to r does not change how often e is there.
Keeps(s, r, e) == (None(s, e) => None(r, e)) /\ (One(s, e) => One(r, e))

LEMMA NotBoth ==
  ASSUME NEW s, NEW e
  PROVE  ~(None(s, e) /\ One(s, e))
BY DEF None, One

LEMMA ConcatNone ==
  ASSUME NEW T, NEW s \in Seq(T), NEW r \in Seq(T), NEW e
  PROVE  None(s \o r, e) <=> None(s, e) /\ None(r, e)
<1>1. PICK m : m = s \o r
  OBVIOUS
<1>2. /\ Len(s) \in Nat /\ Len(r) \in Nat /\ Len(m) = Len(s) + Len(r)
      /\ \A k \in 1..Len(s) : m[k] = s[k]
      /\ \A k \in 1..Len(r) : m[Len(s) + k] = r[k]
  BY <1>1, Concatenated
<1>3. ASSUME NEW k \in 1..Len(m)
      PROVE  k \in 1..Len(s) \/ \E j \in 1..Len(r) : k = Len(s) + j
  <2>1. CASE k > Len(s)
    <3>1. k - Len(s) \in 1..Len(r) /\ k = Len(s) + (k - Len(s))
      BY <1>2, <2>1
    <3> QED
      BY <3>1
  <2> QED
    BY <1>2, <2>1
<1>4. \A k \in 1..Len(s) : k \in 1..Len(m)
  BY <1>2
<1>5. \A k \in 1..Len(r) : Len(s) + k \in 1..Len(m)
  BY <1>2
<1>6. ASSUME None(m, e) PROVE None(s, e) /\ None(r, e)
  BY <1>2, <1>4, <1>5, <1>6 DEF None
<1>7. ASSUME None(s, e), None(r, e) PROVE None(m, e)
  BY <1>2, <1>3, <1>7 DEF None
<1> QED
  BY <1>1, <1>6, <1>7

LEMMA ConcatOne ==
  ASSUME NEW T, NEW s \in Seq(T), NEW r \in Seq(T), NEW e
  PROVE  One(s \o r, e) <=> (One(s, e) /\ None(r, e)) \/ (None(s, e) /\ One(r, e))
<1>1. PICK m : m = s \o r
  OBVIOUS
<1>2. /\ Len(s) \in Nat /\ Len(r) \in Nat /\ Len(m) = Len(s) + Len(r)
      /\ \A k \in 1..Len(s) : m[k] = s[k]
      /\ \A k \in 1..Len(r) : m[Len(s) + k] = r[k]
  BY <1>1, Concatenated
<1>3. ASSUME NEW k \in 1..Len(m)
      PROVE  k \in 1..Len(s) \/ \E j \in 1..Len(r) : k = Len(s) + j
  <2>1. CASE k > Len(s)
    <3>1. k - Len(s) \in 1..Len(r) /\ k = Len(s) + (k - Len(s))
      BY <1>2, <2>1
    <3> QED
      BY <3>1
  <2> QED
    BY <1>2, <2>1
<1>4. \A k \in 1..Len(s) : k \in 1..Len(m)
  BY <1>2
<1>5. \A k \in 1..Len(r) : Len(s) + k \in 1..Len(m)
  BY <1>2
<1>6. \A j \in 1..Len(s), k \in 1..Len(r) : j # Len(s) + k
  BY <1>2
<1>7. \A j, k \in 1..Len(r) : Len(s) + j = Len(s) + k => j = k
  BY <1>2
<1>8. ASSUME One(m, e) PROVE (One(s, e) /\ None(r, e)) \/ (None(s, e) /\ One(r, e))
  <2>1. PICK k \in 1..Len(m) : m[k] = e /\ \A j \in 1..Len(m) : m[j] = e => j = k
    BY <1>8 DEF One
  <2>2. CASE k \in 1..Len(s)
    <3>1. One(s, e)
      BY <1>2, <1>4, <2>1, <2>2 DEF One
    <3>2. None(r, e)
      BY <1>2, <1>5, <1>6, <2>1, <2>2 DEF None
    <3> QED
      BY <3>1, <3>2
  <2>3. CASE \E i \in 1..Len(r) : k = Len(s) + i
    <3>1. PICK i \in 1..Len(r) : k = Len(s) + i
      BY <2>3
    <3>2. r[i] = e /\ \A j \in 1..Len(r) : r[j] = e => j = i
      BY <1>2, <1>5, <1>7, <2>1, <3>1
    <3>3. One(r, e)
      BY <3>2 DEF One
    <3>4. None(s, e)
      BY <1>2, <1>4, <1>6, <2>1, <3>1 DEF None
    <3> QED
      BY <3>3, <3>4
  <2> QED
    BY <1>3, <2>2, <2>3
<1>9. ASSUME One(s, e), None(r, e) PROVE One(m, e)
  <2>1. PICK k \in 1..Len(s) : s[k] = e /\ \A j \in 1..Len(s) : s[j] = e => j = k
    BY <1>9 DEF One
  <2>2. \A j \in 1..Len(m) : m[j] = e => j = k
    BY <1>2, <1>3, <1>9, <2>1, ZenonT(60) DEF None
  <2> QED
    BY <1>2, <1>4, <2>1, <2>2 DEF One
<1>10. ASSUME None(s, e), One(r, e) PROVE One(m, e)
  <2>1. PICK k \in 1..Len(r) : r[k] = e /\ \A j \in 1..Len(r) : r[j] = e => j = k
    BY <1>10 DEF One
  <2>2. ASSUME NEW j \in 1..Len(m), m[j] = e PROVE j = Len(s) + k
    <3>1. j \notin 1..Len(s)
      BY <1>2, <1>10, <2>2 DEF None
    <3>2. PICK i \in 1..Len(r) : j = Len(s) + i
      BY <1>3, <3>1
    <3>3. r[i] = e
      BY <1>2, <2>2, <3>2
    <3> QED
      BY <2>1, <3>2, <3>3
  <2>3. Len(s) + k \in 1..Len(m) /\ m[Len(s) + k] = e
    BY <1>2, <1>5, <2>1
  <2> QED
    BY <2>2, <2>3 DEF One
<1> QED
  BY <1>1, <1>8, <1>9, <1>10

\* Erasing other elements of a multiset, or arranging a sequence as one.
LEMMA MultisetKeeps ==
  ASSUME NEW s \in Seq(Event), NEW K \in SUBSET (1..Len(s)), NEW e,
         \A k \in 1..Len(s) : s[k] = e => k \in K
  PROVE  Keeps(s, Multiset(s, K), e)
<1>1. /\ IsFiniteSet(K) /\ Cardinality(K) \in Nat /\ K \in SUBSET Nat
      /\ \A k \in K : s[k] \in Event
  BY PositionsFinite
<1>2. PICK p \in [1..Cardinality(K) -> K] :
         /\ Multiset(s, K) = [i \in 1..Cardinality(K) |-> s[p[i]]]
         /\ \A k \in K : \E i \in 1..Cardinality(K) : p[i] = k
         /\ \A i, j \in 1..Cardinality(K) : i < j => p[i] # p[j] /\ NotAfter(s, p[i], p[j])
  BY <1>1, MultisetPlaces
<1>3. PICK n, r : n = Cardinality(K) /\ r = Multiset(s, K) /\ n \in Nat
  BY <1>1
<1>4. /\ r = [i \in 1..n |-> s[p[i]]] /\ p \in [1..n -> K]
      /\ \A k \in K : \E i \in 1..n : p[i] = k
      /\ \A i, j \in 1..n : i < j => p[i] # p[j]
  BY <1>2, <1>3
<1>5. Len(r) = n /\ \A i \in 1..n : r[i] = s[p[i]] /\ p[i] \in K /\ p[i] \in 1..Len(s)
  <2>1. DOMAIN r = 1..n /\ \A i \in 1..n : r[i] = s[p[i]]
    BY ONLY <1>4
  <2>2. Len(r) = n
    BY ONLY <1>3, <1>4
  <2>3. \A i \in 1..n : p[i] \in K
    BY ONLY <1>4
  <2> QED
    BY <2>1, <2>2, <2>3
<1>6. ASSUME None(s, e) PROVE None(r, e)
  BY <1>5, <1>6 DEF None
<1>7. ASSUME One(s, e) PROVE One(r, e)
  <2>1. PICK k \in 1..Len(s) : s[k] = e /\ \A j \in 1..Len(s) : s[j] = e => j = k
    BY <1>7 DEF One
  <2>2. k \in K
    BY <2>1
  <2>3. PICK i \in 1..n : p[i] = k
    BY <1>4, <2>2
  <2>4. ASSUME NEW j \in 1..n, r[j] = e PROVE j = i
    <3>1. p[j] = k
      BY <1>5, <2>1, <2>4
    <3>2. ~(i < j) /\ ~(j < i)
      BY <1>4, <2>3, <3>1
    <3> QED
      BY <1>3, <3>2
  <2>5. r[i] = e
    BY <1>5, <2>1, <2>3
  <2> QED
    BY <1>5, <2>4, <2>5 DEF One
<1> QED
  BY <1>3, <1>6, <1>7 DEF Keeps

\* insert() adds what it inserts and nothing else.
LEMMA InsertedAllKeeps ==
  ASSUME NEW s \in Seq(Event), NEW es \in Seq(Event), NEW e
  PROVE  Keeps(s \o es, InsertedAll(s, es), e)
<1>1. PICK m \in Seq(Event) : m = s \o es
  BY Concatenated
<1>2. PICK K \in SUBSET (1..Len(m)) : K = 1..Len(m)
  OBVIOUS
<1>3. InsertedAll(s, es) = Multiset(m, K)
  BY <1>1, <1>2 DEF InsertedAll
<1>4. Keeps(m, Multiset(m, K), e)
  BY <1>2, MultisetKeeps
<1> QED
  BY <1>1, <1>3, <1>4

LEMMA InsertedPlaces ==
  ASSUME NEW s \in Seq(Event), NEW x \in Event, NEW e
  PROVE  /\ e # x => Keeps(s, Inserted(s, x), e)
         /\ None(s, x) => One(Inserted(s, x), x)
<1>1. <<x>> \in Seq(Event)
  OBVIOUS
<1>2. Keeps(s \o <<x>>, Inserted(s, x), e) /\ Keeps(s \o <<x>>, Inserted(s, x), x)
  BY <1>1, InsertedAllKeeps DEF Inserted
<1>3. e # x => None(<<x>>, e)
  BY DEF None
<1>4. One(<<x>>, x)
  BY DEF One
<1>5. e # x => (None(s, e) => None(s \o <<x>>, e)) /\ (One(s, e) => One(s \o <<x>>, e))
  BY <1>1, <1>3, ConcatNone, ConcatOne
<1>6. None(s, x) => One(s \o <<x>>, x)
  BY <1>1, <1>4, ConcatOne
<1> QED
  BY <1>2, <1>5, <1>6 DEF Keeps

\* Events that go from the front of one queue to the end of the other.
LEMMA MovedKeeps ==
  ASSUME NEW u \in Seq(Event), NEW r \in Seq(Event), NEW p \in Seq(Event), NEW e
  PROVE  Keeps((r \o u) \o p, u \o (p \o r), e)
<1>1. r \o u \in Seq(Event) /\ p \o r \in Seq(Event)
  OBVIOUS
<1>2. /\ None((r \o u) \o p, e) <=> None(r \o u, e) /\ None(p, e)
      /\ None(u \o (p \o r), e) <=> None(u, e) /\ None(p \o r, e)
      /\ None(r \o u, e) <=> None(r, e) /\ None(u, e)
      /\ None(p \o r, e) <=> None(p, e) /\ None(r, e)
  BY <1>1, ConcatNone
<1>3. One((r \o u) \o p, e) <=> (One(r \o u, e) /\ None(p, e)) \/ (None(r \o u, e) /\ One(p, e))
  BY <1>1, ConcatOne
<1>4. One(u \o (p \o r), e) <=> (One(u, e) /\ None(p \o r, e)) \/ (None(u, e) /\ One(p \o r, e))
  BY <1>1, ConcatOne
<1>5. /\ One(r \o u, e) <=> (One(r, e) /\ None(u, e)) \/ (None(r, e) /\ One(u, e))
      /\ One(p \o r, e) <=> (One(p, e) /\ None(r, e)) \/ (None(p, e) /\ One(r, e))
  BY ConcatOne
<1> QED
  BY <1>2, <1>3, <1>4, <1>5 DEF Keeps

\* Events that a rollback gives back.
LEMMA ReturnedKeeps ==
  ASSUME NEW u \in Seq(Event), NEW p \in Seq(Event), NEW r \in Seq(Event), NEW e
  PROVE  Keeps(u \o (p \o r), InsertedAll(u, r) \o p, e)
<1>1. PICK v \in Seq(Event) : v = InsertedAll(u, r)
  BY InsertedAllOK
<1>2. Keeps(u \o r, v, e)
  BY <1>1, InsertedAllKeeps
<1>3. p \o r \in Seq(Event)
  OBVIOUS
<1>4. /\ None(u \o (p \o r), e) <=> None(u, e) /\ None(p \o r, e)
      /\ None(p \o r, e) <=> None(p, e) /\ None(r, e)
      /\ None(u \o r, e) <=> None(u, e) /\ None(r, e)
      /\ None(v \o p, e) <=> None(v, e) /\ None(p, e)
  BY <1>3, ConcatNone
<1>5. One(u \o (p \o r), e) <=> (One(u, e) /\ None(p \o r, e)) \/ (None(u, e) /\ One(p \o r, e))
  BY <1>3, ConcatOne
<1>6. /\ One(p \o r, e) <=> (One(p, e) /\ None(r, e)) \/ (None(p, e) /\ One(r, e))
      /\ One(u \o r, e) <=> (One(u, e) /\ None(r, e)) \/ (None(u, e) /\ One(r, e))
      /\ One(v \o p, e) <=> (One(v, e) /\ None(p, e)) \/ (None(v, e) /\ One(p, e))
  BY ConcatOne
<1> QED
  BY <1>1, <1>2, <1>4, <1>5, <1>6 DEF Keeps

\* A change of the first of two queues.
LEMMA KeepsBefore ==
  ASSUME NEW u \in Seq(Event), NEW v \in Seq(Event), NEW p \in Seq(Event), NEW e, Keeps(u, v, e)
  PROVE  Keeps(u \o p, v \o p, e)
<1>1. /\ None(u \o p, e) <=> None(u, e) /\ None(p, e)
      /\ None(v \o p, e) <=> None(v, e) /\ None(p, e)
  BY ConcatNone
<1>2. /\ One(u \o p, e) <=> (One(u, e) /\ None(p, e)) \/ (None(u, e) /\ One(p, e))
      /\ One(v \o p, e) <=> (One(v, e) /\ None(p, e)) \/ (None(v, e) /\ One(p, e))
  BY ConcatOne
<1> QED
  BY <1>1, <1>2 DEF Keeps

LEMMA SplitAt ==
  ASSUME NEW T, NEW s \in Seq(T), NEW n \in 0..Len(s)
  PROVE  /\ SubSeq(s, 1, n) \in Seq(T) /\ SubSeq(s, n + 1, Len(s)) \in Seq(T)
         /\ s = SubSeq(s, 1, n) \o SubSeq(s, n + 1, Len(s))
<1>1. Len(s) \in Nat /\ n \in Nat /\ n <= Len(s)
  OBVIOUS
<1>2. PICK a, b : a = SubSeq(s, 1, n) /\ b = SubSeq(s, n + 1, Len(s))
  OBVIOUS
<1>3. /\ a \in Seq(T) /\ b \in Seq(T) /\ Len(a) = n /\ Len(b) = Len(s) - n
      /\ \A k \in 1..n : a[k] = s[k]
      /\ \A k \in 1..Len(b) : b[k] = s[n + k]
  BY <1>1, <1>2
<1>4. PICK m : m = a \o b
  OBVIOUS
<1>5. /\ m \in Seq(T) /\ Len(m) = Len(s)
      /\ \A k \in 1..n : m[k] = a[k]
      /\ \A k \in 1..Len(b) : m[n + k] = b[k]
  BY <1>1, <1>3, <1>4, Concatenated
<1>6. ASSUME NEW k \in 1..Len(s) PROVE m[k] = s[k]
  <2>1. CASE k <= n
    BY <1>1, <1>3, <1>5, <2>1
  <2>2. CASE k > n
    <3>1. PICK j \in 1..Len(b) : k = n + j
      <4>1. k - n \in 1..Len(b) /\ k = n + (k - n)
        BY <1>1, <1>3, <2>2
      <4> QED
        BY <4>1
    <3> QED
      BY <1>3, <1>5, <3>1
  <2> QED
    BY <1>1, <2>1, <2>2
<1>7. m = s
  BY <1>5, <1>6
<1> QED
  BY <1>2, <1>3, <1>4, <1>7

-----------------------------------------------------------------------------
(* The invariant that follows single events *)

Sending == {"send", "sendFirst"}
Cancelling == {"cancel", "cancelFirst"}

\* Where a worker has a straggler it has not dealt with.
Handling == Cancelling \cup {"rollback", "coast", "anti"}

\* What other managers send.
Foreign == {e \in Event : e.src \notin Object /\ \A c \in e.cancels : c[1] \notin Object}

\* An event with a number its object has given away, and no anti-message for an
\* event that its object stands by.
Known ==
    {e \in Event :
       /\ e.src \in Object /\ ~e.neg => e.id < nextId[e.src]
       /\ \A c \in e.cancels : c[1] \in Object =>
             c[2] < nextId[c[1]] /\ \A k \in 1..Len(output[c[1]]) : output[c[1]][k].id # c[2]}

\* What an object has sent.
Own(s) == {e \in Event : ~e.neg /\ e.src = s /\ e.cancels = {} /\ e.id < nextId[s]}

Increasing(s) == \A j, k \in 1..Len(s) : j < k => s[j].id < s[k].id

OutputOK == \A s \in Object : output[s] \in Seq(Own(s)) /\ Increasing(output[s])

KnownOK ==
    /\ DOMAIN straggler = Thread
    /\ \A o \in Object : unprocessed[o] \in Seq(Known) /\ processed[o] \in Seq(Known)
    /\ \A t \in Worker : pc[t] \in Handling => straggler[t] \in Known

\* What a thread has to insert, by where it is.
TodoOK ==
    /\ inbox \in Seq(Foreign) /\ todo[Master] \in Seq(Foreign)
    /\ \A t \in Worker :
         /\ pc[t] \in Cancelling => todo[t] \in Seq({e \in Known : e.neg})
         /\ pc[t] \notin Cancelling \cup Sending => todo[t] = <<>>

SendOK ==
    \A t \in Worker :
      /\ Increasing(ToInsert(t))
      /\ \A i \in 1..Len(ToInsert(t)) :
            \E k \in 1..Len(output[obj[t]]) : output[obj[t]][k] = ToInsert(t)[i]

\* The worker that has s is going to insert e.
Waits(s, e) == \E t \in Worker : obj[t] = s /\ ~None(ToInsert(t), e)

\* An event of an output queue is to be inserted, or in a queue of its receiver.
Placed(s, e) ==
    \/ Waits(s, e) /\ None(Events(e.dst), e)
    \/ ~Waits(s, e) /\ One(Events(e.dst), e)

PlaceOK == \A s \in Object : \A k \in 1..Len(output[s]) : Placed(s, output[s][k])

LostInv == OutputOK /\ KnownOK /\ TodoOK /\ SendOK /\ PlaceOK

Sent(e) ==
    /\ e \in Event /\ ~e.neg /\ e.src \in Object /\ e.dst \in Object
    /\ \E k \in 1..Len(output[e.src]) : output[e.src][k] = e

LEMMA OutputIsSent ==
  ASSUME OutputOK, NEW s \in Object, NEW k \in 1..Len(output[s])
  PROVE  /\ Sent(output[s][k]) /\ output[s][k] \in Own(s)
         /\ output[s][k].src = s /\ output[s][k].dst \in Object /\ output[s][k].id < nextId[s]
<1>1. output[s][k] \in Own(s)
  BY DEF OutputOK
<1>2. output[s][k] \in Event /\ ~output[s][k].neg /\ output[s][k].src = s /\ output[s][k].id < nextId[s]
  BY <1>1 DEF Own
<1>3. output[s][k].dst \in Object
  BY <1>2 DEF Event
<1> QED
  BY <1>1, <1>2, <1>3 DEF Sent

LEMMA ToInsertIs ==
  ASSUME NEW t
  PROVE  /\ pc[t] = "send" => ToInsert(t) = todo[t]
         /\ pc[t] = "sendFirst" => ToInsert(t) = Tail(todo[t])
         /\ pc[t] \notin Sending => ToInsert(t) = <<>>
         /\ pc'[t] = "send" => ToInsert(t)' = todo'[t]
         /\ pc'[t] = "sendFirst" => ToInsert(t)' = Tail(todo'[t])
         /\ pc'[t] \notin Sending => ToInsert(t)' = <<>>
         /\ pc'[t] = pc[t] /\ todo'[t] = todo[t] => ToInsert(t)' = ToInsert(t)
BY DEF ToInsert, Sending

LEMMA SeqSubset ==
  ASSUME NEW S, NEW T, S \subseteq T, NEW s \in Seq(S)
  PROVE  s \in Seq(T)
OBVIOUS

LEMMA ElementsIn ==
  ASSUME NEW T, NEW q \in Seq(Event), \A k \in 1..Len(q) : q[k] \in T
  PROVE  q \in Seq(T)
<1>1. Len(q) \in Nat /\ q = [k \in 1..Len(q) |-> q[k]]
  OBVIOUS
<1>2. PICK n \in Nat : n = Len(q)
  BY <1>1
<1>3. q \in [1..n -> T]
  BY <1>1, <1>2
<1> QED
  BY <1>2, <1>3

LEMMA KeepsSame == \A s, e : Keeps(s, s, e)
BY DEF Keeps

\* One worker has an object.
LEMMA OneHas ==
  ASSUME ScheduleInv, NEW t \in Worker, NEW u \in Worker, obj[t] \in Object, obj[u] = obj[t]
  PROVE  u = t
<1>1. obj[t] # NoOne
  BY Constants
<1> QED
  BY <1>1 DEF ScheduleInv, ControlOK, OwnersOK

\* Thread t takes a step that sends and cancels nothing, at the queues of o.
Quiet(t, o) ==
    /\ UNCHANGED <<output, nextId>>
    /\ DOMAIN straggler' = Thread
    /\ \A u \in Thread : u # t => /\ pc'[u] = pc[u] /\ todo'[u] = todo[u]
                                  /\ obj'[u] = obj[u] /\ straggler'[u] = straggler[u]
    /\ \A x \in Object : x # o => unprocessed'[x] = unprocessed[x] /\ processed'[x] = processed[x]
    /\ o \in Object => unprocessed'[o] \in Seq(Known) /\ processed'[o] \in Seq(Known)
    /\ inbox' \in Seq(Foreign) /\ todo'[Master] \in Seq(Foreign)
    /\ t \in Worker =>
         /\ pc'[t] \in Handling => straggler'[t] \in Known
         /\ pc'[t] \in Cancelling => todo'[t] \in Seq({e \in Known : e.neg})
         /\ pc'[t] \notin Cancelling \cup Sending => todo'[t] = <<>>

LEMMA QuietKeepsKnown ==
  ASSUME ScheduleInv, LostInv, NEW t \in Thread, NEW o, Quiet(t, o)
  PROVE  OutputOK' /\ KnownOK' /\ TodoOK' /\ output' = output
<1>1. output' = output /\ nextId' = nextId
  BY DEF Quiet
<1>2. Known' = Known
  BY <1>1 DEF Known
<1>3. \A s \in Object : Own(s)' = Own(s)
  BY <1>1 DEF Own
<1>4. OutputOK'
  BY <1>1, <1>3 DEF LostInv, OutputOK, Increasing
<1>5. \A u \in Worker : u \in Thread
  BY Constants
<1>6. KnownOK'
  <2>1. \A x \in Object : unprocessed'[x] \in Seq(Known) /\ processed'[x] \in Seq(Known)
    BY DEF Quiet, LostInv, KnownOK
  <2>2. ASSUME NEW u \in Worker, pc'[u] \in Handling PROVE straggler'[u] \in Known
    BY <1>5, <2>2 DEF Quiet, LostInv, KnownOK
  <2>3. DOMAIN straggler' = Thread
    BY DEF Quiet
  <2> QED
    BY <1>2, <2>1, <2>2, <2>3 DEF KnownOK
<1>7. TodoOK'
  <2>1. ASSUME NEW u \in Worker
        PROVE  /\ pc'[u] \in Cancelling => todo'[u] \in Seq({e \in Known : e.neg})
               /\ pc'[u] \notin Cancelling \cup Sending => todo'[u] = <<>>
    BY <1>5 DEF Quiet, LostInv, TodoOK
  <2>2. inbox' \in Seq(Foreign) /\ todo'[Master] \in Seq(Foreign)
    BY DEF Quiet
  <2> QED
    BY <1>2, <2>1, <2>2 DEF TodoOK
<1> QED
  BY <1>1, <1>4, <1>6, <1>7

LEMMA QuietStep ==
  ASSUME ScheduleInv, LostInv, NEW t \in Thread, NEW o, Quiet(t, o),
         o \in Object => \A e \in Event : Sent(e) => Keeps(Events(o), Events(o)', e),
         t \in Worker => ToInsert(t)' = ToInsert(t) /\ (obj'[t] = obj[t] \/ ToInsert(t) = <<>>)
  PROVE  LostInv'
<1>1. OutputOK' /\ KnownOK' /\ TodoOK' /\ output' = output
  BY QuietKeepsKnown
<1>2. \A u \in Worker : u \in Thread
  BY Constants
<1>3. ASSUME NEW u \in Worker
      PROVE  ToInsert(u)' = ToInsert(u) /\ (obj'[u] = obj[u] \/ ToInsert(u) = <<>>)
  <2>1. CASE u # t
    <3>1. pc'[u] = pc[u] /\ todo'[u] = todo[u] /\ obj'[u] = obj[u]
      BY <1>2, <2>1 DEF Quiet
    <3> QED
      BY <3>1, ToInsertIs
  <2> QED
    BY <2>1
<1>4. SendOK'
  <2>1. ASSUME NEW u \in Worker
        PROVE  /\ Increasing(ToInsert(u)')
               /\ \A i \in 1..Len(ToInsert(u)') :
                     \E k \in 1..Len(output[obj'[u]]) : output[obj'[u]][k] = ToInsert(u)'[i]
    <3>1. /\ Increasing(ToInsert(u))
          /\ \A i \in 1..Len(ToInsert(u)) :
                \E k \in 1..Len(output[obj[u]]) : output[obj[u]][k] = ToInsert(u)[i]
      BY DEF LostInv, SendOK
    <3>2. CASE obj'[u] = obj[u]
      BY <1>3, <3>1, <3>2
    <3>3. CASE ToInsert(u) = <<>>
      <4>1. ToInsert(u)' = <<>> /\ Len(<<>>) = 0
        BY <1>3, <3>3
      <4> QED
        BY <4>1 DEF Increasing
    <3> QED
      BY <1>3, <3>2, <3>3
  <2> QED
    BY <1>1, <2>1 DEF SendOK, Increasing
<1>5. ASSUME NEW s, NEW e PROVE Waits(s, e)' <=> Waits(s, e)
  <2>1. None(<<>>, e)
    BY DEF None
  <2>2. \A u \in Worker : obj'[u] = s /\ ~None(ToInsert(u)', e) <=> obj[u] = s /\ ~None(ToInsert(u), e)
    BY <1>3, <2>1
  <2> QED
    BY <2>2 DEF Waits, None
<1>6. ASSUME NEW x \in Object, NEW e \in Event, Sent(e) PROVE Keeps(Events(x), Events(x)', e)
  <2>1. CASE x = o
    BY <1>6, <2>1
  <2>2. CASE x # o
    <3>1. Events(x)' = Events(x)
      BY <2>2 DEF Quiet, Events
    <3> QED
      BY <3>1, KeepsSame
  <2> QED
    BY <2>1, <2>2
<1>7. PlaceOK'
  <2> SUFFICES ASSUME NEW s \in Object, NEW k \in 1..Len(output[s])
               PROVE  Placed(s, output[s][k])'
    BY <1>1 DEF PlaceOK
  <2>1. PICK e : e = output[s][k]
    OBVIOUS
  <2>2. Sent(e) /\ e \in Event /\ e.dst \in Object
    <3>1. Sent(e)
      BY <2>1, OutputIsSent DEF LostInv
    <3> QED
      BY <3>1 DEF Sent
  <2>3. Keeps(Events(e.dst), Events(e.dst)', e)
    BY <1>6, <2>2
  <2>4. Placed(s, e)
    BY <2>1 DEF LostInv, PlaceOK
  <2>5. Placed(s, e)'
    BY <1>5, <2>3, <2>4 DEF Placed, Keeps, None, One
  <2> QED
    BY <1>1, <2>1, <2>5
<1> QED
  BY <1>1, <1>4, <1>7 DEF LostInv
-----------------------------------------------------------------------------
(* Steps that insert nothing *)

\* A worker with nothing to insert takes a step at the queues of o.
LEMMA EmptyHandsStep ==
  ASSUME ScheduleInv, LostInv, NEW t \in Worker, NEW o, NEW stage,
         pc[t] # "sendFirst", stage \notin First, todo[t] = <<>>,
         pc' = [pc EXCEPT ![t] = stage], UNCHANGED <<todo, output, nextId, inbox>>,
         DOMAIN straggler' = Thread,
         \A u \in Thread : u # t => obj'[u] = obj[u] /\ straggler'[u] = straggler[u],
         stage \in Handling => straggler'[t] \in Known,
         \A x \in Object : x # o => unprocessed'[x] = unprocessed[x] /\ processed'[x] = processed[x],
         o \in Object => /\ unprocessed'[o] \in Seq(Known) /\ processed'[o] \in Seq(Known)
                         /\ \A e \in Event : Sent(e) => Keeps(Events(o), Events(o)', e)
  PROVE  LostInv'
<1>1. t \in Thread /\ Master \in Thread /\ t # Master
  BY Constants
<1>2. pc'[t] = stage /\ \A u \in Thread : u # t => pc'[u] = pc[u]
  BY <1>1 DEF ScheduleInv, ControlOK, ControlTypes
<1>3. <<>> \in Seq({e \in Known : e.neg})
  OBVIOUS
<1>4. Quiet(t, o)
  BY <1>1, <1>2, <1>3 DEF Quiet, LostInv, TodoOK
<1>5. ToInsert(t) = <<>> /\ ToInsert(t)' = <<>>
  BY <1>2, ToInsertIs DEF Sending, First
<1> QED
  BY <1>1, <1>4, <1>5, QuietStep

LEMMA NothingToInsert ==
  ASSUME LostInv, NEW t \in Worker, pc[t] \notin Cancelling \cup Sending
  PROVE  todo[t] = <<>>
BY DEF LostInv, TodoOK

LEMMA PeekLosesNothing ==
  ASSUME ScheduleInv, LostInv, NEW t \in Worker, PeekLock(t) \/ Peek(t)
  PROVE  LostInv'
<1>1. pc[t] \in {"idle", "peek"}
  BY DEF PeekLock, Peek
<1>2. todo[t] = <<>>
  BY <1>1, NothingToInsert DEF Cancelling, Sending
<1>3. PICK stage \in {"peek", "straggler"} : pc' = [pc EXCEPT ![t] = stage]
  BY DEF PeekLock, Peek
<1>4. UNCHANGED <<unprocessed, processed, todo, output, nextId, inbox, straggler>>
  BY DEF PeekLock, Peek, objectVars
<1>5. \A u \in Thread : u # t => obj'[u] = obj[u]
  BY Constants DEF PeekLock, Peek, ScheduleInv, ControlOK, ControlTypes
<1>6. DOMAIN straggler = Thread
  BY DEF LostInv, KnownOK
<1>7. NoOne \notin Object
  BY Constants
<1> QED
  BY ONLY ScheduleInv, LostInv, t \in Worker, <1>1, <1>2, <1>3, <1>4, <1>5, <1>6, <1>7,
          EmptyHandsStep DEF First, Handling, Cancelling

\* The queues of an object that a step leaves alone.
LEMMA QueuesKnown ==
  ASSUME LostInv, NEW o \in Object
  PROVE  unprocessed[o] \in Seq(Known) /\ processed[o] \in Seq(Known) /\ Known \subseteq Event
         /\ unprocessed[o] \in Seq(Event) /\ processed[o] \in Seq(Event)
<1>1. unprocessed[o] \in Seq(Known) /\ processed[o] \in Seq(Known)
  BY DEF LostInv, KnownOK
<1>2. Known \subseteq Event
  BY DEF Known
<1> QED
  BY <1>1, <1>2, SeqSubset

LEMMA UpdateLosesNothing ==
  ASSUME ScheduleInv, LostInv, NEW t \in Worker, UpdateLock(t) \/ UpdateScheduleQueue(t)
  PROVE  LostInv'
<1>1. pc[t] \in {"update", "updateFirst"}
  BY DEF UpdateLock, UpdateScheduleQueue
<1>2. todo[t] = <<>>
  BY <1>1, NothingToInsert DEF Cancelling, Sending
<1>3. PICK stage \in {"updateFirst", "idle"} : pc' = [pc EXCEPT ![t] = stage]
  BY DEF UpdateLock, UpdateScheduleQueue
<1>4. UNCHANGED <<unprocessed, processed, todo, output, nextId, inbox>>
  BY DEF UpdateLock, UpdateScheduleQueue, objectVars
<1>5. DOMAIN straggler = Thread
  BY DEF LostInv, KnownOK
<1>6. \A u \in Thread : u # t => obj'[u] = obj[u] /\ straggler'[u] = straggler[u]
  BY <1>5, Constants DEF UpdateLock, UpdateScheduleQueue, ScheduleInv, ControlOK, ControlTypes
<1>7. DOMAIN straggler' = Thread
  BY <1>5 DEF UpdateLock, UpdateScheduleQueue
<1>8. NoOne \notin Object
  BY Constants
<1> QED
  BY ONLY ScheduleInv, LostInv, t \in Worker, <1>1, <1>2, <1>3, <1>4, <1>6, <1>7, <1>8,
          EmptyHandsStep DEF First, Handling, Cancelling

LEMMA HaveMoreEventsLosesNothing ==
  ASSUME ScheduleInv, LostInv, NEW t \in Worker, HaveMoreEvents(t)
  PROVE  LostInv'
<1>1. pc[t] = "send" /\ todo[t] = <<>>
  BY DEF HaveMoreEvents
<1>2. PICK stage \in {"more", "update"} : pc' = [pc EXCEPT ![t] = stage]
  BY DEF HaveMoreEvents
<1>3. UNCHANGED <<unprocessed, processed, todo, output, nextId, inbox, obj, straggler>>
  BY DEF HaveMoreEvents, objectVars
<1>4. DOMAIN straggler = Thread /\ NoOne \notin Object
  BY Constants DEF LostInv, KnownOK
<1> QED
  BY ONLY ScheduleInv, LostInv, t \in Worker, <1>1, <1>2, <1>3, <1>4,
          EmptyHandsStep DEF First, Handling, Cancelling

\* The worker finds no event it may execute.
LEMMA NoEventLosesNothing ==
  ASSUME ScheduleInv, LostInv, NEW t \in Worker, ~Executable(obj[t]),
         ExecuteProcess(t) \/ GetEvent(t)
  PROVE  LostInv'
<1>1. pc[t] \in {"execute", "more"}
  BY DEF ExecuteProcess, GetEvent
<1>2. todo[t] = <<>>
  BY <1>1, NothingToInsert DEF Cancelling, Sending
<1>3. PICK stage \in {"send", "update"} : pc' = [pc EXCEPT ![t] = stage]
  BY DEF ExecuteProcess, GetEvent
<1>4. UNCHANGED <<unprocessed, processed, todo, output, nextId, inbox, obj, straggler>>
  BY DEF ExecuteProcess, GetEvent
<1>5. DOMAIN straggler = Thread /\ NoOne \notin Object
  BY Constants DEF LostInv, KnownOK
<1> QED
  BY ONLY ScheduleInv, LostInv, t \in Worker, <1>1, <1>2, <1>3, <1>4, <1>5,
          EmptyHandsStep DEF First, Handling, Cancelling

LEMMA GetEventIfStragglerLosesNothing ==
  ASSUME ScheduleInv, LostInv, NEW t \in Worker, GetEventIfStraggler(t)
  PROVE  LostInv'
<1>1. PICK o \in Object : o = obj[t] /\ t \in Thread
  BY HasObject DEF GetEventIfStraggler
<1>2. pc[t] = "straggler" /\ todo[t] = <<>>
  BY NothingToInsert DEF GetEventIfStraggler, Cancelling, Sending
<1>3. UNCHANGED <<processed, todo, output, nextId, inbox, obj>>
  BY DEF GetEventIfStraggler, objectVars
<1>4. DOMAIN straggler = Thread /\ DOMAIN unprocessed = Object
  BY DEF LostInv, KnownOK, ScheduleInv, DataOK
<1>5. PICK u \in Seq(Known), p \in Seq(Known) : u = unprocessed[o] /\ p = processed[o]
  BY QueuesKnown
<1>6. CASE u = <<>> \/ (~Head(u).neg /\ Head(u).recv >= time[o])
  <2>1. pc' = [pc EXCEPT ![t] = "execute"] /\ UNCHANGED <<unprocessed, straggler>>
    BY <1>1, <1>5, <1>6 DEF GetEventIfStraggler
  <2>2. NoOne \notin Object
    BY Constants
  <2> QED
    BY ONLY ScheduleInv, LostInv, t \in Worker, <1>2, <1>3, <1>4, <2>1, <2>2,
            EmptyHandsStep DEF First, Handling, Cancelling
<1>7. CASE ~(u = <<>> \/ (~Head(u).neg /\ Head(u).recv >= time[o]))
  <2>1. PICK stage \in {"rollback", "anti"} : pc' = [pc EXCEPT ![t] = stage]
    BY <1>1, <1>5, <1>7 DEF GetEventIfStraggler
  <2>2. /\ unprocessed' = IF Head(u).neg THEN [unprocessed EXCEPT ![o] = Tail(u)] ELSE unprocessed
        /\ straggler' = [straggler EXCEPT ![t] = Head(u)]
    BY <1>1, <1>5, <1>7 DEF GetEventIfStraggler
  <2>3. Tail(u) \in Seq(Known) /\ Head(u) \in Known /\ u = <<Head(u)>> \o Tail(u)
    BY <1>5, <1>7
  <2>4. /\ DOMAIN straggler' = Thread /\ straggler'[t] \in Known
        /\ \A w \in Thread : w # t => straggler'[w] = straggler[w]
    BY <1>1, <1>4, <2>2, <2>3
  <2>5. PICK v \in Seq(Known) : v = IF Head(u).neg THEN Tail(u) ELSE u
    BY <2>3
  <2>6. unprocessed'[o] = v /\ \A x \in Object : x # o => unprocessed'[x] = unprocessed[x]
    BY <1>4, <1>5, <2>2, <2>5
  <2>7. ASSUME NEW e \in Event, Sent(e) PROVE Keeps(u \o p, v \o p, e)
    <3>1. CASE Head(u).neg
      <4>1. Head(u) # e
        BY <2>7, <3>1 DEF Sent
      <4>2. None(<<Head(u)>>, e)
        BY <4>1 DEF None
      <4>3. <<Head(u)>> \in Seq(Known)
        BY <2>3
      <4>4. (None(u, e) => None(v, e)) /\ (One(u, e) => One(v, e))
        <5>1. PICK h : h = <<Head(u)>>
          OBVIOUS
        <5>2. h \in Seq(Known) /\ v \in Seq(Known) /\ u = h \o v /\ None(h, e)
          BY <2>3, <2>5, <3>1, <4>2, <4>3, <5>1
        <5>3. /\ None(h \o v, e) <=> None(h, e) /\ None(v, e)
              /\ One(h \o v, e) <=> (One(h, e) /\ None(v, e)) \/ (None(h, e) /\ One(v, e))
          BY <5>2, ConcatNone, ConcatOne
        <5> QED
          BY <5>2, <5>3, NotBoth
      <4>5. /\ None(u \o p, e) <=> None(u, e) /\ None(p, e)
            /\ None(v \o p, e) <=> None(v, e) /\ None(p, e)
        BY ConcatNone
      <4>6. /\ One(u \o p, e) <=> (One(u, e) /\ None(p, e)) \/ (None(u, e) /\ One(p, e))
            /\ One(v \o p, e) <=> (One(v, e) /\ None(p, e)) \/ (None(v, e) /\ One(p, e))
        BY ConcatOne
      <4> QED
        BY <4>4, <4>5, <4>6 DEF Keeps
    <3>2. CASE ~Head(u).neg
      BY <2>5, <3>2, KeepsSame
    <3> QED
      BY <3>1, <3>2
  <2>8. \A e \in Event : Sent(e) => Keeps(Events(o), Events(o)', e)
    BY <1>3, <1>5, <2>6, <2>7 DEF Events
  <2>9. unprocessed'[o] \in Seq(Known) /\ processed'[o] \in Seq(Known)
    BY <1>3, <1>5, <2>6
  <2> QED
    BY ONLY ScheduleInv, LostInv, t \in Worker, <1>2, <1>3, <2>1, <2>4, <2>6, <2>8, <2>9,
            EmptyHandsStep DEF First, Handling, Cancelling
<1> QED
  BY <1>6, <1>7

LEMMA CoastForwardLosesNothing ==
  ASSUME ScheduleInv, LostInv, NEW t \in Worker, CoastForward(t)
  PROVE  LostInv'
<1>1. pc[t] = "cancel" /\ todo[t] = <<>>
  BY DEF CoastForward
<1>2. UNCHANGED <<unprocessed, processed, output, nextId, todo, inbox, obj, straggler>>
  BY DEF CoastForward
<1>3. DOMAIN straggler = Thread /\ straggler[t] \in Known /\ NoOne \notin Object
  BY <1>1, Constants DEF LostInv, KnownOK, Handling, Cancelling
<1>4. PICK stage \in {"coast", "anti", "update"} : pc' = [pc EXCEPT ![t] = stage]
  BY DEF CoastForward
<1> QED
  BY ONLY ScheduleInv, LostInv, t \in Worker, <1>1, <1>2, <1>3, <1>4, EmptyHandsStep DEF First

LEMMA GetEventWhileRollbackLosesNothing ==
  ASSUME ScheduleInv, LostInv, NEW t \in Worker, GetEventWhileRollback(t)
  PROVE  LostInv'
<1>1. PICK o \in Object : o = obj[t] /\ t \in Thread
  BY HasObject DEF GetEventWhileRollback
<1>2. pc[t] = "coast" /\ todo[t] = <<>> /\ pc' = [pc EXCEPT ![t] = "cancel"]
  BY NothingToInsert DEF GetEventWhileRollback, Cancelling, Sending
<1>3. UNCHANGED <<output, nextId, todo, inbox, obj, straggler>>
  BY DEF GetEventWhileRollback
<1>4. /\ DOMAIN straggler = Thread /\ DOMAIN unprocessed = Object /\ DOMAIN processed = Object
      /\ straggler[t] \in Known
  BY <1>2 DEF LostInv, KnownOK, ScheduleInv, DataOK, Handling
<1>5. PICK u \in Seq(Known), p \in Seq(Known) : u = unprocessed[o] /\ p = processed[o]
  BY QueuesKnown
<1>6. CASE Executable(o)
  <2>1. u # <<>>
    BY <1>5, <1>6 DEF Executable
  <2>2. PICK r \in Seq(Known), v \in Seq(Known) : r = <<Head(u)>> /\ v = Tail(u) /\ u = r \o v
    <3>1. Tail(u) \in Seq(Known) /\ <<Head(u)>> \in Seq(Known) /\ u = <<Head(u)>> \o Tail(u)
      BY <2>1
    <3> QED
      BY <3>1
  <2>3. Append(p, Head(u)) = p \o r /\ p \o r \in Seq(Known)
    <3>1. Head(u) \in Known
      BY <2>1
    <3> QED
      BY <2>2, <3>1
  <2>4. /\ unprocessed' = [unprocessed EXCEPT ![o] = Tail(u)]
        /\ processed' = [processed EXCEPT ![o] = Append(p, Head(u))]
    BY <1>1, <1>5, <1>6 DEF GetEventWhileRollback
  <2>5. /\ unprocessed'[o] = v /\ processed'[o] = p \o r
        /\ \A x \in Object : x # o => unprocessed'[x] = unprocessed[x] /\ processed'[x] = processed[x]
    BY <1>4, <2>2, <2>3, <2>4
  <2>6. r \in Seq(Event) /\ v \in Seq(Event) /\ p \in Seq(Event)
    BY SeqSubset DEF Known
  <2>7. \A e \in Event : Sent(e) => Keeps(Events(o), Events(o)', e)
    BY <1>5, <2>2, <2>5, <2>6, MovedKeeps DEF Events
  <2> QED
    BY ONLY ScheduleInv, LostInv, t \in Worker, <1>2, <1>3, <1>4, <2>3, <2>5, <2>7,
            EmptyHandsStep DEF First
<1>7. CASE ~Executable(o)
  <2>1. UNCHANGED <<unprocessed, processed>>
    BY <1>1, <1>7 DEF GetEventWhileRollback
  <2>2. NoOne \notin Object
    BY Constants
  <2> QED
    BY ONLY ScheduleInv, LostInv, t \in Worker, <1>2, <1>3, <1>4, <2>1, <2>2,
            EmptyHandsStep DEF First
<1> QED
  BY <1>6, <1>7

\* An anti-message that has been handled leaves the straggler.
LEMMA FewerCancels ==
  ASSUME NEW e \in Known, NEW c
  PROVE  [e EXCEPT !.cancels = e.cancels \ {c}] \in Known
<1>1. e \in Event
  BY DEF Known
<1>2. PICK f : f = [e EXCEPT !.cancels = e.cancels \ {c}]
  OBVIOUS
<1>3. f \in Event /\ f.neg = e.neg /\ f.src = e.src /\ f.id = e.id /\ f.cancels = e.cancels \ {c}
  BY <1>1, <1>2 DEF Event
<1> QED
  BY <1>2, <1>3 DEF Known

LEMMA HandleAntiMessageLosesNothing ==
  ASSUME ScheduleInv, LostInv, NEW t \in Worker, HandleAntiMessage(t)
  PROVE  LostInv'
<1>1. PICK o \in Object : o = obj[t] /\ t \in Thread
  BY HasObject DEF HandleAntiMessage
<1>2. pc[t] = "anti" /\ todo[t] = <<>>
  BY NothingToInsert DEF HandleAntiMessage, Cancelling, Sending
<1>3. UNCHANGED <<processed, output, nextId, todo, inbox, obj>>
  BY DEF HandleAntiMessage, objectVars
<1>4. DOMAIN straggler = Thread /\ DOMAIN unprocessed = Object /\ straggler[t] \in Known
  BY <1>2 DEF LostInv, KnownOK, ScheduleInv, DataOK, Handling
<1>5. PICK u \in Seq(Known), p \in Seq(Known) : u = unprocessed[o] /\ p = processed[o]
  BY QueuesKnown
<1>6. PICK c \in straggler[t].cancels :
         /\ unprocessed' = [unprocessed EXCEPT ![o] = Annihilated(o, c)]
         /\ straggler' = [straggler EXCEPT ![t] = [straggler[t] EXCEPT !.cancels = straggler[t].cancels \ {c}]]
         /\ pc' = [pc EXCEPT ![t] = IF straggler[t].cancels = {c} THEN "update" ELSE "anti"]
  BY <1>1 DEF HandleAntiMessage
<1>7. PICK stage \in {"update", "anti"} : pc' = [pc EXCEPT ![t] = stage]
  BY <1>6
<1>8. /\ DOMAIN straggler' = Thread /\ straggler'[t] \in Known
      /\ \A w \in Thread : w # t => straggler'[w] = straggler[w]
  <2>1. [straggler[t] EXCEPT !.cancels = straggler[t].cancels \ {c}] \in Known
    BY <1>4, FewerCancels
  <2> QED
    BY <1>1, <1>4, <1>6, <2>1
<1>9. PICK K \in SUBSET (1..Len(u)) :
         /\ Annihilated(o, c) = Multiset(u, K)
         /\ \A k \in (1..Len(u)) \ K : <<u[k].src, u[k].id>> = c
  BY <1>5, AnnihilatedFrom DEF ScheduleInv, DataOK
<1>10. Known \in SUBSET Event /\ u \in Seq(Event) /\ p \in Seq(Event)
  BY SeqSubset DEF Known
<1>11. PICK v \in Seq(Known) : v = Multiset(u, K)
  BY <1>10, MultisetOK
<1>12. /\ unprocessed'[o] = v /\ processed'[o] = p
       /\ \A x \in Object : x # o => unprocessed'[x] = unprocessed[x]
  BY <1>3, <1>4, <1>5, <1>6, <1>9, <1>11
<1>13. ASSUME NEW e \in Event, Sent(e) PROVE Keeps(u \o p, v \o p, e)
  <2>1. PICK j \in 1..Len(output[e.src]) : output[e.src][j] = e
    BY <1>13 DEF Sent
  <2>2. e.src \in Object /\ ~e.neg
    BY <1>13 DEF Sent
  <2>3. <<e.src, e.id>> # c
    BY <1>4, <2>1, <2>2 DEF Known
  <2>4. \A k \in 1..Len(u) : u[k] = e => k \in K
    BY <1>9, <2>3
  <2>5. Keeps(u, v, e)
    BY <1>10, <1>11, <2>4, MultisetKeeps
  <2>6. v \in Seq(Event)
    BY <1>10, SeqSubset
  <2> QED
    BY <1>10, <2>5, <2>6, KeepsBefore
<1>14. \A e \in Event : Sent(e) => Keeps(Events(o), Events(o)', e)
  BY <1>5, <1>12, <1>13 DEF Events
<1>15. /\ unprocessed'[o] \in Seq(Known) /\ processed'[o] \in Seq(Known)
       /\ \A x \in Object : x # o => unprocessed'[x] = unprocessed[x] /\ processed'[x] = processed[x]
  BY <1>3, <1>12
<1>16. pc[t] # "sendFirst" /\ stage \notin First
  BY <1>2 DEF First
<1> QED
  BY ONLY ScheduleInv, LostInv, t \in Worker, <1>2, <1>3, <1>7, <1>8, <1>14, <1>15, <1>16,
          EmptyHandsStep
-----------------------------------------------------------------------------
(* Messages and insert() *)

LEMMA ReceiveLosesNothing ==
  ASSUME ScheduleInv, LostInv, ReceiveKernelMessage
  PROVE  LostInv'
<1>1. Master \in Thread /\ Master \notin Worker /\ NoOne \notin Object
  BY Constants
<1>2. inbox \in Seq(Foreign) /\ inbox # <<>> /\ inbox' = Tail(inbox)
  BY DEF ReceiveKernelMessage, LostInv, TodoOK
<1>3. inbox' \in Seq(Foreign) /\ Head(inbox) \in Foreign
  BY <1>2
<1>4. PICK td \in Seq(Foreign) : td = IF Head(inbox).neg THEN <<>> ELSE <<Head(inbox)>>
  <2>1. <<>> \in Seq(Foreign) /\ <<Head(inbox)>> \in Seq(Foreign)
    BY <1>3
  <2> QED
    BY <2>1
<1>5. todo' = [todo EXCEPT ![Master] = td]
  BY <1>4 DEF ReceiveKernelMessage
<1>6. UNCHANGED <<unprocessed, processed, output, nextId, pc, obj, straggler>>
  BY DEF ReceiveKernelMessage, objectVars
<1>7. todo'[Master] = td /\ \A u \in Thread : u # Master => todo'[u] = todo[u]
  BY <1>1, <1>5 DEF ScheduleInv, DataOK
<1>8. Quiet(Master, NoOne)
  BY <1>1, <1>3, <1>4, <1>6, <1>7 DEF Quiet, LostInv, KnownOK
<1> QED
  BY <1>1, <1>8, QuietStep

\* What a worker is about to insert, as far as the others are concerned.
LEMMA TailKeeps ==
  ASSUME NEW T, NEW s \in Seq(T), s # <<>>, NEW e
  PROVE  e # Head(s) => (None(Tail(s), e) <=> None(s, e))
<1>1. /\ Len(s) \in Nat /\ Head(s) = s[1] /\ Len(Tail(s)) = Len(s) - 1 /\ 1 \in 1..Len(s)
      /\ \A k \in 1..Len(Tail(s)) : Tail(s)[k] = s[k + 1]
  BY TailOf
<1>2. \A k \in 1..Len(Tail(s)) : k + 1 \in 1..Len(s)
  BY <1>1
<1>3. ASSUME NEW k \in 1..Len(s), k # 1 PROVE k - 1 \in 1..Len(Tail(s)) /\ s[k] = Tail(s)[k - 1]
  <2>1. k - 1 \in 1..Len(Tail(s)) /\ (k - 1) + 1 = k
    BY <1>1, <1>3
  <2> QED
    BY <1>1, <2>1
<1>4. ASSUME e # Head(s), None(Tail(s), e) PROVE None(s, e)
  BY <1>1, <1>3, <1>4 DEF None
<1>5. ASSUME None(s, e) PROVE None(Tail(s), e)
  BY <1>1, <1>2, <1>5 DEF None
<1> QED
  BY <1>4, <1>5

LEMMA TailIncreasing ==
  ASSUME NEW s \in Seq(Event), s # <<>>, Increasing(s)
  PROVE  Increasing(Tail(s)) /\ None(Tail(s), Head(s))
<1>1. /\ Len(s) \in Nat /\ Head(s) = s[1] /\ Len(Tail(s)) = Len(s) - 1 /\ 1 \in 1..Len(s)
      /\ \A k \in 1..Len(Tail(s)) : Tail(s)[k] = s[k + 1]
  BY TailOf
<1>2. \A k \in 1..Len(Tail(s)) : k + 1 \in 1..Len(s) /\ 1 < k + 1
  BY <1>1
<1>3. ASSUME NEW k \in 1..Len(s) PROVE s[k].id \in Nat
  <2>1. s[k] \in Event
    OBVIOUS
  <2> QED
    BY <2>1 DEF Event
<1>4. Increasing(Tail(s))
  BY <1>1, <1>2 DEF Increasing
<1>5. ASSUME NEW k \in 1..Len(Tail(s)) PROVE Tail(s)[k] # Head(s)
  <2>1. s[1].id < s[k + 1].id
    BY <1>1, <1>2 DEF Increasing
  <2>2. s[1].id # s[k + 1].id
    BY <1>1, <1>2, <1>3, <2>1
  <2> QED
    BY <1>1, <2>2
<1> QED
  BY <1>4, <1>5 DEF None

\* insert() puts x into the queue of o; the thread is done with it, or nearly.
Inserts(t, o, x) ==
    /\ pc[t] \in {"send", "cancel"} /\ todo[t] # <<>> /\ x = Head(todo[t]) /\ o = x.dst
    /\ unprocessed' = [unprocessed EXCEPT ![o] = Inserted(unprocessed[o], x)]
    /\ UNCHANGED <<processed, output, nextId, inbox, obj, straggler>>
    /\ \/ /\ pc' = [pc EXCEPT ![t] = IF pc[t] = "send" THEN "sendFirst" ELSE "cancelFirst"]
          /\ todo' = todo
       \/ /\ pc' = pc
          /\ todo' = [todo EXCEPT ![t] = Tail(todo[t])]

LEMMA InsertInserts ==
  ASSUME ScheduleInv, NEW t \in Thread, Insert(t)
  PROVE  \E x \in Event : x.dst \in Object /\ Inserts(t, x.dst, x)
<1>1. todo[t] \in Seq(Event) /\ todo[t] # <<>>
  BY DEF Insert, ScheduleInv, DataOK
<1>2. PICK x \in Event : x = Head(todo[t])
  BY <1>1, TailOf
<1>3. x.dst \in Object
  BY DEF Event
<1>4. Inserts(t, x.dst, x)
  <2>1. /\ pc[t] \in {"send", "cancel"} /\ x = Head(todo[t])
        /\ unprocessed' = [unprocessed EXCEPT ![x.dst] = Inserted(unprocessed[x.dst], x)]
        /\ UNCHANGED <<processed, output, nextId, inbox, obj, straggler>>
    BY <1>2 DEF Insert, objectVars
  <2>2. CASE Head(Inserted(unprocessed[x.dst], x)) = x
    <3>1. /\ pc' = [pc EXCEPT ![t] = IF pc[t] = "send" THEN "sendFirst" ELSE "cancelFirst"]
          /\ todo' = todo
      BY <1>2, <2>2 DEF Insert
    <3> QED
      BY <1>1, <2>1, <3>1 DEF Inserts
  <2>3. CASE Head(Inserted(unprocessed[x.dst], x)) # x
    <3>1. pc' = pc /\ todo' = [todo EXCEPT ![t] = Tail(todo[t])]
      BY <1>2, <2>3 DEF Insert
    <3> QED
      BY <1>1, <2>1, <3>1 DEF Inserts
  <2> QED
    BY <2>2, <2>3
<1> QED
  BY <1>3, <1>4

\* What is inserted is not a surprise.
LEMMA InsertsKnown ==
  ASSUME ScheduleInv, LostInv, NEW t \in Thread, NEW x \in Event, NEW o \in Object, Inserts(t, o, x)
  PROVE  /\ x \in Known
         /\ t = Master => x.src \notin Object
         /\ pc[t] = "cancel" => x.neg
         /\ t \in Worker /\ pc[t] = "send" => Sent(x) /\ obj[t] = x.src
<1>1. t \in Worker <=> t # Master
  BY Constants
<1>2. todo[t] # <<>> /\ x = Head(todo[t]) /\ pc[t] \in {"send", "cancel"}
  BY DEF Inserts
<1>3. CASE t = Master
  <2>1. todo[Master] \in Seq(Foreign)
    BY DEF LostInv, TodoOK
  <2>2. x \in Foreign
    BY <1>2, <1>3, <2>1, TailOf
  <2>3. x \in Known /\ x.src \notin Object
    BY <2>2 DEF Foreign, Known
  <2>4. pc[t] # "cancel"
    BY <1>3 DEF ScheduleInv, ControlOK, WhereOK
  <2> QED
    BY <1>1, <1>3, <2>3, <2>4
<1>4. CASE t \in Worker /\ pc[t] = "cancel"
  <2>1. todo[t] \in Seq({e \in Known : e.neg})
    BY <1>4 DEF LostInv, TodoOK, Cancelling
  <2>2. x \in {e \in Known : e.neg}
    BY <1>2, <2>1, TailOf
  <2> QED
    BY <1>1, <1>4, <2>2
<1>5. CASE t \in Worker /\ pc[t] = "send"
  <2>1. ToInsert(t) = todo[t] /\ obj[t] \in Object
    BY <1>5, ToInsertIs, HasObject
  <2>2. todo[t] \in Seq(Event)
    BY DEF ScheduleInv, DataOK
  <2>3. 1 \in 1..Len(todo[t]) /\ x = todo[t][1]
    BY <1>2, <2>2, TailOf
  <2>4. PICK k \in 1..Len(output[obj[t]]) : output[obj[t]][k] = x
    BY <1>5, <2>1, <2>3 DEF LostInv, SendOK
  <2>5. Sent(x) /\ x \in Own(obj[t]) /\ x.src = obj[t]
    BY <2>1, <2>4, OutputIsSent DEF LostInv
  <2>6. x \in Known
    BY <2>5 DEF Own, Known
  <2> QED
    BY <1>1, <1>5, <2>5, <2>6
<1> QED
  BY <1>1, <1>2, <1>3, <1>4, <1>5

LEMMA InsertsIsQuiet ==
  ASSUME ScheduleInv, LostInv, NEW t \in Thread, NEW x \in Event, NEW o \in Object, Inserts(t, o, x)
  PROVE  /\ Quiet(t, o)
         /\ unprocessed'[o] = Inserted(unprocessed[o], x)
         /\ t \in Worker /\ pc[t] = "send" => ToInsert(t) = todo[t] /\ ToInsert(t)' = Tail(todo[t])
         /\ t \in Worker /\ pc[t] = "cancel" => ToInsert(t) = <<>> /\ ToInsert(t)' = <<>>
<1>1. /\ pc[t] \in {"send", "cancel"} /\ todo[t] # <<>>
      /\ UNCHANGED <<processed, output, nextId, inbox, obj, straggler>>
      /\ unprocessed' = [unprocessed EXCEPT ![o] = Inserted(unprocessed[o], x)]
  BY DEF Inserts
<1>2. /\ DOMAIN straggler = Thread /\ DOMAIN unprocessed = Object
      /\ pc \in [Thread -> Stage] /\ todo \in [Thread -> Seq(Event)] /\ inbox \in Seq(Foreign)
      /\ todo[Master] \in Seq(Foreign)
  BY DEF LostInv, KnownOK, TodoOK, ScheduleInv, DataOK, ControlOK, ControlTypes
<1>3. PICK stage, td :
         /\ \A u \in Thread : pc'[u] = IF u = t THEN stage ELSE pc[u]
         /\ \A u \in Thread : todo'[u] = IF u = t THEN td ELSE todo[u]
         /\ \/ stage = (IF pc[t] = "send" THEN "sendFirst" ELSE "cancelFirst") /\ td = todo[t]
            \/ stage = pc[t] /\ td = Tail(todo[t])
  <2>1. CASE /\ pc' = [pc EXCEPT ![t] = IF pc[t] = "send" THEN "sendFirst" ELSE "cancelFirst"]
             /\ todo' = todo
    <3>1. PICK stage : stage = IF pc[t] = "send" THEN "sendFirst" ELSE "cancelFirst"
      OBVIOUS
    <3>2. /\ \A u \in Thread : pc'[u] = IF u = t THEN stage ELSE pc[u]
          /\ \A u \in Thread : todo'[u] = IF u = t THEN todo[t] ELSE todo[u]
      BY ONLY <1>2, <2>1, <3>1, t \in Thread
    <3> QED
      BY <3>1, <3>2
  <2>2. CASE pc' = pc /\ todo' = [todo EXCEPT ![t] = Tail(todo[t])]
    <3>1. /\ \A u \in Thread : pc'[u] = IF u = t THEN pc[t] ELSE pc[u]
          /\ \A u \in Thread : todo'[u] = IF u = t THEN Tail(todo[t]) ELSE todo[u]
      BY ONLY <1>2, <2>2, t \in Thread
    <3> QED
      BY <3>1
  <2> QED
    BY <2>1, <2>2 DEF Inserts
<1>4. ASSUME NEW T, todo[t] \in Seq(T) PROVE td \in Seq(T)
  <2>1. Tail(todo[t]) \in Seq(T)
    BY <1>1, <1>4, TailOf
  <2> QED
    BY <1>3, <1>4, <2>1
<1>5. unprocessed'[o] = Inserted(unprocessed[o], x) /\ \A y \in Object : y # o => unprocessed'[y] = unprocessed[y]
  BY <1>1, <1>2
<1>6. unprocessed'[o] \in Seq(Known) /\ processed'[o] \in Seq(Known)
  <2>1. x \in Known
    BY InsertsKnown
  <2>2. unprocessed[o] \in Seq(Known) /\ processed[o] \in Seq(Known) /\ Known \in SUBSET Event
    BY QueuesKnown
  <2>3. Inserted(unprocessed[o], x) \in Seq(Known)
    BY <2>1, <2>2, InsertedOK
  <2> QED
    BY <1>1, <1>5, <2>2, <2>3
<1>7. Master \in Thread
  BY Constants
<1>8. todo'[Master] \in Seq(Foreign)
  BY <1>2, <1>3, <1>4, <1>7
<1>9. ASSUME t \in Worker
      PROVE  /\ pc'[t] \in Handling => straggler'[t] \in Known
             /\ pc'[t] \in Cancelling => todo'[t] \in Seq({e \in Known : e.neg})
             /\ pc'[t] \notin Cancelling \cup Sending => todo'[t] = <<>>
  <2>1. CASE pc[t] = "send"
    <3>1. pc'[t] \in Sending
      BY <1>3, <2>1 DEF Sending
    <3> QED
      BY <3>1 DEF Sending, Cancelling, Handling
  <2>2. CASE pc[t] = "cancel"
    <3>1. pc'[t] \in Cancelling
      BY <1>3, <2>2 DEF Cancelling
    <3>2. straggler[t] \in Known /\ todo[t] \in Seq({e \in Known : e.neg})
      BY <1>9, <2>2 DEF LostInv, KnownOK, TodoOK, Handling, Cancelling
    <3> QED
      BY <1>1, <1>3, <1>4, <3>1, <3>2
  <2> QED
    BY <1>1, <2>1, <2>2
<1>10. Quiet(t, o)
  BY <1>1, <1>2, <1>3, <1>5, <1>6, <1>8, <1>9 DEF Quiet
<1>11. ASSUME pc[t] = "send" PROVE ToInsert(t) = todo[t] /\ ToInsert(t)' = Tail(todo[t])
  BY <1>3, <1>11, ToInsertIs
<1>12. ASSUME pc[t] = "cancel" PROVE ToInsert(t) = <<>> /\ ToInsert(t)' = <<>>
  BY <1>3, <1>12, ToInsertIs DEF Sending
<1> QED
  BY <1>5, <1>10, <1>11, <1>12

LEMMA InsertLosesNothing ==
  ASSUME ScheduleInv, LostInv, NEW t \in Thread, Insert(t)
  PROVE  LostInv'
<1>1. PICK x \in Event : x.dst \in Object /\ Inserts(t, x.dst, x)
  BY InsertInserts
<1>2. PICK o \in Object : o = x.dst
  BY <1>1
<1>3. Inserts(t, o, x)
  BY <1>1, <1>2
<1>4. /\ x \in Known
      /\ t = Master => x.src \notin Object
      /\ pc[t] = "cancel" => x.neg
      /\ t \in Worker /\ pc[t] = "send" => Sent(x) /\ obj[t] = x.src
  BY <1>3, InsertsKnown
<1>5. /\ Quiet(t, o)
      /\ unprocessed'[o] = Inserted(unprocessed[o], x)
      /\ t \in Worker /\ pc[t] = "send" => ToInsert(t) = todo[t] /\ ToInsert(t)' = Tail(todo[t])
      /\ t \in Worker /\ pc[t] = "cancel" => ToInsert(t) = <<>> /\ ToInsert(t)' = <<>>
  BY <1>3, InsertsIsQuiet
<1>6. pc[t] \in {"send", "cancel"} /\ todo[t] # <<>> /\ x = Head(todo[t]) /\ processed' = processed /\ obj' = obj
  BY <1>3 DEF Inserts
<1>7. PICK u \in Seq(Event), p \in Seq(Event) : u = unprocessed[o] /\ p = processed[o]
  BY QueuesKnown
<1>8. Inserted(u, x) \in Seq(Event)
  BY InsertedOK
<1>9. Events(o) = u \o p /\ Events(o)' = Inserted(u, x) \o p
  BY <1>5, <1>6, <1>7 DEF Events
<1>10. ASSUME NEW e \in Event, e # x PROVE Keeps(Events(o), Events(o)', e)
  <2>1. Keeps(u, Inserted(u, x), e)
    BY <1>10, InsertedPlaces
  <2> QED
    BY <1>8, <1>9, <2>1, KeepsBefore
<1>11. CASE ~(t \in Worker /\ pc[t] = "send")
  <2>1. ~Sent(x)
    <3>1. t \in Worker \/ t = Master
      BY DEF Thread
    <3> QED
      BY <1>4, <1>6, <1>11, <3>1 DEF Sent
  <2>2. \A e \in Event : Sent(e) => Keeps(Events(o), Events(o)', e)
    BY <1>10, <2>1
  <2>3. t \in Worker => ToInsert(t)' = ToInsert(t) /\ obj'[t] = obj[t]
    BY <1>5, <1>6, <1>11
  <2> QED
    BY <1>5, <2>2, <2>3, QuietStep
<1>12. CASE t \in Worker /\ pc[t] = "send"
  <2>1. OutputOK' /\ KnownOK' /\ TodoOK' /\ output' = output
    BY <1>5, QuietKeepsKnown
  <2>2. PICK td \in Seq(Event) : td = todo[t]
    BY DEF ScheduleInv, DataOK
  <2>3. td # <<>> /\ x = Head(td) /\ ToInsert(t) = td /\ ToInsert(t)' = Tail(td) /\ Increasing(td)
    BY <1>5, <1>6, <1>12, <2>2 DEF LostInv, SendOK
  <2>4. Increasing(Tail(td)) /\ None(Tail(td), x)
    BY <2>3, TailIncreasing
  <2>5. \A w \in Worker : w # t => ToInsert(w)' = ToInsert(w)
    <3>1. \A w \in Worker : w \in Thread
      BY Constants
    <3>2. \A w \in Worker : w # t => pc'[w] = pc[w] /\ todo'[w] = todo[w]
      BY <1>5, <3>1 DEF Quiet
    <3> QED
      BY <3>2, ToInsertIs
  <2>6. SendOK'
    <3>1. ASSUME NEW w \in Worker
          PROVE  /\ Increasing(ToInsert(w)')
                 /\ \A i \in 1..Len(ToInsert(w)') :
                       \E k \in 1..Len(output[obj[w]]) : output[obj[w]][k] = ToInsert(w)'[i]
      <4>1. /\ Increasing(ToInsert(w))
            /\ \A i \in 1..Len(ToInsert(w)) :
                  \E k \in 1..Len(output[obj[w]]) : output[obj[w]][k] = ToInsert(w)[i]
        BY DEF LostInv, SendOK
      <4>2. CASE w # t
        BY <2>5, <4>1, <4>2
      <4>3. CASE w = t
        <5>1. \A i \in 1..Len(Tail(td)) : Tail(td)[i] = td[i + 1] /\ i + 1 \in 1..Len(td)
          BY <2>3, TailOf
        <5>2. \A i \in 1..Len(Tail(td)) :
                 \E k \in 1..Len(output[obj[t]]) : output[obj[t]][k] = Tail(td)[i]
          BY <2>3, <4>1, <4>3, <5>1
        <5> QED
          BY <2>3, <2>4, <4>3, <5>2, ZenonT(60)
      <4> QED
        BY <4>2, <4>3
    <3> QED
      BY <1>6, <2>1, <3>1 DEF SendOK, Increasing
  <2>7. ASSUME NEW w \in Worker, NEW e, e # x PROVE None(ToInsert(w)', e) <=> None(ToInsert(w), e)
    <3>1. CASE w = t
      BY <2>3, <2>7, <3>1, TailKeeps
    <3>2. CASE w # t
      BY <2>5, <3>2
    <3> QED
      BY <3>1, <3>2
  <2>8. ASSUME NEW s, NEW e, e # x PROVE Waits(s, e)' <=> Waits(s, e)
    <3>1. \A w \in Worker : obj'[w] = s /\ ~None(ToInsert(w)', e) <=> obj[w] = s /\ ~None(ToInsert(w), e)
      BY <1>6, <2>7, <2>8
    <3> QED
      BY <3>1 DEF Waits, None
  <2>9. Sent(x) /\ obj[t] = x.src /\ x.src \in Object
    BY <1>4, <1>12 DEF Sent
  <2>10. Waits(x.src, x)
    <3>1. 1 \in 1..Len(td) /\ td[1] = x
      BY <2>3, TailOf
    <3>2. ~None(td, x)
      BY <3>1 DEF None
    <3> QED
      BY <1>12, <2>3, <2>9, <3>2 DEF Waits
  <2>11. ~Waits(x.src, x)'
    <3> SUFFICES ASSUME NEW w \in Worker, obj'[w] = x.src, ~None(ToInsert(w)', x)
                 PROVE  FALSE
      BY DEF Waits, None
    <3>1. w = t
      BY <1>6, <1>12, <2>9, OneHas
    <3> QED
      BY <2>3, <2>4, <3>1
  <2>12. None(Events(o), x) => One(Events(o)', x)
    <3>1. None(u, x) => One(Inserted(u, x), x)
      BY InsertedPlaces
    <3>2. None(u \o p, x) <=> None(u, x) /\ None(p, x)
      BY ConcatNone
    <3>3. One(Inserted(u, x) \o p, x) <=>
             (One(Inserted(u, x), x) /\ None(p, x)) \/ (None(Inserted(u, x), x) /\ One(p, x))
      BY <1>8, ConcatOne
    <3> QED
      BY <1>9, <3>1, <3>2, <3>3
  <2>13. PlaceOK'
    <3> SUFFICES ASSUME NEW s \in Object, NEW k \in 1..Len(output[s])
                 PROVE  Placed(s, output[s][k])'
      BY <2>1 DEF PlaceOK
    <3>1. PICK e : e = output[s][k]
      OBVIOUS
    <3>2. Sent(e) /\ e \in Event /\ e.dst \in Object /\ e.src = s
      <4>1. Sent(e) /\ e.src = s /\ e.dst \in Object
        BY <3>1, OutputIsSent DEF LostInv
      <4> QED
        BY <4>1 DEF Sent
    <3>3. Placed(s, e)
      BY <3>1 DEF LostInv, PlaceOK
    <3>4. CASE e = x
      <4>1. None(Events(o), x)
        BY <1>2, <2>10, <3>2, <3>3, <3>4 DEF Placed
      <4>2. One(Events(e.dst), e)'
        BY <1>2, <2>12, <3>4, <4>1 DEF One
      <4>3. ~Waits(s, e)'
        BY <2>11, <3>2, <3>4 DEF Waits, None
      <4> QED
        BY <2>1, <3>1, <4>2, <4>3 DEF Placed
    <3>5. CASE e # x
      <4>1. Keeps(Events(e.dst), Events(e.dst)', e)
        <5>1. CASE e.dst = o
          BY <1>10, <3>2, <3>5, <5>1
        <5>2. CASE e.dst # o
          <6>1. Events(e.dst)' = Events(e.dst)
            BY <1>5, <3>2, <5>2 DEF Quiet, Events
          <6> QED
            BY <6>1, KeepsSame
        <5> QED
          BY <5>1, <5>2
      <4>2. Placed(s, e)'
        BY <2>8, <3>3, <3>5, <4>1 DEF Placed, Keeps, None, One
      <4> QED
        BY <2>1, <3>1, <4>2
    <3> QED
      BY <3>4, <3>5
  <2> QED
    BY <2>1, <2>6, <2>13 DEF LostInv
<1> QED
  BY <1>11, <1>12

LEMMA InsertFirstLosesNothing ==
  ASSUME ScheduleInv, LostInv, NEW t \in Thread, InsertFirst(t)
  PROVE  LostInv'
<1>1. /\ pc[t] \in First /\ todo[t] # <<>>
      /\ pc' = [pc EXCEPT ![t] = IF pc[t] = "sendFirst" THEN "send" ELSE "cancel"]
      /\ todo' = [todo EXCEPT ![t] = Tail(todo[t])]
      /\ UNCHANGED <<unprocessed, processed, output, nextId, inbox, obj, straggler>>
  BY DEF InsertFirst, First, objectVars, ScheduleInv, ControlOK, InsertOK
<1>2. /\ DOMAIN straggler = Thread /\ inbox \in Seq(Foreign) /\ todo[Master] \in Seq(Foreign)
      /\ pc \in [Thread -> Stage] /\ todo \in [Thread -> Seq(Event)]
  BY DEF LostInv, KnownOK, TodoOK, ScheduleInv, DataOK, ControlOK, ControlTypes
<1>3. /\ \A u \in Thread : u # t => pc'[u] = pc[u] /\ todo'[u] = todo[u]
      /\ pc'[t] = IF pc[t] = "sendFirst" THEN "send" ELSE "cancel"
      /\ todo'[t] = Tail(todo[t])
  BY ONLY <1>1, <1>2, t \in Thread
<1>4. ASSUME NEW T, todo[t] \in Seq(T) PROVE todo'[t] \in Seq(T)
  BY <1>1, <1>3, <1>4, TailOf
<1>5. Master \in Thread /\ NoOne \notin Object
  BY Constants
<1>6. todo'[Master] \in Seq(Foreign)
  BY <1>2, <1>3, <1>4, <1>5
<1>7. ASSUME t \in Worker
      PROVE  /\ pc'[t] \in Handling => straggler'[t] \in Known
             /\ pc'[t] \in Cancelling => todo'[t] \in Seq({e \in Known : e.neg})
             /\ pc'[t] \notin Cancelling \cup Sending => todo'[t] = <<>>
  <2>1. CASE pc[t] = "sendFirst"
    BY <1>3, <2>1 DEF Sending, Cancelling, Handling
  <2>2. CASE pc[t] = "cancelFirst"
    <3>1. straggler[t] \in Known /\ todo[t] \in Seq({e \in Known : e.neg})
      BY <1>7, <2>2 DEF LostInv, KnownOK, TodoOK, Handling, Cancelling
    <3>2. todo'[t] \in Seq({e \in Known : e.neg})
      BY <1>4, <3>1
    <3>3. pc'[t] = "cancel"
      BY <1>3, <2>2
    <3> QED
      BY <1>1, <3>1, <3>2, <3>3 DEF Cancelling
  <2> QED
    BY <1>1, <2>1, <2>2 DEF First
<1>8. Quiet(t, NoOne)
  BY <1>1, <1>2, <1>3, <1>5, <1>6, <1>7 DEF Quiet
<1>9. ToInsert(t)' = ToInsert(t)
  <2>1. CASE pc[t] = "sendFirst"
    BY <1>3, <2>1, ToInsertIs
  <2>2. CASE pc[t] = "cancelFirst"
    BY <1>3, <2>2, ToInsertIs DEF Sending
  <2> QED
    BY <1>1, <2>1, <2>2 DEF First
<1> QED
  BY <1>1, <1>5, <1>8, <1>9, QuietStep
-----------------------------------------------------------------------------
(* The steps that change what an object has sent *)

LEMMA CountersAre ==
  ASSUME ScheduleInv, NEW s \in Object
  PROVE  nextId[s] \in Nat /\ output[s] \in Seq(Event)
<1>1. nextId[s] \in 0..MaxId /\ output[s] \in Seq(Event)
  BY DEF ScheduleInv, DataOK
<1> QED
  BY <1>1, BoundAssumption

\* What was known still is, when an object takes events back or sends new ones.
LEMMA KnownGrows ==
  ASSUME ScheduleInv,
         \A s \in Object : nextId'[s] \in Nat /\ nextId[s] <= nextId'[s],
         \A s \in Object : \A k \in 1..Len(output'[s]) :
            \/ \E j \in 1..Len(output[s]) : output'[s][k] = output[s][j]
            \/ output'[s][k].id \in Nat /\ nextId[s] <= output'[s][k].id
  PROVE  Known \subseteq Known'
<1> SUFFICES ASSUME NEW e \in Known PROVE e \in Known'
  OBVIOUS
<1>1. /\ e \in Event
      /\ e.src \in Object /\ ~e.neg => e.id < nextId[e.src]
      /\ \A c \in e.cancels : c[1] \in Object =>
            c[2] < nextId[c[1]] /\ \A k \in 1..Len(output[c[1]]) : output[c[1]][k].id # c[2]
  BY DEF Known
<1>2. e.id \in Nat /\ \A c \in e.cancels : c[2] \in Nat
  BY <1>1 DEF Event
<1>3. \A s \in Object : nextId[s] \in Nat
  BY CountersAre
<1>4. e.src \in Object /\ ~e.neg => e.id < nextId'[e.src]
  BY <1>1, <1>2, <1>3
<1>5. ASSUME NEW c \in e.cancels, c[1] \in Object
      PROVE  c[2] < nextId'[c[1]] /\ \A k \in 1..Len(output'[c[1]]) : output'[c[1]][k].id # c[2]
  <2>1. PICK s \in Object : s = c[1]
    BY <1>5
  <2>2. c[2] < nextId[s] /\ \A k \in 1..Len(output[s]) : output[s][k].id # c[2]
    BY <1>1, <2>1
  <2>3. c[2] < nextId'[s]
    BY <1>2, <1>3, <2>2
  <2>4. ASSUME NEW k \in 1..Len(output'[s]) PROVE output'[s][k].id # c[2]
    <3>1. CASE \E j \in 1..Len(output[s]) : output'[s][k] = output[s][j]
      BY <2>2, <3>1
    <3>2. CASE output'[s][k].id \in Nat /\ nextId[s] <= output'[s][k].id
      BY <1>2, <1>3, <2>2, <3>2
    <3> QED
      BY <3>1, <3>2
  <2> QED
    BY <2>1, <2>3, <2>4
<1> QED
  BY <1>1, <1>4, <1>5 DEF Known

\* Worker t, with nothing to insert, changes what its object o has sent.
Resends(t, o) ==
    /\ obj[t] = o /\ ToInsert(t) = <<>>
    /\ obj' = obj /\ straggler' = straggler /\ inbox' = inbox
    /\ \A u \in Thread : u # t => pc'[u] = pc[u] /\ todo'[u] = todo[u]
    /\ \A x \in Object : x # o => /\ unprocessed'[x] = unprocessed[x] /\ processed'[x] = processed[x]
                                  /\ output'[x] = output[x] /\ nextId'[x] = nextId[x]
    /\ \A e \in Event : Sent(e) => Keeps(Events(o), Events(o)', e)

LEMMA ResendsKeeps ==
  ASSUME ScheduleInv, LostInv, NEW t \in Worker, NEW o \in Object, Resends(t, o)
  PROVE  /\ \A s \in Object : s # o => (\A k \in 1..Len(output[s]) : Placed(s, output[s][k]))'
         /\ \A w \in Worker : w # t =>
              /\ Increasing(ToInsert(w)')
              /\ \A i \in 1..Len(ToInsert(w)') :
                    \E k \in 1..Len(output'[obj'[w]]) : output'[obj'[w]][k] = ToInsert(w)'[i]
         /\ \A e \in Event : Waits(o, e)' => ~None(ToInsert(t)', e)
         /\ \A e \in Event : Sent(e) /\ e.src = o => One(Events(e.dst)', e)
<1>1. \A w \in Worker : w \in Thread
  BY Constants
<1>2. \A w \in Worker : w # t => ToInsert(w)' = ToInsert(w)
  BY <1>1, ToInsertIs DEF Resends
<1>3. ASSUME NEW w \in Worker, w # t PROVE obj[w] # o
  BY <1>3, OneHas DEF Resends
<1>4. ASSUME NEW x \in Object, NEW e \in Event, Sent(e) PROVE Keeps(Events(x), Events(x)', e)
  <2>1. CASE x = o
    BY <1>4, <2>1 DEF Resends
  <2>2. CASE x # o
    <3>1. Events(x)' = Events(x)
      BY <2>2 DEF Resends, Events
    <3> QED
      BY <3>1, KeepsSame
  <2> QED
    BY <2>1, <2>2
<1>5. ASSUME NEW s \in Object, s # o, NEW e PROVE Waits(s, e)' <=> Waits(s, e)
  <2>1. \A w \in Worker : obj'[w] = s /\ ~None(ToInsert(w)', e) <=> obj[w] = s /\ ~None(ToInsert(w), e)
    BY <1>2, <1>5 DEF Resends
  <2> QED
    BY <2>1 DEF Waits, None
<1>6. ASSUME NEW s \in Object, s # o, NEW k \in 1..Len(output'[s])
      PROVE  Placed(s, output[s][k])'
  <2>1. output'[s] = output[s]
    BY <1>6 DEF Resends
  <2>2. PICK e : e = output[s][k]
    OBVIOUS
  <2>3. Sent(e) /\ Placed(s, e)
    BY <1>6, <2>1, <2>2, OutputIsSent DEF LostInv, PlaceOK
  <2>4. Keeps(Events(e.dst), Events(e.dst)', e)
    BY <1>4, <2>3 DEF Sent
  <2>5. Placed(s, e)'
    BY <1>5, <1>6, <2>3, <2>4 DEF Placed, Keeps, None, One
  <2> QED
    BY <2>1, <2>2, <2>5
<1>7. ASSUME NEW w \in Worker, w # t
      PROVE  /\ Increasing(ToInsert(w)')
             /\ \A i \in 1..Len(ToInsert(w)') :
                   \E k \in 1..Len(output'[obj'[w]]) : output'[obj'[w]][k] = ToInsert(w)'[i]
  <2>1. ToInsert(w)' = ToInsert(w) /\ obj'[w] = obj[w]
    BY <1>2, <1>7 DEF Resends
  <2>2. /\ Increasing(ToInsert(w))
        /\ \A i \in 1..Len(ToInsert(w)) :
              \E k \in 1..Len(output[obj[w]]) : output[obj[w]][k] = ToInsert(w)[i]
    BY DEF LostInv, SendOK
  <2>3. CASE obj[w] \in Object
    <3>1. output'[obj[w]] = output[obj[w]]
      BY <1>3, <1>7, <2>3 DEF Resends
    <3> QED
      BY <2>1, <2>2, <3>1
  <2>4. CASE obj[w] \notin Object
    <3>1. pc[w] \in {"idle", "peek"}
      BY <2>4, HasObject
    <3>2. ToInsert(w) = <<>> /\ Len(<<>>) = 0
      BY <3>1, ToInsertIs DEF Sending
    <3> QED
      BY <2>1, <2>2, <3>2
  <2> QED
    BY <2>3, <2>4
<1>8. ASSUME NEW e \in Event, Waits(o, e)' PROVE ~None(ToInsert(t)', e)
  <2>1. PICK w \in Worker : obj'[w] = o /\ ~None(ToInsert(w)', e)
    BY <1>8 DEF Waits, None
  <2>2. w = t
    BY <1>3, <2>1 DEF Resends
  <2> QED
    BY <2>1, <2>2
<1>9. ASSUME NEW e \in Event, Sent(e), e.src = o PROVE One(Events(e.dst)', e)
  <2>1. Placed(o, e)
    BY <1>9 DEF LostInv, PlaceOK, Sent
  <2>2. ~Waits(o, e)
    <3> SUFFICES ASSUME NEW w \in Worker, obj[w] = o, ~None(ToInsert(w), e) PROVE FALSE
      BY DEF Waits
    <3>1. w = t
      BY <1>3
    <3>2. None(<<>>, e)
      BY DEF None
    <3> QED
      BY <3>1, <3>2 DEF Resends
  <2>3. One(Events(e.dst), e)
    BY <2>1, <2>2 DEF Placed
  <2>4. e.dst \in Object
    BY <1>9 DEF Sent
  <2> QED
    BY <1>4, <1>9, <2>3, <2>4 DEF Keeps
<1> QED
  BY <1>6, <1>7, <1>8, <1>9

\* What one step of handleEvent() sends.
LEMMA SendsNew ==
  ASSUME NEW o \in Object, nextId[o] \in Nat, NEW r \in Nat, NEW cs \in Seq(Message)
  PROVE  /\ Sends(o, r, cs) \in Seq(Event) /\ Len(Sends(o, r, cs)) = Len(cs) /\ Len(cs) \in Nat
         /\ \A k \in 1..Len(cs) : /\ ~Sends(o, r, cs)[k].neg /\ Sends(o, r, cs)[k].src = o
                                  /\ Sends(o, r, cs)[k].cancels = {}
                                  /\ Sends(o, r, cs)[k].id = nextId[o] + k - 1
<1>1. Sends(o, r, cs) \in Seq(Event) /\ Len(Sends(o, r, cs)) = Len(cs) /\ Len(cs) \in Nat
  BY SendsAreEvents
<1>2. DOMAIN cs = 1..Len(cs)
  OBVIOUS
<1>3. ASSUME NEW k \in 1..Len(cs)
      PROVE  /\ ~Sends(o, r, cs)[k].neg /\ Sends(o, r, cs)[k].src = o
             /\ Sends(o, r, cs)[k].cancels = {} /\ Sends(o, r, cs)[k].id = nextId[o] + k - 1
  <2>1. Sends(o, r, cs)[k] = NewEvent(o, cs[k].dst, r, cs[k].recv, nextId[o] + k - 1)
    BY <1>2 DEF Sends
  <2> QED
    BY <2>1 DEF NewEvent
<1> QED
  BY <1>1, <1>3

LEMMA ExecuteFirstLosesNothing ==
  ASSUME AppOK, ScheduleInv, LostInv, NEW t \in Worker, NEW o \in Object, obj[t] = o,
         pc[t] \in {"execute", "more"}, unprocessed[o] # <<>>,
         ExecuteFirst(t, o), UNCHANGED <<obj, straggler, inbox>>
  PROVE  LostInv'
<1>1. t \in Thread /\ Master \in Thread /\ t # Master /\ \A w \in Worker : w \in Thread
  BY Constants
<1>2. PICK u \in Seq(Known), p \in Seq(Known) : u = unprocessed[o] /\ p = processed[o]
  BY QueuesKnown
<1>3. PICK e \in Known, v \in Seq(Known) : e = Head(u) /\ v = Tail(u) /\ u = <<e>> \o v
  <2>1. u # <<>>
    BY <1>2
  <2>2. Head(u) \in Known /\ Tail(u) \in Seq(Known) /\ u = <<Head(u)>> \o Tail(u)
    BY ONLY u \in Seq(Known), <2>1
  <2> QED
    BY <2>2
<1>4. e \in Event /\ e.recv \in Nat /\ nextId[o] \in Nat /\ output[o] \in Seq(Event)
  BY CountersAre DEF Known, Event
<1>5. PICK cs \in Seq(Message) : cs = App(o, e.recv)
  BY <1>4 DEF AppOK
<1>6. PICK out \in Seq(Event) : out = Sends(o, e.recv, cs)
  BY <1>4, SendsNew
<1>7. /\ Len(out) \in Nat
      /\ \A k \in 1..Len(out) : /\ ~out[k].neg /\ out[k].src = o /\ out[k].cancels = {}
                                /\ out[k].id = nextId[o] + k - 1
  BY <1>4, <1>6, SendsNew, SMTT(60)
<1>8. /\ unprocessed' = [unprocessed EXCEPT ![o] = v]
      /\ processed' = [processed EXCEPT ![o] = Append(p, e)]
      /\ output' = [output EXCEPT ![o] = output[o] \o out]
      /\ nextId' = [nextId EXCEPT ![o] = nextId[o] + Len(out)]
      /\ todo' = [todo EXCEPT ![t] = out]
      /\ pc' = [pc EXCEPT ![t] = "send"]
  BY <1>2, <1>3, <1>5, <1>6 DEF ExecuteFirst, ScheduleInv, DataOK
<1>9. /\ DOMAIN unprocessed = Object /\ DOMAIN processed = Object /\ DOMAIN output = Object
      /\ DOMAIN nextId = Object /\ DOMAIN todo = Thread /\ DOMAIN pc = Thread
      /\ DOMAIN straggler = Thread
  BY DEF ScheduleInv, DataOK, ControlOK, ControlTypes, LostInv, KnownOK
<1>10. /\ unprocessed'[o] = v /\ processed'[o] = Append(p, e) /\ output'[o] = output[o] \o out
       /\ nextId'[o] = nextId[o] + Len(out) /\ todo'[t] = out /\ pc'[t] = "send"
       /\ \A w \in Thread : w # t => pc'[w] = pc[w] /\ todo'[w] = todo[w]
       /\ \A x \in Object : x # o => /\ unprocessed'[x] = unprocessed[x] /\ processed'[x] = processed[x]
                                     /\ output'[x] = output[x] /\ nextId'[x] = nextId[x]
  BY ONLY <1>1, <1>8, <1>9, o \in Object
<1>11. PICK n : n = Len(output[o])
  OBVIOUS
<1>12. /\ n \in Nat /\ Len(output'[o]) = n + Len(out)
       /\ \A k \in 1..n : output'[o][k] = output[o][k]
       /\ \A k \in 1..Len(out) : output'[o][n + k] = out[k]
       /\ output'[o] \in Seq(Event)
  BY <1>4, <1>10, <1>11, Concatenated
<1>13. ASSUME NEW k \in 1..Len(output'[o]) PROVE k \in 1..n \/ \E j \in 1..Len(out) : k = n + j
  <2>1. CASE k > n
    <3>1. k - n \in 1..Len(out) /\ k = n + (k - n)
      BY <1>7, <1>12, <2>1
    <3> QED
      BY <3>1
  <2> QED
    BY <1>12, <2>1
<1>14. /\ \A k \in 1..n : /\ output[o][k] \in Event /\ ~output[o][k].neg /\ output[o][k].src = o
                          /\ output[o][k].cancels = {} /\ output[o][k].id < nextId[o]
                          /\ output[o][k].id \in Nat
       /\ \A j, k \in 1..n : j < k => output[o][j].id < output[o][k].id
  <2>1. output[o] \in Seq(Own(o)) /\ Increasing(output[o])
    BY DEF LostInv, OutputOK
  <2>2. \A k \in 1..n : output[o][k] \in Own(o)
    BY <1>11, <2>1
  <2>3. \A x \in Own(o) : /\ x \in Event /\ ~x.neg /\ x.src = o /\ x.cancels = {}
                          /\ x.id < nextId[o] /\ x.id \in Nat
    BY DEF Own, Event
  <2> QED
    BY <1>11, <2>1, <2>2, <2>3 DEF Increasing
<1>15. /\ nextId'[o] \in Nat /\ nextId[o] <= nextId'[o]
       /\ \A k \in 1..Len(out) : out[k].id \in Nat /\ nextId[o] <= out[k].id /\ out[k].id < nextId'[o]
       /\ \A j, k \in 1..Len(out) : j < k => out[j].id < out[k].id
  <2>1. PICK i \in Nat, l \in Nat : i = nextId[o] /\ l = Len(out)
    BY <1>4, <1>7
  <2>2. nextId'[o] = i + l /\ \A k \in 1..l : out[k].id = i + k - 1
    BY <1>7, <1>10, <2>1
  <2>3. \A k \in 1..l : i + k - 1 \in Nat /\ i <= i + k - 1 /\ i + k - 1 < i + l
    BY <2>1
  <2>4. \A j, k \in 1..l : j < k => i + j - 1 < i + k - 1
    BY <2>1
  <2>5. i + l \in Nat /\ i <= i + l
    BY <2>1
  <2> QED
    BY ONLY <2>1, <2>2, <2>3, <2>4, <2>5
<1>16. Known \subseteq Known'
  <2>1. ASSUME NEW s \in Object, NEW k \in 1..Len(output'[s])
        PROVE  \/ \E j \in 1..Len(output[s]) : output'[s][k] = output[s][j]
               \/ output'[s][k].id \in Nat /\ nextId[s] <= output'[s][k].id
    <3>1. CASE s # o
      BY <1>10, <3>1
    <3>2. CASE s = o /\ k \in 1..n
      BY <1>11, <1>12, <3>2
    <3>3. CASE s = o /\ \E j \in 1..Len(out) : k = n + j
      BY <1>12, <1>15, <3>3
    <3> QED
      BY <1>13, <3>1, <3>2, <3>3
  <2>2. ASSUME NEW s \in Object PROVE nextId'[s] \in Nat /\ nextId[s] <= nextId'[s]
    <3>1. nextId[s] \in Nat /\ nextId[s] <= nextId[s]
      BY CountersAre
    <3>2. CASE s = o
      BY <1>15, <3>2
    <3>3. CASE s # o
      BY <1>10, <3>1, <3>3
    <3> QED
      BY <3>2, <3>3
  <2> QED
    BY <2>1, <2>2, KnownGrows
<1>17. OutputOK'
  <2>1. ASSUME NEW s \in Object, s # o PROVE output'[s] \in Seq(Own(s)') /\ Increasing(output'[s])
    <3>1. output[s] \in Seq(Own(s)) /\ Increasing(output[s])
      BY DEF LostInv, OutputOK
    <3>2. Own(s)' = Own(s)
      BY <1>10, <2>1 DEF Own
    <3> QED
      BY <1>10, <2>1, <3>1, <3>2
  <2>2. output'[o] \in Seq(Own(o)')
    <3>1. ASSUME NEW k \in 1..Len(output'[o]) PROVE output'[o][k] \in Own(o)'
      <4>1. output'[o][k] \in Event
        BY <1>12
      <4>2. CASE k \in 1..n
        <5>1. output[o][k].id < nextId'[o]
          BY <1>4, <1>14, <1>15, <4>2, SMTT(30)
        <5> QED
          BY <1>12, <1>14, <4>1, <4>2, <5>1 DEF Own
      <4>3. CASE \E j \in 1..Len(out) : k = n + j
        <5>1. PICK j \in 1..Len(out) : k = n + j
          BY <4>3
        <5>2. output'[o][k] = out[j]
          BY <1>12, <5>1
        <5> QED
          BY <1>7, <1>15, <4>1, <5>2 DEF Own
      <4> QED
        BY <1>13, <4>2, <4>3
    <3>2. PICK q \in Seq(Event) : q = output'[o]
      BY <1>12
    <3>3. PICK T : T = Own(o)'
      OBVIOUS
    <3>4. \A k \in 1..Len(q) : q[k] \in T
      BY <3>1, <3>2, <3>3
    <3>5. q \in Seq(T)
      BY <3>4, ElementsIn
    <3> QED
      BY <3>2, <3>3, <3>5
  <2>3. ASSUME NEW j \in 1..Len(output'[o]), NEW k \in 1..Len(output'[o]), j < k
        PROVE  output'[o][j].id < output'[o][k].id
    <3>1. CASE k \in 1..n
      <4>1. j \in 1..n
        BY <1>12, <2>3, <3>1
      <4> QED
        BY <1>12, <1>14, <2>3, <3>1, <4>1
    <3>2. CASE \E i \in 1..Len(out) : k = n + i
      <4>1. PICK i \in 1..Len(out) : k = n + i
        BY <3>2
      <4>2. CASE j \in 1..n
        <5>1. output[o][j].id < nextId[o] /\ nextId[o] <= out[i].id /\ out[i].id \in Nat /\ output[o][j].id \in Nat
          BY <1>14, <1>15, <4>2
        <5>2. output[o][j].id < out[i].id
          <6>1. PICK a, b, c : a = output[o][j].id /\ b = nextId[o] /\ c = out[i].id
            OBVIOUS
          <6>2. a \in Nat /\ b \in Nat /\ c \in Nat /\ a < b /\ b <= c
            BY <1>4, <5>1, <6>1
          <6>3. a < c
            BY ONLY <6>2
          <6> QED
            BY <6>1, <6>3
        <5> QED
          BY <1>12, <4>1, <4>2, <5>2
      <4>3. CASE \E l \in 1..Len(out) : j = n + l
        <5>1. PICK l \in 1..Len(out) : j = n + l
          BY <4>3
        <5>2. l < i
          BY <1>12, <2>3, <4>1, <5>1
        <5> QED
          BY <1>12, <1>15, <4>1, <5>1, <5>2
      <4> QED
        BY <1>13, <4>2, <4>3
    <3> QED
      BY <1>13, <3>1, <3>2
  <2> QED
    BY <2>1, <2>2, <2>3 DEF OutputOK, Increasing
<1>18. Append(p, e) = p \o <<e>> /\ Append(p, e) \in Seq(Known)
  BY <1>3
<1>19. KnownOK'
  <2>1. ASSUME NEW x \in Object PROVE unprocessed'[x] \in Seq(Known') /\ processed'[x] \in Seq(Known')
    <3>1. unprocessed'[x] \in Seq(Known) /\ processed'[x] \in Seq(Known)
      BY <1>10, <1>18, QueuesKnown, ZenonT(60)
    <3> QED
      BY <1>16, <3>1, SeqSubset
  <2>2. ASSUME NEW w \in Worker, pc'[w] \in Handling PROVE straggler'[w] \in Known'
    <3>1. w # t
      BY <1>10, <2>2 DEF Handling, Cancelling
    <3>2. straggler[w] \in Known
      BY <1>1, <1>10, <2>2, <3>1 DEF LostInv, KnownOK
    <3> QED
      BY <1>16, <3>2
  <2> QED
    BY <1>9, <2>1, <2>2 DEF KnownOK
<1>20. TodoOK'
  <2>1. {x \in Known : x.neg} \subseteq {x \in Known' : x.neg}
    BY <1>16
  <2>2. ASSUME NEW w \in Worker
        PROVE  /\ pc'[w] \in Cancelling => todo'[w] \in Seq({x \in Known' : x.neg})
               /\ pc'[w] \notin Cancelling \cup Sending => todo'[w] = <<>>
    <3>1. CASE w = t
      BY <1>10, <3>1 DEF Cancelling, Sending
    <3>2. CASE w # t
      <4>1. pc'[w] = pc[w] /\ todo'[w] = todo[w]
        BY <1>1, <1>10, <3>2
      <4>2. /\ pc[w] \in Cancelling => todo[w] \in Seq({x \in Known : x.neg})
            /\ pc[w] \notin Cancelling \cup Sending => todo[w] = <<>>
        BY DEF LostInv, TodoOK
      <4> QED
        BY <2>1, <4>1, <4>2, SeqSubset
    <3> QED
      BY <3>1, <3>2
  <2>3. inbox' \in Seq(Foreign) /\ todo'[Master] \in Seq(Foreign)
    BY <1>1, <1>10 DEF LostInv, TodoOK
  <2> QED
    BY <2>2, <2>3 DEF TodoOK
<1>21. ToInsert(t) = <<>> /\ ToInsert(t)' = out
  BY <1>10, ToInsertIs DEF Sending
<1>22. /\ <<e>> \in Seq(Event) /\ u \in Seq(Event) /\ v \in Seq(Event) /\ p \in Seq(Event)
       /\ p \o <<e>> \in Seq(Event)
  BY <1>4, SeqSubset DEF Known
<1>23. Resends(t, o)
  <2>1. \A x : Keeps((<<e>> \o v) \o p, v \o (p \o <<e>>), x)
    BY ONLY <1>22, MovedKeeps
  <2>2. Events(o) = (<<e>> \o v) \o p /\ Events(o)' = v \o (p \o <<e>>)
    BY <1>2, <1>3, <1>10, <1>18 DEF Events
  <2> QED
    BY <1>10, <1>21, <2>1, <2>2 DEF Resends
<1>24. /\ \A s \in Object : s # o => (\A k \in 1..Len(output[s]) : Placed(s, output[s][k]))'
       /\ \A w \in Worker : w # t =>
            /\ Increasing(ToInsert(w)')
            /\ \A i \in 1..Len(ToInsert(w)') :
                  \E k \in 1..Len(output'[obj'[w]]) : output'[obj'[w]][k] = ToInsert(w)'[i]
       /\ \A x \in Event : Waits(o, x)' => ~None(ToInsert(t)', x)
       /\ \A x \in Event : Sent(x) /\ x.src = o => One(Events(x.dst)', x)
  BY <1>23, ResendsKeeps
<1>25. SendOK'
  <2>1. Increasing(out)
    BY <1>15 DEF Increasing
  <2>2. \A i \in 1..Len(out) : n + i \in 1..Len(output'[o])
    BY <1>7, <1>12
  <2>3. \A i \in 1..Len(out) : \E k \in 1..Len(output'[obj'[t]]) : output'[obj'[t]][k] = out[i]
    BY <1>12, <2>2
  <2>4. ASSUME NEW w \in Worker
        PROVE  /\ Increasing(ToInsert(w)')
               /\ \A i \in 1..Len(ToInsert(w)') :
                     \E k \in 1..Len(output'[obj'[w]]) : output'[obj'[w]][k] = ToInsert(w)'[i]
    <3>1. CASE w = t
      BY <1>21, <2>1, <2>3, <3>1
    <3>2. CASE w # t
      BY <1>24, <3>2
    <3> QED
      BY <3>1, <3>2
  <2> QED
    BY <2>4 DEF SendOK, Increasing
<1>26. ASSUME NEW k \in 1..Len(output'[o]) PROVE Placed(o, output[o][k])'
  <2>1. PICK x : x = output'[o][k]
    OBVIOUS
  <2>2. CASE k \in 1..n
    <3>1. Sent(x) /\ x.src = o /\ x \in Event /\ x.id < nextId[o] /\ x.id \in Nat
      <4>1. Sent(output[o][k])
        BY <1>11, <2>2, OutputIsSent DEF LostInv
      <4> QED
        BY <1>12, <1>14, <2>1, <2>2, <4>1
    <3>2. None(out, x)
      <4>1. ASSUME NEW j \in 1..Len(out) PROVE out[j] # x
        <5>1. nextId[o] <= out[j].id /\ out[j].id \in Nat
          BY <1>15
        <5>2. out[j].id # x.id
          BY <1>4, <3>1, <5>1
        <5> QED
          BY <5>2
      <4> QED
        BY <4>1 DEF None
    <3>3. ~Waits(o, x)'
      BY <1>21, <1>24, <3>1, <3>2
    <3>4. One(Events(x.dst)', x)
      BY <1>24, <3>1
    <3>5. Placed(o, x)'
      BY <3>3, <3>4 DEF Placed, One
    <3> QED
      BY <2>1, <3>5
  <2>3. CASE \E j \in 1..Len(out) : k = n + j
    <3>1. PICK j \in 1..Len(out) : k = n + j
      BY <2>3
    <3>2. x = out[j] /\ ~None(out, x)
      <4>1. x = out[j]
        BY <1>12, <2>1, <3>1
      <4> QED
        BY <4>1 DEF None
    <3>3. x \in Event /\ x.dst \in Object
      <4>1. out[j] \in Event
        OBVIOUS
      <4> QED
        BY <3>2, <4>1 DEF Event
    <3>4. Waits(o, x)'
      BY <1>21, <1>23, <3>2 DEF Waits, None, Resends
    <3>5. x \notin Known
      <4>1. x.src = o /\ ~x.neg /\ nextId[o] <= x.id /\ x.id \in Nat
        BY <1>7, <1>15, <3>2
      <4>2. ~(x.id < nextId[o])
        BY <1>4, <4>1
      <4> QED
        BY <4>1, <4>2 DEF Known
    <3>6. PICK y \in Object : y = x.dst
      BY <3>3
    <3>7. unprocessed'[y] \in Seq(Known) /\ processed'[y] \in Seq(Known)
      BY <1>10, <1>18, QueuesKnown, ZenonT(60)
    <3>8. None(unprocessed'[y], x) /\ None(processed'[y], x)
      BY <3>5, <3>7 DEF None
    <3>9. None(unprocessed'[y] \o processed'[y], x)
      BY <3>7, <3>8, ConcatNone
    <3>10. Placed(o, x)'
      BY <3>4, <3>6, <3>9 DEF Placed, Events, None
    <3> QED
      BY <2>1, <3>10
  <2> QED
    BY <1>13, <2>2, <2>3
<1>27. PlaceOK'
  BY <1>24, <1>26 DEF PlaceOK
<1> QED
  BY <1>17, <1>19, <1>20, <1>25, <1>27 DEF LostInv

LEMMA ExecutionLosesNothing ==
  ASSUME AppOK, ScheduleInv, LostInv, NEW t \in Worker, ExecuteProcess(t) \/ GetEvent(t)
  PROVE  LostInv'
<1>1. PICK o \in Object : o = obj[t]
  BY HasObject DEF ExecuteProcess, GetEvent
<1>2. CASE Executable(o)
  <2>1. /\ ExecuteFirst(t, o) /\ pc[t] \in {"execute", "more"}
        /\ UNCHANGED <<obj, straggler, inbox>>
    BY <1>1, <1>2 DEF ExecuteProcess, GetEvent
  <2> QED
    BY <1>1, <1>2, <2>1, ExecuteFirstLosesNothing DEF Executable
<1>3. CASE ~Executable(o)
  BY <1>1, <1>3, NoEventLosesNothing
<1> QED
  BY <1>2, <1>3

\* What getEventsSentAtOrAfterAndRemove() takes away comes after what it leaves.
LEMMA CancelledAfter ==
  ASSUME NEW o \in Object, output[o] \in Seq(Event), NEW r, NEW k \in 1..Len(Cancelled(o, r))
  PROVE  \E j \in 1..Len(output[o]) : KeptOutput(o, r) < j /\ Cancelled(o, r)[k] = output[o][j]
<1>1. PICK s, n : s = output[o] /\ n = KeptOutput(o, r) /\ s \in Seq(Event)
  OBVIOUS
<1>2. n \in 0..Len(s) /\ Len(s) \in Nat
  BY <1>1, OutputSplit
<1>3. PICK from \in Nat : n + 1 <= from /\ Cancelled(o, r) = Reverse(SubSeq(s, from, Len(s)))
  <2>1. n + 1 \in Nat /\ 2 \in Nat /\ (n = 0 => n + 1 <= 2) /\ n + 1 <= n + 1
    BY <1>2
  <2> QED
    BY <1>1, <2>1 DEF Cancelled
<1>4. PICK q : q = SubSeq(s, from, Len(s))
  OBVIOUS
<1>5. from \in Nat \ {0} /\ Len(s) \in 0..Len(s)
  BY <1>2, <1>3
<1>6. /\ q \in Seq(Event) /\ Len(q) \in Nat /\ Len(q) = IF from <= Len(s) THEN Len(s) - from + 1 ELSE 0
      /\ \A i \in 1..Len(q) : q[i] = s[from + i - 1]
  BY <1>1, <1>4, <1>5, SliceOf
<1>7. Reverse(q) = [i \in 1..Len(q) |-> q[Len(q) - i + 1]]
  BY DEF Reverse
<1>8. Len(Reverse(q)) = Len(q)
  BY <1>6, <1>7
<1>9. k \in 1..Len(q) /\ Cancelled(o, r)[k] = q[Len(q) - k + 1]
  BY <1>3, <1>4, <1>7, <1>8
<1>10. PICK i \in 1..Len(q) : i = Len(q) - k + 1
  <2>1. Len(q) - k + 1 \in 1..Len(q)
    BY <1>6, <1>9
  <2> QED
    BY <2>1
<1>11. from + i - 1 \in 1..Len(s) /\ n < from + i - 1
  BY <1>2, <1>3, <1>6
<1> QED
  BY <1>1, <1>6, <1>9, <1>10, <1>11

\* What cancelEvents() makes of it.
LEMMA StragglersCancel ==
  ASSUME NEW es \in Seq(Event), NEW order \in SetToSeqs(Stragglers(es)), NEW i \in 1..Len(order)
  PROVE  /\ order[i] \in Event /\ order[i].neg
         /\ \A c \in order[i].cancels : \E k \in 1..Len(es) : c = <<es[k].src, es[k].id>>
<1>1. order \in Seq(Event)
  BY StragglersOrdered
<1>2. order[i] \in Stragglers(es)
  <2>1. order \in [1..Cardinality(Stragglers(es)) -> Stragglers(es)]
    BY DEF SetToSeqs
  <2>2. i \in DOMAIN order
    BY <1>1
  <2> QED
    BY <2>1, <2>2
<1>3. DOMAIN es = 1..Len(es)
  OBVIOUS
<1>4. PICK k \in 1..Len(es) : order[i] = StragglerEvent(es, es[k].dst)
  BY <1>2, <1>3 DEF Stragglers
<1> DEFINE K == {x \in DOMAIN es : es[x].dst = es[k].dst}
<1>5. K \in SUBSET Nat /\ k \in K /\ K \in SUBSET (1..Len(es))
  BY <1>3
<1>6. es[Min(K)] \in Event
  <2>1. Min(K) \in K
    BY <1>5, MinIsLeast
  <2> QED
    BY <1>5, <2>1
<1>7. PICK y \in Event : y = es[Min(K)]
  BY <1>6
<1>8. PICK C, R : C = {<<es[x].src, es[x].id>> : x \in K} /\ R = Min({es[x].recv : x \in K})
  OBVIOUS
<1>9. order[i] = [y EXCEPT !.neg = TRUE, !.recv = R, !.cancels = C]
  BY <1>4, <1>7, <1>8 DEF StragglerEvent
<1>10. order[i].neg /\ order[i].cancels = C
  <2> HIDE DEF K
  <2> QED
    BY <1>7, <1>9 DEF Event
<1>11. \A c \in C : \E x \in 1..Len(es) : c = <<es[x].src, es[x].id>>
  BY <1>5, <1>8
<1> QED
  BY <1>1, <1>10, <1>11

LEMMA RollbackLosesNothing ==
  ASSUME ScheduleInv, LostInv, NEW t \in Worker, Rollback(t)
  PROVE  LostInv'
<1>1. PICK o \in Object : o = obj[t] /\ t \in Thread
  BY HasObject DEF Rollback
<1>2. pc[t] = "rollback" /\ todo[t] = <<>> /\ ToInsert(t) = <<>> /\ straggler[t] \in Known
  <2>1. pc[t] = "rollback"
    BY DEF Rollback
  <2>2. todo[t] = <<>>
    BY <2>1, NothingToInsert DEF Cancelling, Sending
  <2>3. ToInsert(t) = <<>>
    BY <2>1, ToInsertIs DEF Sending
  <2> QED
    BY <2>1, <2>2, <2>3 DEF LostInv, KnownOK, Handling
<1>3. Master \in Thread /\ t # Master /\ \A w \in Worker : w \in Thread
  BY Constants
<1>4. PICK u \in Seq(Known), p \in Seq(Known), s \in Seq(Event) :
         u = unprocessed[o] /\ p = processed[o] /\ s = output[o]
  <2>1. unprocessed[o] \in Seq(Known) /\ processed[o] \in Seq(Known) /\ output[o] \in Seq(Event)
    BY QueuesKnown, CountersAre
  <2> QED
    BY <2>1
<1>5. PICK rt : rt = straggler[t].recv
  OBVIOUS
<1>6. PICK n, es : n = KeptOutput(o, rt) /\ es = Cancelled(o, rt)
  OBVIOUS
<1>7. n \in 0..Len(s) /\ es \in Seq(Event) /\ Len(s) \in Nat
  BY <1>4, <1>6, OutputSplit
<1>8. PICK kept \in 0..Len(p) :
         /\ processed' = [processed EXCEPT ![o] = SubSeq(p, 1, kept)]
         /\ unprocessed' = [unprocessed EXCEPT ![o] = InsertedAll(u, SubSeq(p, kept + 1, Len(p)))]
  BY <1>1, <1>4 DEF Rollback, Returned, ScheduleInv, DataOK
<1>9. PICK order \in SetToSeqs(Stragglers(es)) : todo' = [todo EXCEPT ![t] = order]
  BY <1>1, <1>5, <1>6 DEF Rollback
<1>10. /\ output' = [output EXCEPT ![o] = SubSeq(s, 1, n)]
       /\ pc' = [pc EXCEPT ![t] = "cancel"]
       /\ UNCHANGED <<nextId, obj, straggler, inbox>>
  BY <1>1, <1>4, <1>5, <1>6 DEF Rollback
<1>11. PICK keptp, r : keptp = SubSeq(p, 1, kept) /\ r = SubSeq(p, kept + 1, Len(p))
  OBVIOUS
<1>12. keptp \in Seq(Known) /\ r \in Seq(Known) /\ p = keptp \o r
  BY <1>8, <1>11, SplitAt
<1>13. PICK v \in Seq(Known) : v = InsertedAll(u, r)
  <2>1. Known \in SUBSET Event
    BY DEF Known
  <2> QED
    BY <1>12, <2>1, InsertedAllOK
<1>14. /\ DOMAIN unprocessed = Object /\ DOMAIN processed = Object /\ DOMAIN output = Object
       /\ DOMAIN todo = Thread /\ DOMAIN pc = Thread /\ DOMAIN straggler = Thread
  BY DEF ScheduleInv, DataOK, ControlOK, ControlTypes, LostInv, KnownOK
<1>15. PICK out : out = SubSeq(s, 1, n)
  OBVIOUS
<1>16. /\ unprocessed'[o] = v /\ processed'[o] = keptp /\ output'[o] = out
       /\ todo'[t] = order /\ pc'[t] = "cancel" /\ nextId' = nextId
       /\ \A w \in Thread : w # t => pc'[w] = pc[w] /\ todo'[w] = todo[w]
       /\ \A x \in Object : x # o => /\ unprocessed'[x] = unprocessed[x] /\ processed'[x] = processed[x]
                                     /\ output'[x] = output[x]
  BY ONLY <1>1, <1>8, <1>9, <1>10, <1>11, <1>13, <1>14, <1>15, o \in Object
<1>17. out \in Seq(Event) /\ Len(out) = n /\ \A k \in 1..n : out[k] = s[k] /\ k \in 1..Len(s)
  <2>1. 1 \in Nat \ {0}
    OBVIOUS
  <2>2. /\ out \in Seq(Event) /\ Len(out) = (IF 1 <= n THEN n - 1 + 1 ELSE 0)
        /\ \A k \in 1..Len(out) : out[k] = s[1 + k - 1]
    BY <1>7, <1>15, <2>1, SliceOf
  <2>3. Len(out) = n /\ \A k \in 1..n : 1 + k - 1 = k /\ k \in 1..Len(s)
    BY <1>7, <2>2
  <2> QED
    BY <2>2, <2>3
<1>18. Known \subseteq Known'
  <2>1. ASSUME NEW x \in Object, NEW k \in 1..Len(output'[x])
        PROVE  \E j \in 1..Len(output[x]) : output'[x][k] = output[x][j]
    <3>1. CASE x # o
      BY <1>16, <3>1
    <3>2. CASE x = o
      BY <1>4, <1>16, <1>17, <3>2
    <3> QED
      BY <3>1, <3>2
  <2>2. ASSUME NEW x \in Object PROVE nextId'[x] \in Nat /\ nextId[x] <= nextId'[x]
    <3>1. nextId[x] \in Nat /\ nextId[x] <= nextId[x]
      BY CountersAre
    <3> QED
      BY <1>16, <3>1
  <2> QED
    BY <2>1, <2>2, KnownGrows
<1>19. /\ s \in Seq(Own(o)) /\ Increasing(s)
       /\ \A k \in 1..Len(s) : s[k].src = o /\ s[k].id < nextId[o] /\ s[k].id \in Nat
  <2>1. s \in Seq(Own(o)) /\ Increasing(s)
    BY <1>4 DEF LostInv, OutputOK
  <2>2. \A x \in Own(o) : x.src = o /\ x.id < nextId[o] /\ x.id \in Nat
    BY DEF Own, Event
  <2> QED
    BY <2>1, <2>2
<1>20. OutputOK'
  <2>1. \A x \in Object : Own(x)' = Own(x)
    BY <1>16 DEF Own
  <2>2. ASSUME NEW x \in Object PROVE output'[x] \in Seq(Own(x)) /\ Increasing(output'[x])
    <3>1. CASE x # o
      BY <1>16, <3>1 DEF LostInv, OutputOK
    <3>2. CASE x = o
      <4>1. \A k \in 1..Len(out) : out[k] \in Own(o)
        BY <1>17, <1>19
      <4>2. out \in Seq(Own(o))
        BY <1>17, <4>1, ElementsIn
      <4>3. Increasing(out)
        BY <1>17, <1>19 DEF Increasing
      <4> QED
        BY <1>16, <3>2, <4>2, <4>3
    <3> QED
      BY <3>1, <3>2
  <2> QED
    BY <2>1, <2>2 DEF OutputOK, Increasing
<1>21. order \in Seq({x \in Known' : x.neg})
  <2>1. ASSUME NEW i \in 1..Len(order) PROVE order[i] \in Known' /\ order[i].neg
    <3>1. /\ order[i] \in Event /\ order[i].neg
          /\ \A c \in order[i].cancels : \E k \in 1..Len(es) : c = <<es[k].src, es[k].id>>
      BY <1>7, StragglersCancel
    <3>2. ASSUME NEW c \in order[i].cancels
          PROVE  /\ c[1] = o /\ c[2] < nextId'[o]
                 /\ \A k \in 1..Len(output'[o]) : output'[o][k].id # c[2]
      <4>1. PICK k \in 1..Len(es) : c = <<es[k].src, es[k].id>>
        BY <3>1
      <4>2. PICK j \in 1..Len(s) : n < j /\ es[k] = s[j]
        BY <1>4, <1>6, CancelledAfter
      <4>3. c[1] = o /\ c[2] = s[j].id /\ c[2] < nextId'[o]
        BY <1>16, <1>19, <4>1, <4>2
      <4>4. ASSUME NEW l \in 1..n PROVE out[l].id # c[2]
        <5>1. l < j /\ l \in 1..Len(s) /\ out[l] = s[l]
          <6>1. l \in 1..Len(s) /\ out[l] = s[l]
            BY <1>17
          <6>2. n \in Nat /\ j \in Nat /\ n < j /\ l \in 1..n
            BY <1>7, <4>2
          <6> QED
            BY <6>1, <6>2
        <5>2. s[l].id < s[j].id
          BY <1>19, <5>1 DEF Increasing
        <5>3. s[l].id \in Nat /\ s[j].id \in Nat
          BY <1>19, <5>1
        <5> QED
          BY <4>3, <5>1, <5>2, <5>3
      <4> QED
        BY <1>16, <1>17, <4>3, <4>4
    <3> QED
      BY <3>1, <3>2 DEF Known
  <2>2. order \in Seq(Event)
    BY <1>7, StragglersOrdered
  <2>3. \A i \in 1..Len(order) : order[i] \in {x \in Known' : x.neg}
    BY <2>1
  <2> QED
    BY <2>2, <2>3, ElementsIn
<1>22. KnownOK'
  <2>1. ASSUME NEW x \in Object PROVE unprocessed'[x] \in Seq(Known') /\ processed'[x] \in Seq(Known')
    <3>1. unprocessed'[x] \in Seq(Known) /\ processed'[x] \in Seq(Known)
      BY <1>12, <1>13, <1>16, QueuesKnown
    <3> QED
      BY <1>18, <3>1, SeqSubset
  <2>2. ASSUME NEW w \in Worker, pc'[w] \in Handling PROVE straggler'[w] \in Known'
    <3>1. pc[w] \in Handling
      BY <1>2, <1>3, <1>16, <2>2 DEF Handling
    <3>2. straggler[w] \in Known
      BY <3>1 DEF LostInv, KnownOK
    <3> QED
      BY <1>10, <1>18, <3>2
  <2> QED
    BY <1>10, <1>14, <2>1, <2>2 DEF KnownOK
<1>23. TodoOK'
  <2>1. {x \in Known : x.neg} \subseteq {x \in Known' : x.neg}
    BY <1>18
  <2>2. ASSUME NEW w \in Worker
        PROVE  /\ pc'[w] \in Cancelling => todo'[w] \in Seq({x \in Known' : x.neg})
               /\ pc'[w] \notin Cancelling \cup Sending => todo'[w] = <<>>
    <3>1. CASE w = t
      BY <1>16, <1>21, <3>1 DEF Cancelling
    <3>2. CASE w # t
      <4>1. pc'[w] = pc[w] /\ todo'[w] = todo[w]
        BY <1>3, <1>16, <3>2
      <4>2. /\ pc[w] \in Cancelling => todo[w] \in Seq({x \in Known : x.neg})
            /\ pc[w] \notin Cancelling \cup Sending => todo[w] = <<>>
        BY DEF LostInv, TodoOK
      <4> QED
        BY <2>1, <4>1, <4>2, SeqSubset
    <3> QED
      BY <3>1, <3>2
  <2>3. inbox' \in Seq(Foreign) /\ todo'[Master] \in Seq(Foreign)
    BY <1>3, <1>10, <1>16 DEF LostInv, TodoOK
  <2> QED
    BY <2>2, <2>3 DEF TodoOK
<1>24. u \in Seq(Event) /\ keptp \in Seq(Event) /\ r \in Seq(Event)
  BY <1>12, SeqSubset DEF Known
<1>25. Resends(t, o)
  <2>1. \A e : Keeps(u \o (keptp \o r), InsertedAll(u, r) \o keptp, e)
    BY ONLY <1>24, ReturnedKeeps
  <2>2. Events(o) = u \o (keptp \o r) /\ Events(o)' = InsertedAll(u, r) \o keptp
    BY <1>4, <1>12, <1>13, <1>16 DEF Events
  <2> QED
    BY <1>1, <1>2, <1>10, <1>16, <2>1, <2>2 DEF Resends
<1>26. /\ \A x \in Object : x # o => (\A k \in 1..Len(output[x]) : Placed(x, output[x][k]))'
       /\ \A w \in Worker : w # t =>
            /\ Increasing(ToInsert(w)')
            /\ \A i \in 1..Len(ToInsert(w)') :
                  \E k \in 1..Len(output'[obj'[w]]) : output'[obj'[w]][k] = ToInsert(w)'[i]
       /\ \A e \in Event : Waits(o, e)' => ~None(ToInsert(t)', e)
       /\ \A e \in Event : Sent(e) /\ e.src = o => One(Events(e.dst)', e)
  BY <1>25, ResendsKeeps
<1>27. ToInsert(t)' = <<>> /\ Len(<<>>) = 0
  BY <1>16, ToInsertIs DEF Sending
<1>28. SendOK'
  <2>1. ASSUME NEW w \in Worker
        PROVE  /\ Increasing(ToInsert(w)')
               /\ \A i \in 1..Len(ToInsert(w)') :
                     \E k \in 1..Len(output'[obj'[w]]) : output'[obj'[w]][k] = ToInsert(w)'[i]
    <3>1. CASE w = t
      BY <1>27, <3>1 DEF Increasing
    <3>2. CASE w # t
      BY <1>26, <3>2
    <3> QED
      BY <3>1, <3>2
  <2> QED
    BY <2>1 DEF SendOK, Increasing
<1>29. ASSUME NEW k \in 1..Len(output'[o]) PROVE Placed(o, output[o][k])'
  <2>1. PICK e : e = output'[o][k]
    OBVIOUS
  <2>2. k \in 1..Len(output[o]) /\ e = output[o][k]
    BY <1>4, <1>16, <1>17, <2>1
  <2>3. Sent(e) /\ e.src = o
    BY <2>2, OutputIsSent DEF LostInv
  <2>4. e \in Event
    BY <2>3 DEF Sent
  <2>5. One(Events(e.dst)', e)
    BY <1>26, <2>3, <2>4
  <2>6. ~Waits(o, e)'
    <3>1. None(<<>>, e)
      BY DEF None
    <3> QED
      BY <1>26, <1>27, <2>4, <3>1
  <2>7. Placed(o, e)'
    BY <2>5, <2>6 DEF Placed, One
  <2> QED
    BY <2>1, <2>7
<1>30. PlaceOK'
  BY <1>26, <1>29 DEF PlaceOK
<1> QED
  BY <1>20, <1>22, <1>23, <1>28, <1>30 DEF LostInv

-----------------------------------------------------------------------------
(* The initial state *)

\* What initialize() sends.
LEMMA FirstOutput ==
  ASSUME Init, NEW o \in Object
  PROVE  /\ nextId[o] \in Nat /\ output[o] \in Seq(Own(o)) /\ Increasing(output[o])
<1>1. Initial[o] \in Seq(Message) /\ DOMAIN Initial[o] = 1..Len(Initial[o]) /\ Len(Initial[o]) \in Nat
  BY ApplicationAssumption
<1>2. nextId[o] = Len(Initial[o])
  BY DEF Init
<1>3. output[o] = [k \in 1..Len(Initial[o]) |->
                     NewEvent(o, Initial[o][k].dst, 0, Initial[o][k].recv, k - 1)]
  BY <1>1 DEF Init
<1>4. output[o] \in Seq(Event)
  BY FirstEvents
<1>5. Len(output[o]) = Len(Initial[o])
  BY <1>1, <1>3
<1>6. ASSUME NEW k \in 1..Len(output[o])
      PROVE  output[o][k] \in Own(o) /\ output[o][k].id = k - 1
  <2>1. output[o][k] \in Event
    BY <1>4
  <2>2. output[o][k] = NewEvent(o, Initial[o][k].dst, 0, Initial[o][k].recv, k - 1)
    BY <1>3, <1>5
  <2>3. /\ output[o][k].id = k - 1 /\ ~output[o][k].neg /\ output[o][k].src = o
        /\ output[o][k].cancels = {}
    BY <2>2 DEF NewEvent
  <2>4. k - 1 < nextId[o]
    BY <1>1, <1>2, <1>5
  <2> QED
    BY <2>1, <2>3, <2>4 DEF Own
<1>7. output[o] \in Seq(Own(o))
  BY <1>4, <1>6, ElementsIn
<1>8. Increasing(output[o])
  BY <1>1, <1>5, <1>6 DEF Increasing
<1> QED
  BY <1>1, <1>2, <1>7, <1>8

\* Each of them is in the queue of its receiver once.
LEMMA FirstPlaces ==
  ASSUME Init, NEW o \in Object
  PROVE  /\ unprocessed[o] \in Seq(Known) /\ processed[o] = <<>>
         /\ \A e \in Event : e.dst = o /\ (\E s \in Object : \E k \in 1..Len(output[s]) : output[s][k] = e)
              => One(Events(o), e)
<1> DEFINE U == UNION {ToSet(output[s]) : s \in Object}
           S == {e \in U : e.dst = o}
<1>1. IsFiniteSet(U) /\ U \subseteq Event
  BY FirstEvents
<1>2. IsFiniteSet(S)
  BY <1>1, FS_Subset
<1>3. unprocessed[o] = InsertedAll(<<>>, SetToSeq(S)) /\ processed[o] = <<>>
  BY DEF Init
<1>4. S \subseteq Known
  <2>1. ASSUME NEW e \in U PROVE e \in Known
    <3>1. PICK s \in Object : e \in ToSet(output[s])
      OBVIOUS
    <3>2. output[s] \in Seq(Own(s)) /\ nextId[s] \in Nat
      BY FirstOutput
    <3>3. e \in Own(s)
      BY <3>1, <3>2, ElementsOf DEF ToSet
    <3> QED
      BY <3>3 DEF Own, Known
  <2> QED
    BY <2>1
<1>5. Known \in SUBSET Event
  BY DEF Known
<1>6. PICK q : q = SetToSeq(S)
  OBVIOUS
<1>7. /\ q \in Seq(S) /\ \A j, k \in 1..Len(q) : j # k => q[j] # q[k]
      /\ \A x \in S : \E k \in 1..Len(q) : q[k] = x
  BY <1>2, <1>6, SetToSeqOK, ZenonT(60)
<1>8. q \in Seq(Known)
  <2> HIDE DEF S
  <2> QED
    BY <1>4, <1>7, SeqSubset
<1>9. <<>> \in Seq(Known) /\ q \in Seq(Event) /\ <<>> \in Seq(Event)
  BY <1>5, <1>8, SeqSubset
<1>10. InsertedAll(<<>>, q) \in Seq(Known)
  BY <1>5, <1>8, <1>9, InsertedAllOK
<1>11. ASSUME NEW e \in S PROVE One(Events(o), e)
  <2>1. One(q, e)
    <3> HIDE DEF S
    <3> QED
      BY <1>7 DEF One
  <2>2. <<>> \o q = q
    BY <1>9
  <2>3. Keeps(<<>> \o q, InsertedAll(<<>>, q), e)
    BY <1>9, InsertedAllKeeps
  <2>4. One(InsertedAll(<<>>, q), e)
    BY <2>1, <2>2, <2>3 DEF Keeps
  <2>5. InsertedAll(<<>>, q) \o <<>> = InsertedAll(<<>>, q)
    BY <1>10
  <2>6. Events(o) = InsertedAll(<<>>, q)
    BY <1>3, <1>6, <2>5 DEF Events
  <2> QED
    BY <2>4, <2>6
<1>12. ASSUME NEW e \in Event, e.dst = o, NEW s \in Object, NEW k \in 1..Len(output[s]), output[s][k] = e
       PROVE  e \in S
  <2>1. output[s] \in Seq(Own(s))
    BY FirstOutput
  <2>2. k \in DOMAIN output[s]
    BY <2>1
  <2>3. e \in ToSet(output[s])
    BY <1>12, <2>2 DEF ToSet
  <2> QED
    BY <1>12, <2>3
<1> QED
  BY <1>3, <1>6, <1>10, <1>11, <1>12

LEMMA LostInitial == Init => LostInv
<1> SUFFICES ASSUME Init PROVE LostInv
  OBVIOUS
<1>1. /\ pc = [t \in Thread |-> IF t = Master THEN "send" ELSE "idle"]
      /\ straggler = [t \in Thread |-> End] /\ todo = [t \in Thread |-> <<>>] /\ inbox = Inbox
  BY ZenonT(60) DEF Init
<1>2. Master \in Thread /\ \A t \in Worker : t \in Thread /\ t # Master
  BY Constants
<1>3. ASSUME NEW t \in Worker PROVE pc[t] = "idle" /\ todo[t] = <<>> /\ ToInsert(t) = <<>>
  <2>1. pc[t] = "idle" /\ todo[t] = <<>>
    BY ONLY <1>1, <1>2, t \in Worker
  <2> QED
    BY <2>1 DEF ToInsert
<1>4. OutputOK
  BY FirstOutput DEF OutputOK
<1>5. KnownOK
  <2>1. ASSUME NEW o \in Object PROVE unprocessed[o] \in Seq(Known) /\ processed[o] \in Seq(Known)
    <3>1. unprocessed[o] \in Seq(Known) /\ processed[o] = <<>>
      BY FirstPlaces
    <3>2. <<>> \in Seq(Known)
      OBVIOUS
    <3> QED
      BY <3>1, <3>2
  <2>2. DOMAIN straggler = Thread
    BY ONLY <1>1
  <2> QED
    BY <1>3, <2>1, <2>2 DEF KnownOK, Handling, Cancelling
<1>6. TodoOK
  <2>1. Inbox \in Seq(Event)
    BY ApplicationAssumption
  <2>2. ASSUME NEW i \in 1..Len(Inbox) PROVE Inbox[i] \in Foreign
    <3>1. Inbox[i] \in Event
      BY <2>1
    <3>2. Inbox[i].src \notin Object /\ \A c \in Inbox[i].cancels : c[1] = Inbox[i].src
      BY InboxAssumption
    <3> QED
      BY <3>1, <3>2 DEF Foreign
  <2>3. Inbox \in Seq(Foreign)
    BY <2>1, <2>2, ElementsIn
  <2>4. todo[Master] = <<>>
    BY ONLY <1>1, <1>2
  <2>5. inbox = Inbox /\ <<>> \in Seq(Foreign)
    BY <1>1
  <2>6. inbox \in Seq(Foreign) /\ todo[Master] \in Seq(Foreign)
    BY ONLY <2>3, <2>4, <2>5
  <2>7. \A t \in Worker : pc[t] \notin Cancelling /\ todo[t] = <<>>
    BY <1>3 DEF Cancelling
  <2> QED
    BY ONLY <2>6, <2>7 DEF TodoOK
<1>7. SendOK
  <2>1. Len(<<>>) = 0
    OBVIOUS
  <2> QED
    BY <1>3, <2>1 DEF SendOK, Increasing
<1>8. PlaceOK
  <2> SUFFICES ASSUME NEW s \in Object, NEW k \in 1..Len(output[s])
               PROVE  Placed(s, output[s][k])
    BY DEF PlaceOK
  <2>1. PICK e : e = output[s][k]
    OBVIOUS
  <2>2. e \in Event /\ e.dst \in Object
    BY <1>4, <2>1, OutputIsSent DEF Sent
  <2>3. One(Events(e.dst), e)
    BY <2>1, <2>2, FirstPlaces
  <2>4. ~Waits(s, e)
    <3>1. None(<<>>, e)
      BY DEF None
    <3> QED
      BY <1>3, <3>1 DEF Waits
  <2> QED
    BY <2>1, <2>3, <2>4 DEF Placed
<1> QED
  BY <1>4, <1>5, <1>6, <1>7, <1>8 DEF LostInv

LEMMA LostPreserved ==
  ASSUME AppOK, ScheduleInv, LostInv, [Next]_vars
  PROVE  LostInv'
<1>1. CASE UNCHANGED vars
  <2>1. UNCHANGED <<unprocessed, processed, output, nextId, pc, obj, straggler, todo, inbox>>
    BY <1>1 DEF vars, objectVars
  <2>2. Master \in Thread /\ Master \notin Worker /\ NoOne \notin Object
    BY Constants
  <2>3. Quiet(Master, NoOne)
    <3>1. inbox \in Seq(Foreign) /\ todo[Master] \in Seq(Foreign) /\ DOMAIN straggler = Thread
      BY DEF LostInv, TodoOK, KnownOK
    <3> QED
      BY <2>1, <2>2, <3>1 DEF Quiet
  <2> QED
    BY <2>2, <2>3, QuietStep
<1>2. CASE MasterStep
  BY <1>2, ReceiveLosesNothing, InsertLosesNothing, InsertFirstLosesNothing, Constants DEF MasterStep
<1>3. ASSUME NEW t \in Worker, WorkerStep(t) PROVE LostInv'
  <2>1. CASE PeekLock(t) \/ Peek(t)
    BY <2>1, PeekLosesNothing
  <2>2. CASE GetEventIfStraggler(t)
    BY <2>2, GetEventIfStragglerLosesNothing
  <2>3. CASE Rollback(t)
    BY <2>3, RollbackLosesNothing
  <2>4. CASE CoastForward(t)
    BY <2>4, CoastForwardLosesNothing
  <2>5. CASE GetEventWhileRollback(t)
    BY <2>5, GetEventWhileRollbackLosesNothing
  <2>6. CASE HandleAntiMessage(t)
    BY <2>6, HandleAntiMessageLosesNothing
  <2>7. CASE ExecuteProcess(t) \/ GetEvent(t)
    BY <2>7, ExecutionLosesNothing
  <2>8. CASE HaveMoreEvents(t)
    BY <2>8, HaveMoreEventsLosesNothing
  <2>9. CASE Insert(t)
    BY <2>9, InsertLosesNothing, Constants
  <2>10. CASE InsertFirst(t)
    BY <2>10, InsertFirstLosesNothing, Constants
  <2>11. CASE UpdateLock(t) \/ UpdateScheduleQueue(t)
    BY <2>11, UpdateLosesNothing
  <2> QED
    BY <1>3, <2>1, <2>2, <2>3, <2>4, <2>5, <2>6, <2>7, <2>8, <2>9, <2>10, <2>11 DEF WorkerStep
<1> QED
  BY <1>1, <1>2, <1>3 DEF Next

-----------------------------------------------------------------------------
(* What follows from the invariant *)

LEMMA PlacesCounted ==
  ASSUME NEW s \in Seq(Event), NEW e
  PROVE  /\ None(s, e) => Cardinality({k \in DOMAIN s : s[k] = e}) = 0
         /\ One(s, e) => Cardinality({k \in DOMAIN s : s[k] = e}) = 1
<1>1. DOMAIN s = 1..Len(s)
  OBVIOUS
<1>2. ASSUME None(s, e) PROVE Cardinality({k \in DOMAIN s : s[k] = e}) = 0
  <2>1. {k \in DOMAIN s : s[k] = e} = {}
    BY <1>1, <1>2 DEF None
  <2> QED
    BY <2>1, FS_EmptySet
<1>3. ASSUME One(s, e) PROVE Cardinality({k \in DOMAIN s : s[k] = e}) = 1
  <2>1. PICK k \in 1..Len(s) : s[k] = e /\ \A j \in 1..Len(s) : s[j] = e => j = k
    BY <1>3 DEF One
  <2>2. {j \in DOMAIN s : s[j] = e} = {k}
    BY <1>1, <2>1
  <2> QED
    BY <2>2, FS_Singleton
<1> QED
  BY <1>2, <1>3

LEMMA LostFollows ==
  ASSUME ScheduleInv, LostInv
  PROVE  NoEventLost
<1> SUFFICES ASSUME NEW s \in Object, NEW e \in ToSet(output[s])
             PROVE  Cardinality({k \in DOMAIN Events(e.dst) : Events(e.dst)[k] = e})
                      + Cardinality({t \in Worker : obj[t] = s /\ e \in ToSet(ToInsert(t))}) = 1
  BY DEF NoEventLost
<1>1. output[s] \in Seq(Own(s))
  BY DEF LostInv, OutputOK
<1>2. PICK k \in 1..Len(output[s]) : output[s][k] = e
  BY <1>1 DEF ToSet
<1>3. e.dst \in Object /\ Placed(s, e)
  BY <1>2, OutputIsSent DEF LostInv, PlaceOK
<1>4. Events(e.dst) \in Seq(Event)
  <2>1. unprocessed[e.dst] \in Seq(Known) /\ processed[e.dst] \in Seq(Known)
    BY <1>3, QueuesKnown
  <2>2. unprocessed[e.dst] \in Seq(Event) /\ processed[e.dst] \in Seq(Event)
    BY <2>1, SeqSubset DEF Known
  <2> QED
    BY <2>2, Concatenated DEF Events
<1> DEFINE W == {t \in Worker : obj[t] = s /\ e \in ToSet(ToInsert(t))}
<1>5. ASSUME NEW t \in Worker PROVE e \in ToSet(ToInsert(t)) <=> ~None(ToInsert(t), e)
  <2>1. PICK q : q = ToInsert(t)
    OBVIOUS
  <2>2. DOMAIN q = 1..Len(q)
    <3>1. todo[t] \in Seq(Event)
      BY Constants DEF ScheduleInv, DataOK
    <3>2. CASE pc[t] = "sendFirst"
      <4>1. todo[t] # <<>>
        BY <3>2, Constants DEF ScheduleInv, ControlOK, InsertOK, First
      <4>2. q = Tail(todo[t])
        BY <2>1, <3>2 DEF ToInsert
      <4> QED
        BY <3>1, <4>1, <4>2
    <3>3. CASE pc[t] # "sendFirst"
      <4>1. q = todo[t] \/ q = <<>>
        BY <2>1, <3>3 DEF ToInsert
      <4> QED
        BY <3>1, <4>1
    <3> QED
      BY <3>2, <3>3
  <2> QED
    BY <2>1, <2>2 DEF ToSet, None
<1>6. CASE Waits(s, e)
  <2>1. PICK t \in Worker : obj[t] = s /\ ~None(ToInsert(t), e)
    BY <1>6 DEF Waits
  <2>2. \A u \in W : u = t
    BY <2>1, OneHas
  <2>3. W = {t}
    BY <1>5, <2>1, <2>2
  <2>4. Cardinality(W) = 1
    BY <2>3, FS_Singleton
  <2>5. Cardinality({j \in DOMAIN Events(e.dst) : Events(e.dst)[j] = e}) = 0
    BY <1>3, <1>4, <1>6, PlacesCounted DEF Placed
  <2> QED
    BY <2>4, <2>5
<1>7. CASE ~Waits(s, e)
  <2>1. W = {}
    BY <1>5, <1>7 DEF Waits
  <2>2. Cardinality(W) = 0
    BY <2>1, FS_EmptySet
  <2>3. Cardinality({j \in DOMAIN Events(e.dst) : Events(e.dst)[j] = e}) = 1
    BY <1>3, <1>4, <1>7, PlacesCounted DEF Placed
  <2> QED
    BY <2>2, <2>3
<1> QED
  BY <1>6, <1>7

(* An event its sender stands by is in one place: the worker of the sender has *)
(* yet to insert() it, or it is unprocessed, or processed.  Neither a rollback, *)
(* which gives processed events back while others insert(), nor an anti-message *)
(* that erases what an object sent before, loses or doubles it.                 *)
THEOREM NothingIsLost ==
  ASSUME AppOK
  PROVE  Spec => []NoEventLost
<1>1. Init => ScheduleInv /\ LostInv
  BY ScheduleInitial, LostInitial
<1>2. ScheduleInv /\ LostInv /\ [Next]_vars => ScheduleInv' /\ LostInv'
  BY SchedulePreserved, LostPreserved
<1>3. ScheduleInv /\ LostInv => NoEventLost
  BY LostFollows
<1> QED
  BY <1>1, <1>2, <1>3, PTL DEF Spec
=============================================================================
