-------------------------- MODULE CheckpointsProofs --------------------------
(* The checkpoints of a manager are those of the checkpoint times up to some   *)
(* newest one, for every set of objects, every period and every sequence of    *)
(* executions, rollbacks and recoveries.                                       *)
EXTENDS Checkpoints, FiniteSetTheorems, WellFoundedInduction, TLAPS

\* The checkpoint times, and those that are not later than m.
Grid == {firstCheckpointTime + k * Period : k \in Nat}
Upto(m) == {c \in Grid : c <= m}

LEMMA PeriodPositive == Period \in Nat \ {0} /\ Period \in Int
BY CheckpointAssumption

-----------------------------------------------------------------------------
(* Multiples of the period *)

LEMMA MultipleOf ==
  ASSUME NEW p \in Nat \ {0}, NEW a \in Nat
  PROVE  a % p = 0 <=> \E k \in Nat : a = k * p
<1>1. ASSUME a % p = 0 PROVE \E k \in Nat : a = k * p
  <2>1. a = p * (a \div p) + (a % p) /\ a \div p \in Int
    OBVIOUS
  <2>2. a \div p \in Nat /\ a = (a \div p) * p
    BY <1>1, <2>1
  <2> QED
    BY <2>2
<1>2. ASSUME NEW k \in Nat, a = k * p PROVE a % p = 0
  BY <1>2
<1> QED
  BY <1>1, <1>2

LEMMA Divided ==
  ASSUME NEW p \in Nat \ {0}, NEW a \in Nat
  PROVE  \E d \in Nat, r \in Nat : a = d * p + r /\ r < p /\ d * p \in Nat
<1>1. a = p * (a \div p) + (a % p) /\ a \div p \in Int /\ a % p \in Nat /\ a % p < p
  OBVIOUS
<1>2. a \div p \in Nat
  OBVIOUS
<1>3. p * (a \div p) = (a \div p) * p /\ (a \div p) * p \in Nat
  BY <1>2
<1> QED
  BY <1>1, <1>2, <1>3

LEMMA MultiplesOrdered ==
  ASSUME NEW p \in Nat \ {0}, NEW j \in Nat, NEW k \in Nat
  PROVE  /\ k * p \in Nat /\ (j + k) * p = j * p + k * p /\ (k + 1) * p = k * p + p
         /\ 0 * p = 0
         /\ j < k => j * p + p <= k * p
         /\ j <= k <=> j * p <= k * p
OBVIOUS

LEMMA GridNumbers ==
  ASSUME NEW c \in Grid
  PROVE  c \in Nat /\ 1 <= c
<1>1. PICK k \in Nat : c = 1 + k * Period
  BY DEF Grid, firstCheckpointTime
<1>2. k * Period \in Nat
  BY PeriodPositive, MultiplesOrdered
<1> QED
  BY <1>1, <1>2

LEMMA GridFirst == 1 \in Grid
<1>1. 0 * Period = 0 /\ 1 = 1 + 0 /\ 0 \in Nat
  BY PeriodPositive, MultiplesOrdered
<1> QED
  BY <1>1 DEF Grid, firstCheckpointTime

LEMMA GridPlus ==
  ASSUME NEW c \in Grid, NEW j \in Nat
  PROVE  j * Period \in Nat /\ c + j * Period \in Grid
<1>1. PICK k \in Nat : c = 1 + k * Period
  BY DEF Grid, firstCheckpointTime
<1>2. PICK a \in Nat, b \in Nat : a = k * Period /\ b = j * Period /\ (k + j) * Period = a + b
  BY PeriodPositive, MultiplesOrdered
<1>3. c + b = 1 + (k + j) * Period /\ k + j \in Nat
  BY <1>1, <1>2
<1> QED
  BY <1>2, <1>3 DEF Grid, firstCheckpointTime

LEMMA GridMinus ==
  ASSUME NEW c \in Grid, NEW j \in Nat, 1 <= c - j * Period
  PROVE  c - j * Period \in Grid
<1>1. PICK k \in Nat : c = 1 + k * Period
  BY DEF Grid, firstCheckpointTime
<1>2. PICK a \in Nat, b \in Nat : a = k * Period /\ b = j * Period /\ (j <= k <=> b <= a)
  BY PeriodPositive, MultiplesOrdered
<1>3. b <= a
  BY <1>1, <1>2
<1>4. k - j \in Nat /\ k = j + (k - j)
  BY <1>2, <1>3
<1>5. PICK i \in Nat : i = k - j /\ k = j + i
  BY <1>4
<1>6. i * Period \in Nat /\ a = b + i * Period
  BY <1>2, <1>5, PeriodPositive, MultiplesOrdered
<1>7. c - b = 1 + i * Period
  BY <1>1, <1>2, <1>6
<1> QED
  BY <1>2, <1>7 DEF Grid, firstCheckpointTime

LEMMA GridNeighbours ==
  ASSUME NEW c \in Grid
  PROVE  c + Period \in Grid /\ (1 <= c - Period => c - Period \in Grid)
<1>1. 1 * Period = Period /\ 1 \in Nat
  BY PeriodPositive
<1> QED
  BY <1>1, GridPlus, GridMinus

\* Two checkpoint times are a number of periods apart.
LEMMA GridDistance ==
  ASSUME NEW c \in Grid, NEW d \in Grid, c <= d
  PROVE  \E k \in Nat : k * Period \in Nat /\ d = c + k * Period /\ (c < d => 1 <= k /\ c + Period <= d)
<1>1. PICK j \in Nat, k \in Nat : c = 1 + j * Period /\ d = 1 + k * Period
  BY DEF Grid, firstCheckpointTime
<1>2. PICK a \in Nat, b \in Nat : /\ a = j * Period /\ b = k * Period
                                  /\ (j <= k <=> a <= b) /\ (j < k => a + Period <= b)
  BY PeriodPositive, MultiplesOrdered
<1>3. j <= k /\ (c < d => j < k)
  BY <1>1, <1>2
<1>4. PICK i \in Nat : k = j + i
  <2>1. k - j \in Nat /\ k = j + (k - j)
    BY <1>3
  <2> QED
    BY <2>1
<1>5. i * Period \in Nat /\ b = a + i * Period
  BY <1>2, <1>4, PeriodPositive, MultiplesOrdered
<1>6. d = c + i * Period
  BY <1>1, <1>2, <1>5
<1>7. ASSUME c < d PROVE 1 <= i /\ c + Period <= d
  BY <1>1, <1>2, <1>3, <1>4, <1>7, PeriodPositive
<1> QED
  BY <1>5, <1>6, <1>7

\* What the remainders in checkpoint() and recover() test.
LEMMA GridAfter ==
  ASSUME NEW c \in Grid, NEW x \in Nat, c <= x
  PROVE  (x - c) % Period = 0 <=> x \in Grid
<1>1. c \in Nat /\ x - c \in Nat
  BY GridNumbers
<1>2. (x - c) % Period = 0 <=> \E k \in Nat : x - c = k * Period
  BY <1>1, PeriodPositive, MultipleOf
<1>3. ASSUME NEW k \in Nat, x - c = k * Period PROVE x \in Grid
  <2>1. k * Period \in Nat /\ c + k * Period \in Grid
    BY GridPlus
  <2>2. x = c + k * Period
    BY <1>1, <1>3, <2>1
  <2> QED
    BY <2>1, <2>2
<1>4. ASSUME x \in Grid PROVE \E k \in Nat : x - c = k * Period
  <2>1. PICK k \in Nat : k * Period \in Nat /\ x = c + k * Period
    BY <1>4, GridDistance
  <2>2. x - c = k * Period
    BY <1>1, <2>1
  <2> QED
    BY <2>2
<1> QED
  BY <1>2, <1>3, <1>4

LEMMA GridBefore ==
  ASSUME NEW c \in Grid, NEW x \in Nat, 1 <= x, x <= c, (c - x) % Period = 0
  PROVE  x \in Grid
<1>1. c \in Nat /\ c - x \in Nat
  BY GridNumbers
<1>2. PICK k \in Nat : c - x = k * Period
  BY <1>1, PeriodPositive, MultipleOf
<1>3. x = c - k * Period
  BY <1>1, <1>2
<1> QED
  BY <1>3, GridMinus

-----------------------------------------------------------------------------
(* Counting checkpoint times *)

Between(n, t) == {c \in Grid : n <= c /\ c <= t}

\* The checkpoint times from n to t are so many periods, from n on.
LEMMA Counted ==
  ASSUME NEW n \in Grid, NEW t \in Nat
  PROVE  \E q \in Nat :
            /\ q = Cardinality(Between(n, t)) /\ q * Period \in Nat
            /\ n + q * Period \in Grid /\ t < n + q * Period
            /\ Between(n, t) = {c \in Grid : n <= c /\ c < n + q * Period}
            /\ q > 0 => n + q * Period - Period \in Between(n, t)
<1>1. n \in Nat
  BY GridNumbers
<1>2. CASE t < n
  <2>1. Between(n, t) = {}
    <3>1. ASSUME NEW c \in Grid PROVE ~(n <= c /\ c <= t)
      BY <1>1, <1>2, GridNumbers
    <3> QED
      BY <3>1 DEF Between
  <2>2. Cardinality(Between(n, t)) = 0
    BY <2>1, FS_EmptySet
  <2>3. 0 * Period = 0 /\ n + 0 = n
    BY <1>1, PeriodPositive, MultiplesOrdered
  <2>4. {c \in Grid : n <= c /\ c < n} = {}
    <3>1. ASSUME NEW c \in Grid PROVE ~(n <= c /\ c < n)
      BY <1>1, GridNumbers
    <3> QED
      BY <3>1
  <2> QED
    BY <1>2, <2>1, <2>2, <2>3, <2>4
<1>3. CASE n <= t
  <2>1. PICK d \in Nat, r \in Nat : t - n = d * Period + r /\ r < Period /\ d * Period \in Nat
    <3>1. t - n \in Nat
      BY <1>1, <1>3
    <3>2. PICK x \in Nat : x = t - n
      BY <3>1
    <3> QED
      BY <3>2, PeriodPositive, Divided
  <2>2. PICK q \in Nat : q = d + 1
    OBVIOUS
  <2>3. q * Period \in Nat /\ q * Period = d * Period + Period
    BY <2>1, <2>2, PeriodPositive, MultiplesOrdered
  <2>4. t < n + q * Period /\ n + q * Period - Period = n + d * Period /\ n + d * Period <= t
    BY <1>1, <2>1, <2>3, PeriodPositive
  <2>5. n + q * Period \in Grid /\ n + d * Period \in Grid
    BY <2>1, <2>2, GridPlus
  <2>6. ASSUME NEW c \in Grid, n <= c PROVE c <= t <=> c < n + q * Period
    <3>1. c \in Nat
      BY GridNumbers
    <3>2. ASSUME c < n + q * Period PROVE c <= n + d * Period
      <4>1. CASE c > n + d * Period
        <5>1. n + d * Period <= c /\ n + d * Period < c
          BY <1>1, <2>1, <3>1, <4>1
        <5>2. n + d * Period + Period <= c
          BY <2>5, <5>1, GridDistance
        <5> QED
          BY <1>1, <2>1, <2>3, <3>1, <3>2, <5>2, PeriodPositive
      <4> QED
        BY <1>1, <2>1, <3>1, <4>1
    <3> QED
      BY <1>1, <2>1, <2>3, <2>4, <3>1, <3>2
  <2>7. Between(n, t) = {c \in Grid : n <= c /\ c < n + q * Period}
    BY <2>6 DEF Between
  <2>8. n + q * Period - Period \in Between(n, t)
    BY <1>1, <2>1, <2>4, <2>5 DEF Between
  <2>9. Cardinality(Between(n, t)) = q
    <3> DEFINE f == [i \in 1..q |-> n + (i - 1) * Period]
    <3>1. ASSUME NEW i \in 1..q
          PROVE  /\ f[i] \in Between(n, t)
                 /\ \A j \in 1..q : f[i] = f[j] => i = j
      <4>1. PICK k \in Nat : k = i - 1 /\ k < q /\ f[i] = n + k * Period
        BY <2>2
      <4>2. k * Period \in Nat /\ n + k * Period \in Grid /\ k * Period + Period <= q * Period
        BY <4>1, GridPlus, PeriodPositive, MultiplesOrdered
      <4>3. n <= f[i] /\ f[i] < n + q * Period
        BY <1>1, <2>3, <4>1, <4>2, PeriodPositive
      <4>4. ASSUME NEW j \in 1..q, f[i] = f[j] PROVE i = j
        <5>1. PICK l \in Nat : l = j - 1 /\ f[j] = n + l * Period
          OBVIOUS
        <5>2. l * Period \in Nat /\ (k <= l <=> k * Period <= l * Period) /\ (l <= k <=> l * Period <= k * Period)
          BY <4>1, <5>1, PeriodPositive, MultiplesOrdered
        <5>3. k * Period = l * Period
          BY <1>1, <4>1, <4>2, <4>4, <5>1, <5>2
        <5>4. k = l
          BY <5>2, <5>3
        <5> QED
          BY <4>1, <5>1, <5>4
      <4> QED
        BY <2>7, <4>1, <4>2, <4>3, <4>4
    <3>2. ASSUME NEW c \in Between(n, t) PROVE \E i \in 1..q : f[i] = c
      <4>1. c \in Grid /\ n <= c /\ c < n + q * Period
        BY <2>7
      <4>2. PICK k \in Nat : k * Period \in Nat /\ c = n + k * Period
        BY <4>1, GridDistance
      <4>3. ~(q <= k)
        BY <1>1, <2>3, <4>1, <4>2, PeriodPositive, MultiplesOrdered
      <4>4. k + 1 \in 1..q /\ (k + 1) - 1 = k
        BY <4>2, <4>3
      <4> QED
        BY <4>2, <4>4
    <3>3. f \in Bijection(1..q, Between(n, t))
      BY <3>1, <3>2 DEF Bijection, Injection, Surjection, IsInjective
    <3>4. IsFiniteSet(1..q) /\ Cardinality(1..q) = q
      BY FS_Interval, <2>2
    <3> QED
      BY <3>3, <3>4, FS_Bijection DEF ExistsBijection
  <2> QED
    BY <2>3, <2>4, <2>5, <2>7, <2>8, <2>9
<1> QED
  BY <1>1, <1>2, <1>3

\* The times a number of periods below e.
LEMMA PeriodsBelow ==
  ASSUME NEW n \in Grid, NEW q \in Nat, NEW e \in Nat, e = n + q * Period
  PROVE  /\ \A k \in 1..q : e - k * Period \in Grid /\ n <= e - k * Period /\ e - k * Period < e
         /\ \A c \in Grid : n <= c /\ c < e => \E k \in 1..q : c = e - k * Period
<1>1. n \in Nat /\ q * Period \in Nat
  BY GridNumbers, PeriodPositive, MultiplesOrdered
<1>2. ASSUME NEW k \in 1..q
      PROVE  e - k * Period \in Grid /\ n <= e - k * Period /\ e - k * Period < e
  <2>1. PICK i \in Nat : q = i + k
    <3>1. q - k \in Nat /\ q = (q - k) + k
      OBVIOUS
    <3> QED
      BY <3>1
  <2>2. /\ i * Period \in Nat /\ k * Period \in Nat /\ q * Period = i * Period + k * Period
        /\ k * Period > 0
    <3>1. k \in Nat /\ 0 \in Nat /\ 0 < k
      OBVIOUS
    <3> QED
      BY <2>1, <3>1, PeriodPositive, MultiplesOrdered
  <2>3. e - k * Period = n + i * Period
    BY <1>1, <2>2
  <2>4. n + i * Period \in Grid
    BY GridPlus
  <2>5. n <= n + i * Period /\ e - k * Period < e
    BY <1>1, <2>2
  <2> QED
    BY <2>3, <2>4, <2>5
<1>3. ASSUME NEW c \in Grid, n <= c, c < e PROVE \E k \in 1..q : c = e - k * Period
  <2>1. c \in Nat
    BY GridNumbers
  <2>2. PICK i \in Nat : i * Period \in Nat /\ c = n + i * Period
    BY <1>3, GridDistance
  <2>3. ~(q <= i)
    BY <1>1, <1>3, <2>2, MultiplesOrdered, PeriodPositive
  <2>4. PICK k \in 1..q : q = i + k
    <3>1. q - i \in 1..q /\ q = i + (q - i)
      BY <2>3
    <3> QED
      BY <3>1
  <2>5. k * Period \in Nat /\ q * Period = i * Period + k * Period
    <3>1. k \in Nat
      OBVIOUS
    <3> QED
      BY <2>4, <3>1, PeriodPositive, MultiplesOrdered
  <2>6. c = e - k * Period
    BY <1>1, <2>1, <2>2, <2>5
  <2> QED
    BY <2>6
<1> QED
  BY <1>2, <1>3

-----------------------------------------------------------------------------
(* Minima and maxima *)

LEMMA MinIsLeast ==
  ASSUME NEW S \in SUBSET Nat, S # {}
  PROVE  Min(S) \in S /\ \A x \in S : Min(S) <= x
<1>1. PICK x \in S : \A y \in S : ~(<<y, x>> \in OpToRel(<, Nat))
  BY WFMin, NatLessThanWellFounded
<1>2. ASSUME NEW y \in S PROVE x <= y
  <2>1. x \in Nat /\ y \in Nat
    OBVIOUS
  <2>2. y < x => <<y, x>> \in OpToRel(<, Nat)
    BY <2>1, Zenon DEF OpToRel
  <2>3. ~(y < x)
    BY <1>1, <2>2, Zenon
  <2> QED
    BY <2>1, <2>3
<1> QED
  BY <1>2 DEF Min

HasGreatest(S) == \E x \in S : \A y \in S : y <= x

LEMMA MaxIsGreatest ==
  ASSUME NEW S \in SUBSET Int, HasGreatest(S)
  PROVE  Max(S) \in S /\ \A x \in S : x <= Max(S)
<1>1. PICK x \in S : \A y \in S : x >= y
  BY DEF HasGreatest
<1>2. Max(S) \in S /\ \A y \in S : Max(S) >= y
  BY <1>1 DEF Max
<1> QED
  BY <1>2

\* A least set without a greatest element would have one.
LEMMA FiniteHasGreatest ==
  ASSUME NEW S \in SUBSET Nat, S # {}, IsFiniteSet(S)
  PROVE  HasGreatest(S)
<1> DEFINE B == {T \in SUBSET S : T # {} /\ ~HasGreatest(T)}
           C == {Cardinality(T) : T \in B}
<1>1. \A T \in SUBSET S : IsFiniteSet(T) /\ Cardinality(T) \in Nat
  BY FS_Subset, FS_CardinalityType
<1>2. C \in SUBSET Nat
  BY <1>1
<1>3. SUFFICES ASSUME B # {} PROVE FALSE
  OBVIOUS
<1>4. PICK T \in B : \A U \in B : Cardinality(T) <= Cardinality(U)
  <2>1. C # {}
    BY <1>3
  <2>2. Min(C) \in C /\ \A x \in C : Min(C) <= x
    BY <1>2, <2>1, MinIsLeast
  <2> QED
    BY <2>2
<1>5. T \in SUBSET S /\ T # {} /\ ~HasGreatest(T)
  OBVIOUS
<1>6. PICK x \in T : x \in Nat
  BY <1>5
<1>7. PICK U : U = T \ {x}
  OBVIOUS
<1>8. Cardinality(U) = Cardinality(T) - 1 /\ Cardinality(U) \in Nat /\ Cardinality(T) \in Nat
  BY <1>1, <1>5, <1>7, FS_RemoveElement
<1>9. U \notin B
  BY <1>4, <1>8
<1>10. CASE U = {}
  <2>1. \A y \in T : y <= x
    BY <1>6, <1>7, <1>10
  <2> QED
    BY <1>5, <2>1 DEF HasGreatest
<1>11. CASE HasGreatest(U)
  <2>1. PICK z \in U : \A y \in U : y <= z
    BY <1>11 DEF HasGreatest
  <2>2. z \in T /\ z \in Nat /\ x \in T
    BY <1>5, <1>7, <2>1
  <2>3. CASE x <= z
    <3>1. \A y \in T : y <= z
      BY <1>7, <2>1, <2>3
    <3> QED
      BY <1>5, <2>2, <3>1 DEF HasGreatest
  <2>4. CASE z <= x
    <3>1. \A y \in T : y \in Nat
      BY <1>5
    <3>2. \A y \in T : y <= x
      BY <1>6, <1>7, <2>1, <2>2, <2>4, <3>1
    <3> QED
      BY <1>5, <2>2, <3>2 DEF HasGreatest
  <2> QED
    BY <1>6, <2>2, <2>3, <2>4
<1> QED
  BY <1>5, <1>7, <1>9, <1>10, <1>11

LEMMA LastEvent == Max(EventTime) \in Nat /\ \A t \in EventTime : t <= Max(EventTime) /\ t \in Nat /\ 1 <= t
<1>1. /\ EventTime \in SUBSET Nat /\ EventTime # {} /\ IsFiniteSet(EventTime)
      /\ \A t \in EventTime : t \in Nat /\ 1 <= t
  BY CheckpointAssumption
<1>2. HasGreatest(EventTime) /\ EventTime \in SUBSET Int
  BY <1>1, FiniteHasGreatest
<1> QED
  BY <1>1, <1>2, MaxIsGreatest

LEMMA BoundedHasGreatest ==
  ASSUME NEW n \in Nat, NEW S \in SUBSET (1..n), S # {}
  PROVE  S \in SUBSET Int /\ HasGreatest(S)
<1>1. S \in SUBSET Nat /\ S \in SUBSET Int /\ \A x \in S : x <= n
  OBVIOUS
<1>2. IsFiniteSet(S)
  BY <1>1, FS_BoundedSetOfNaturals
<1> QED
  BY <1>1, <1>2, FiniteHasGreatest

-----------------------------------------------------------------------------
(* The invariant: m is the newest checkpoint there has been *)

EventsBefore(m) == {x \in EventTime : x < m}

StatesOK(m) ==
    /\ DOMAIN checkpointedStates = Upto(m)
    /\ \A c \in Upto(m) : checkpointedStates[c] \in [Object -> SUBSET EventsBefore(m + Period)]
    /\ state \in [Object -> SUBSET EventsBefore(m + Period)]

TimesOK(m) ==
    /\ lastCheckpointTime \in [Object -> Upto(m)]
    /\ DOMAIN nextCheckpointTime = Object
    /\ \A o \in Object : nextCheckpointTime[o] = lastCheckpointTime[o] + Period

FilesOK(m) ==
    /\ files \subseteq Upto(m) \X Object
    /\ \A o \in Object : \A c \in Upto(lastCheckpointTime[o]) : <<c, o>> \in files

RestOK(m) ==
    /\ stateQueue \in [Object -> SUBSET (EventTime \cup {0})]
    /\ lastCollectTimes \in [Object -> Int]
    /\ lastRestoreTime \in {-1} \cup Upto(m)
    /\ rollbacks \in 0 .. MaxRollbacks

Newest(m) ==
    /\ m \in Grid /\ (m = 1 \/ m <= Max(EventTime))
    /\ StatesOK(m) /\ TimesOK(m) /\ FilesOK(m) /\ RestOK(m)

CheckpointInv == \E m : Newest(m)

LEMMA InitialCheckpoint == Init => Newest(1)
<1> SUFFICES ASSUME Init PROVE Newest(1)
  OBVIOUS
<1>1. Upto(1) = {1}
  <2>1. \A c \in Grid : c <= 1 <=> c = 1
    BY GridNumbers
  <2> QED
    BY <2>1, GridFirst DEF Upto
<1>2. StatesOK(1)
  <2>1. state = [o \in Object |-> {}] /\ checkpointedStates = [c \in {1} |-> state]
    BY DEF Init, firstCheckpointTime
  <2> QED
    BY ONLY <1>1, <2>1 DEF StatesOK
<1>3. TimesOK(1)
  <2>1. nextCheckpointTime = [o \in Object |-> Period + 1] /\ lastCheckpointTime = [o \in Object |-> 1]
    BY DEF Init, firstCheckpointTime
  <2> QED
    BY ONLY <1>1, <2>1, PeriodPositive DEF TimesOK
<1>4. FilesOK(1)
  <2>1. files = {1} \X Object /\ lastCheckpointTime = [o \in Object |-> 1]
    BY DEF Init, firstCheckpointTime
  <2> QED
    BY <1>1, <2>1 DEF FilesOK
<1>5. RestOK(1)
  BY CheckpointAssumption DEF Init, RestOK
<1> QED
  BY <1>2, <1>3, <1>4, <1>5, GridFirst DEF Newest

-----------------------------------------------------------------------------
(* updateCheckpointTime() *)

LEMMA Updated ==
  ASSUME NEW m, Newest(m), NEW o \in Object, NEW t
  PROVE  /\ LastUpdated(o, t) \in Grid /\ LastUpdated(o, t) \in Nat
         /\ LastUpdated(o, t) <= lastCheckpointTime[o]
         /\ NextUpdated(o, t) = LastUpdated(o, t) + Period
         /\ lastCheckpointTime[o] \in Grid /\ lastCheckpointTime[o] \in Nat
         /\ lastCheckpointTime[o] <= m /\ m \in Nat
<1>1. PICK l \in Grid : l = lastCheckpointTime[o] /\ l <= m /\ nextCheckpointTime[o] = l + Period
  BY DEF Newest, TimesOK, Upto
<1>2. l \in Nat /\ 1 <= l /\ m \in Nat
  BY GridNumbers DEF Newest
<1>3. CASE t >= l
  BY <1>1, <1>2, <1>3 DEF LastUpdated, NextUpdated
<1>4. CASE ~(t >= l) /\ l - Period < 1
  <2>1. LastUpdated(o, t) = 1 /\ NextUpdated(o, t) = Period + 1
    BY <1>1, <1>4 DEF LastUpdated, NextUpdated, Underflows, firstCheckpointTime
  <2> QED
    BY <1>1, <1>2, <2>1, GridFirst, PeriodPositive
<1>5. CASE ~(t >= l) /\ ~(l - Period < 1)
  <2>1. LastUpdated(o, t) = l - Period /\ NextUpdated(o, t) = l
    BY <1>1, <1>5 DEF LastUpdated, NextUpdated, Underflows, firstCheckpointTime
  <2>2. 1 <= l - Period /\ l - Period \in Nat /\ l - Period <= l /\ (l - Period) + Period = l
    BY <1>2, <1>5, PeriodPositive
  <2>3. l - Period \in Grid
    BY <2>2, GridNeighbours
  <2> QED
    BY <1>1, <1>2, <2>1, <2>2, <2>3
<1> QED
  BY <1>3, <1>4, <1>5

-----------------------------------------------------------------------------
(* executeObjects() *)

\* What checkpoint() makes, and up to which time.
LEMMA DueTimes ==
  ASSUME NEW m, Newest(m), NEW o \in Object, NEW t \in EventTime
  PROVE  \E r \in Nat, q \in Nat :
            /\ r = Cardinality(NewOnes(o, t)) /\ q = Cardinality(Due(o, t))
            /\ r * Period \in Nat /\ q * Period \in Nat
            /\ m + r * Period \in Grid /\ t < m + r * Period + Period
            /\ m + r * Period = 1 \/ m + r * Period <= Max(EventTime)
            /\ NextUpdated(o, t) + q * Period - Period \in Upto(m + r * Period)
            /\ NextUpdated(o, t) \in Grid
            /\ Upto(m) \cup Due(o, t) = Upto(m + r * Period)
            /\ \A c \in Due(o, t) : c \in Grid /\ (c \notin Upto(m) => m + Period <= c)
<1>1. PICK n : n = NextUpdated(o, t)
  OBVIOUS
<1>2. PICK l \in Grid : l = LastUpdated(o, t) /\ n = l + Period /\ l <= m /\ l \in Nat
  BY <1>1, Updated
<1>3. m \in Grid /\ m \in Nat /\ t \in Nat /\ t <= Max(EventTime) /\ Max(EventTime) \in Nat
  BY GridNumbers, LastEvent DEF Newest
<1>4. n \in Grid /\ n \in Nat /\ n <= m + Period /\ m + Period \in Grid /\ m + Period \in Nat
  BY <1>2, <1>3, GridNeighbours, PeriodPositive
<1>5. Due(o, t) = Between(n, t)
  <2>1. ASSUME NEW c PROVE c \in Due(o, t) <=> c \in Between(n, t)
    <3>1. c \in Due(o, t) <=> c \in n..t /\ (c - n) % Period = 0
      BY <1>1 DEF Due
    <3>2. c \in n..t <=> c \in Nat /\ n <= c /\ c <= t
      BY <1>3, <1>4
    <3>3. c \in Grid => c \in Nat
      BY GridNumbers
    <3>4. c \in Nat /\ n <= c => ((c - n) % Period = 0 <=> c \in Grid)
      BY <1>4, GridAfter
    <3> QED
      BY <3>1, <3>2, <3>3, <3>4 DEF Between
  <2> QED
    BY <2>1
<1>6. \A c \in Grid : c > m => m + Period <= c
  BY <1>3, GridNumbers, GridDistance
<1>7. NewOnes(o, t) = Between(m + Period, t)
  <2>1. DOMAIN checkpointedStates = Upto(m)
    BY DEF Newest, StatesOK
  <2>2. ASSUME NEW c \in Grid PROVE (n <= c /\ ~(c <= m)) <=> m + Period <= c
    BY <1>3, <1>4, <1>6, GridNumbers, PeriodPositive
  <2> QED
    BY <1>5, <2>1, <2>2 DEF NewOnes, Between, Upto
<1>8. PICK r \in Nat :
         /\ r = Cardinality(Between(m + Period, t)) /\ r * Period \in Nat
         /\ m + Period + r * Period \in Grid /\ t < m + Period + r * Period
         /\ Between(m + Period, t) = {c \in Grid : m + Period <= c /\ c < m + Period + r * Period}
         /\ r > 0 => m + Period + r * Period - Period \in Between(m + Period, t)
  BY <1>3, <1>4, Counted
<1>9. PICK q \in Nat :
         /\ q = Cardinality(Between(n, t)) /\ q * Period \in Nat
         /\ n + q * Period \in Grid /\ t < n + q * Period
         /\ Between(n, t) = {c \in Grid : n <= c /\ c < n + q * Period}
         /\ q > 0 => n + q * Period - Period \in Between(n, t)
  BY <1>3, <1>4, Counted
<1>10. m + r * Period \in Grid
  BY <1>3, GridPlus
<1>11. t < m + r * Period + Period
  BY <1>3, <1>8, PeriodPositive
<1>12. m + r * Period = 1 \/ m + r * Period <= Max(EventTime)
  <2>1. CASE r = 0
    <3>1. r * Period = 0
      BY <2>1, PeriodPositive, MultiplesOrdered
    <3> QED
      BY <1>3, <3>1 DEF Newest
  <2>2. CASE r > 0
    <3>1. m + Period + r * Period - Period <= t
      BY <1>8, <2>2 DEF Between
    <3> QED
      BY <1>3, <1>8, <3>1, PeriodPositive
  <2> QED
    BY <2>1, <2>2
<1>13. Upto(m) \cup Due(o, t) = Upto(m + r * Period)
  <2>1. ASSUME NEW c \in Grid PROVE (c <= m \/ (n <= c /\ c <= t)) <=> c <= m + r * Period
    <3>1. c \in Nat
      BY GridNumbers
    <3>2. CASE c <= m
      BY <1>3, <1>8, <3>1, <3>2
    <3>3. CASE m + Period <= c
      <4>1. n <= c /\ ~(c <= m)
        BY <1>3, <1>4, <3>1, <3>3, PeriodPositive
      <4>2. c <= t <=> c < m + Period + r * Period
        BY <1>8, <3>3 DEF Between
      <4>3. c < m + Period + r * Period => c <= m + r * Period
        <5>1. CASE c > m + r * Period
          <6>1. m + r * Period <= c /\ m + r * Period < c
            BY <1>3, <1>8, <3>1, <5>1
          <6>2. m + r * Period + Period <= c
            BY <1>10, <6>1, GridDistance
          <6> QED
            BY <1>3, <1>8, <3>1, <6>2, PeriodPositive
        <5> QED
          BY <1>3, <1>8, <3>1, <5>1
      <4>4. c <= m + r * Period => c < m + Period + r * Period
        BY <1>3, <1>8, <3>1, PeriodPositive
      <4> QED
        BY <4>1, <4>2, <4>3, <4>4
    <3> QED
      BY <1>3, <1>6, <3>1, <3>2, <3>3
  <2> QED
    BY <1>5, <2>1 DEF Upto, Between
<1>14. NextUpdated(o, t) + q * Period - Period \in Upto(m + r * Period)
  <2>1. CASE q = 0
    <3>1. q * Period = 0
      BY <2>1, PeriodPositive, MultiplesOrdered
    <3>2. n + q * Period - Period = l
      BY ONLY <1>2, <3>1, l \in Nat, PeriodPositive
    <3>3. l <= m + r * Period
      BY <1>2, <1>3, <1>8
    <3> QED
      BY <1>1, <3>2, <3>3 DEF Upto
  <2>2. CASE q > 0
    BY <1>1, <1>5, <1>9, <1>13, <2>2
  <2> QED
    BY <2>1, <2>2
<1>15. \A c \in Due(o, t) : c \in Grid /\ (c \notin Upto(m) => m + Period <= c)
  <2>1. \A c \in Grid : ~(c <= m) => c > m
    BY <1>3, GridNumbers
  <2> QED
    BY <1>5, <1>6, <2>1 DEF Between, Upto
<1> QED
  BY <1>1, <1>4, <1>5, <1>7, <1>8, <1>9, <1>10, <1>11, <1>12, <1>13, <1>14, <1>15

\* The checkpoint times of every object stay one period apart, and a file is
\* written for each checkpoint that one of them passes.
LEMMA TimesAfter ==
  ASSUME NEW m, Newest(m), NEW o \in Object, NEW t \in EventTime, NEW m1 \in Nat,
         m1 = m + Cardinality(NewOnes(o, t)) * Period, NEW p \in Object
  PROVE  /\ Steps(p, o, t) \in Nat /\ LastAfter(p, o, t) \in Upto(m1)
         /\ NextAfter(p, o, t) = LastAfter(p, o, t) + Period
         /\ \A k \in 1..Steps(p, o, t) : NextAfter(p, o, t) - k * Period \in Upto(LastAfter(p, o, t))
         /\ \A c \in Upto(LastAfter(p, o, t)) :
               \/ c \in Upto(lastCheckpointTime[p])
               \/ \E k \in 1..Steps(p, o, t) : c = NextAfter(p, o, t) - k * Period
<1>1. PICK r \in Nat, q \in Nat :
         /\ r = Cardinality(NewOnes(o, t)) /\ q = Cardinality(Due(o, t))
         /\ r * Period \in Nat /\ q * Period \in Nat
         /\ NextUpdated(o, t) + q * Period - Period \in Upto(m + r * Period)
         /\ NextUpdated(o, t) \in Grid
  BY DueTimes
<1>2. m1 = m + r * Period /\ m \in Nat
  BY <1>1, Updated
<1>3. /\ LastUpdated(o, t) \in Grid /\ LastUpdated(o, t) \in Nat
      /\ LastUpdated(o, t) <= lastCheckpointTime[o]
      /\ NextUpdated(o, t) = LastUpdated(o, t) + Period
      /\ lastCheckpointTime[p] \in Grid /\ lastCheckpointTime[p] \in Nat /\ lastCheckpointTime[p] <= m
      /\ nextCheckpointTime[p] = lastCheckpointTime[p] + Period
  BY Updated DEF Newest, TimesOK
<1>4. PICK b \in Grid, l \in Grid, s \in Nat :
         /\ b = (IF p = o THEN NextUpdated(o, t) ELSE nextCheckpointTime[p])
         /\ l = (IF p = o THEN LastUpdated(o, t) ELSE lastCheckpointTime[p])
         /\ s = Steps(p, o, t) /\ b = l + Period /\ l <= lastCheckpointTime[p]
         /\ b + s * Period - Period \in Upto(m1) /\ s * Period \in Nat
  <2>1. CASE p = o
    <3>1. Steps(p, o, t) = q
      BY <1>1, <2>1 DEF Steps
    <3> QED
      BY <1>1, <1>2, <1>3, <2>1, <3>1
  <2>2. CASE p # o
    <3>1. Steps(p, o, t) = r
      BY <1>1, <2>2 DEF Steps
    <3>2. nextCheckpointTime[p] \in Grid
      BY <1>3, GridNeighbours
    <3>3. lastCheckpointTime[p] + r * Period \in Grid
      BY <1>3, GridPlus
    <3>4. PICK a \in Nat, x \in Nat : a = r * Period /\ x = lastCheckpointTime[p]
      BY <1>1, <1>3
    <3>5. x + Period + a - Period = x + a /\ x + a <= m + a
      BY <1>2, <1>3, <3>4, PeriodPositive
    <3>6. nextCheckpointTime[p] + r * Period - Period \in Upto(m1)
      BY <1>2, <1>3, <3>3, <3>4, <3>5 DEF Upto
    <3>7. lastCheckpointTime[p] <= lastCheckpointTime[p]
      BY <1>3
    <3> QED
      BY <1>1, <1>3, <2>2, <3>1, <3>2, <3>6, <3>7
  <2> QED
    BY <2>1, <2>2
<1>5. b \in Nat /\ l \in Nat
  BY GridNumbers
<1>6. PICK e \in Grid : e = b + s * Period /\ e = NextAfter(p, o, t) /\ e \in Nat
  <2>1. NextAfter(p, o, t) = b + s * Period
    BY <1>4 DEF NextAfter
  <2>2. b + s * Period \in Grid
    BY <1>4, GridPlus
  <2>3. b + s * Period \in Nat
    BY <2>2, GridNumbers
  <2> QED
    BY <2>1, <2>2, <2>3
<1>7. LastAfter(p, o, t) = e - Period
  <2>1. CASE s > 0
    BY <1>4, <1>6, <2>1 DEF LastAfter
  <2>2. CASE ~(s > 0)
    <3>1. LastAfter(p, o, t) = l
      BY <1>4, <2>2 DEF LastAfter
    <3>2. s * Period = 0
      BY <1>4, <2>2, PeriodPositive, MultiplesOrdered
    <3>3. e - Period = l
      BY ONLY <1>4, <1>5, <1>6, <3>2, PeriodPositive
    <3> QED
      BY <3>1, <3>3
  <2> QED
    BY <2>1, <2>2
<1>8. PICK a \in Grid : a = e - Period /\ a \in Upto(m1) /\ a \in Nat /\ e = a + Period
  <2>1. e - Period \in Upto(m1)
    <3>1. b + s * Period - Period \in Upto(m1)
      BY <1>4
    <3>2. PICK y \in Nat : y = s * Period
      BY <1>4
    <3>3. e = b + y /\ b + (y - Period) \in Upto(m1)
      BY ONLY <1>6, <3>1, <3>2
    <3>4. e - Period = b + (y - Period)
      BY <1>5, <3>3, PeriodPositive
    <3> QED
      BY ONLY <3>3, <3>4
  <2>2. e - Period \in Grid
    BY <2>1 DEF Upto
  <2>3. e = (e - Period) + Period
    BY <1>6, PeriodPositive
  <2> QED
    BY <2>1, <2>2, <2>3, GridNumbers
<1>9. /\ \A k \in 1..s : e - k * Period \in Grid /\ b <= e - k * Period /\ e - k * Period < e
      /\ \A c \in Grid : b <= c /\ c < e => \E k \in 1..s : c = e - k * Period
  BY <1>6, PeriodsBelow
<1>10. \A c \in Grid : c < e <=> c <= a
  <2>1. ASSUME NEW c \in Grid PROVE c < e <=> c <= a
    <3>1. c \in Nat
      BY GridNumbers
    <3>2. a < c => a + Period <= c
      <4>1. a < c => a <= c
        BY <1>8, <3>1
      <4> QED
        BY <4>1, GridDistance
    <3> QED
      BY <1>8, <3>1, <3>2, PeriodPositive
  <2> QED
    BY <2>1
<1>11. \A k \in 1..s : e - k * Period \in Upto(a)
  BY <1>9, <1>10 DEF Upto
<1>12. ASSUME NEW c \in Upto(a)
       PROVE  c \in Upto(lastCheckpointTime[p]) \/ \E k \in 1..s : c = e - k * Period
  <2>1. c \in Grid /\ c < e /\ c \in Nat
    BY <1>10, GridNumbers DEF Upto
  <2>2. CASE b <= c
    BY <1>9, <2>1, <2>2
  <2>3. CASE c < b
    <3>1. c <= l
      <4>1. CASE l < c
        <5>1. l + Period <= c
          BY <1>5, <2>1, <4>1, GridDistance
        <5> QED
          BY <1>4, <1>5, <2>1, <2>3, <5>1, PeriodPositive
      <4> QED
        BY <1>5, <2>1, <4>1
    <3>2. c <= lastCheckpointTime[p]
      BY <1>3, <1>4, <1>5, <2>1, <3>1
    <3> QED
      BY <2>1, <3>2 DEF Upto
  <2> QED
    BY <1>5, <2>1, <2>2, <2>3
<1> QED
  BY <1>4, <1>6, <1>7, <1>8, <1>11, <1>12

\* A later newest checkpoint is one for everything there was.
LEMMA EventsBeforeGrow ==
  ASSUME NEW m \in Nat, NEW m1 \in Nat, m <= m1
  PROVE  EventsBefore(m + Period) \subseteq EventsBefore(m1 + Period) /\ Upto(m) \subseteq Upto(m1)
<1>1. \A x \in EventTime : x \in Nat
  BY LastEvent
<1>2. \A c \in Grid : c \in Nat
  BY GridNumbers
<1> QED
  BY <1>1, <1>2, PeriodPositive DEF EventsBefore, Upto

LEMMA ExecuteKeeps ==
  ASSUME NEW m, Newest(m), NEW o \in Object, NEW t \in EventTime, Execute(o, t)
  PROVE  \E m1 : Newest(m1)'
<1>1. PICK r \in Nat, q \in Nat :
            /\ r = Cardinality(NewOnes(o, t)) /\ q = Cardinality(Due(o, t))
            /\ r * Period \in Nat /\ q * Period \in Nat
            /\ m + r * Period \in Grid /\ t < m + r * Period + Period
            /\ m + r * Period = 1 \/ m + r * Period <= Max(EventTime)
            /\ Upto(m) \cup Due(o, t) = Upto(m + r * Period)
  BY DueTimes
<1>2. PICK m1 \in Grid : m1 = m + r * Period
  BY <1>1
<1>3. m \in Nat /\ m1 \in Nat /\ m <= m1
  BY <1>1, <1>2, Updated, GridNumbers
<1>4. EventsBefore(m + Period) \subseteq EventsBefore(m1 + Period) /\ Upto(m) \subseteq Upto(m1)
  BY <1>3, EventsBeforeGrow
<1>5. t \in EventsBefore(m1 + Period)
  BY <1>1, <1>2 DEF EventsBefore
<1>6. state \in [Object -> SUBSET EventsBefore(m1 + Period)]
  BY <1>4 DEF Newest, StatesOK
<1>7. PICK D : D = Due(o, t)
  OBVIOUS
<1>8. StatesOK(m1)'
  <2>1. /\ DOMAIN checkpointedStates = Upto(m)
        /\ \A c \in Upto(m) : checkpointedStates[c] \in [Object -> SUBSET EventsBefore(m1 + Period)]
    BY <1>4 DEF Newest, StatesOK
  <2>2. checkpointedStates' = [c \in Upto(m1) |->
           IF c \notin Upto(m) THEN state
           ELSE IF c \in D THEN [checkpointedStates[c] EXCEPT ![o] = state[o]]
           ELSE checkpointedStates[c]]
    BY <1>1, <1>2, <1>7, <2>1 DEF Execute, checkpoint, Save
  <2>3. ASSUME NEW c \in Upto(m1)
        PROVE  checkpointedStates'[c] \in [Object -> SUBSET EventsBefore(m1 + Period)]
    <3>1. CASE c \notin Upto(m)
      BY <1>6, <2>2, <3>1
    <3>2. CASE c \in Upto(m) /\ c \in D
      <4>1. checkpointedStates'[c] = [checkpointedStates[c] EXCEPT ![o] = state[o]]
        BY <2>2, <3>2
      <4>2. state[o] \in SUBSET EventsBefore(m1 + Period)
        BY <1>6
      <4> QED
        BY <2>1, <3>2, <4>1, <4>2
    <3>3. CASE c \in Upto(m) /\ c \notin D
      BY <2>1, <2>2, <3>3
    <3> QED
      BY <3>1, <3>2, <3>3
  <2>4. state' \in [Object -> SUBSET EventsBefore(m1 + Period)]
    <3>1. state' = [state EXCEPT ![o] = state[o] \cup {t}]
      BY <1>6 DEF Execute
    <3>2. state[o] \cup {t} \in SUBSET EventsBefore(m1 + Period)
      BY <1>5, <1>6
    <3> QED
      BY <1>6, <3>1, <3>2
  <2> QED
    BY <2>2, <2>3, <2>4 DEF StatesOK, Upto, EventsBefore
<1>9. ASSUME NEW p \in Object
      PROVE  /\ Steps(p, o, t) \in Nat /\ LastAfter(p, o, t) \in Upto(m1)
             /\ NextAfter(p, o, t) = LastAfter(p, o, t) + Period
             /\ \A k \in 1..Steps(p, o, t) : NextAfter(p, o, t) - k * Period \in Upto(LastAfter(p, o, t))
             /\ \A c \in Upto(LastAfter(p, o, t)) :
                   \/ c \in Upto(lastCheckpointTime[p])
                   \/ \E k \in 1..Steps(p, o, t) : c = NextAfter(p, o, t) - k * Period
  BY <1>1, <1>2, <1>3, TimesAfter
<1>10. /\ nextCheckpointTime' = [p \in Object |-> NextAfter(p, o, t)]
       /\ lastCheckpointTime' = [p \in Object |-> LastAfter(p, o, t)]
       /\ files' = files \cup FilesOf(o, t)
  BY DEF Execute, checkpoint
<1>11. TimesOK(m1)'
  <2>1. lastCheckpointTime' \in [Object -> Upto(m1)]
    BY <1>9, <1>10
  <2>2. \A p \in Object : nextCheckpointTime'[p] = lastCheckpointTime'[p] + Period
    BY <1>9, <1>10
  <2> QED
    BY <1>10, <2>1, <2>2 DEF TimesOK, Upto
<1>12. FilesOK(m1)'
  <2>1. \A p \in Object : lastCheckpointTime'[p] = LastAfter(p, o, t)
    BY <1>10
  <2>2. ASSUME NEW f \in FilesOf(o, t) PROVE f \in Upto(m1) \X Object
    <3>0. PICK p \in Object : \E k \in 1..Steps(p, o, t) : f = <<NextAfter(p, o, t) - k * Period, p>>
      BY DEF FilesOf
    <3>1. PICK k \in 1..Steps(p, o, t) : f = <<NextAfter(p, o, t) - k * Period, p>>
      BY <3>0
    <3>2. PICK a \in Upto(m1) : a = LastAfter(p, o, t)
      BY <1>9
    <3>3. PICK c \in Upto(a) : c = NextAfter(p, o, t) - k * Period
      BY <1>9, <3>1, <3>2
    <3>4. c \in Upto(m1)
      <4>1. c \in Grid /\ c \in Nat /\ a \in Nat /\ c <= a /\ a <= m1
        BY <3>2, <3>3, GridNumbers DEF Upto
      <4> QED
        BY <1>3, <4>1 DEF Upto
    <3> QED
      BY <3>1, <3>3, <3>4
  <2>3. files' \subseteq Upto(m1) \X Object
    BY <1>4, <1>10, <2>2 DEF Newest, FilesOK
  <2>4. ASSUME NEW p \in Object, NEW c \in Upto(LastAfter(p, o, t)) PROVE <<c, p>> \in files'
    <3>1. CASE c \in Upto(lastCheckpointTime[p])
      BY <1>10, <3>1 DEF Newest, FilesOK
    <3>2. CASE \E k \in 1..Steps(p, o, t) : c = NextAfter(p, o, t) - k * Period
      <4>1. <<c, p>> \in FilesOf(o, t)
        BY <3>2 DEF FilesOf
      <4> QED
        BY <1>10, <4>1
    <3> QED
      BY <1>9, <3>1, <3>2
  <2> QED
    BY <2>1, <2>3, <2>4 DEF FilesOK, Upto
<1>13. RestOK(m1)'
  <2>1. /\ stateQueue \in [Object -> SUBSET (EventTime \cup {0})] /\ lastCollectTimes \in [Object -> Int]
        /\ lastRestoreTime \in {-1} \cup Upto(m1) /\ rollbacks \in 0..MaxRollbacks
    BY <1>4 DEF Newest, RestOK
  <2>2. UNCHANGED <<lastRestoreTime, rollbacks>>
    BY DEF Execute
  <2>3. t - ActiveHistory \in Int
    BY CheckpointAssumption, LastEvent
  <2>4. PICK saved \in SUBSET EventTime : fossilCollect(o, t, saved)
    BY DEF Execute, saveState
  <2>5. stateQueue' \in [Object -> SUBSET (EventTime \cup {0})] /\ lastCollectTimes' \in [Object -> Int]
    BY <2>1, <2>3, <2>4 DEF fossilCollect
  <2> QED
    BY <2>1, <2>2, <2>5 DEF RestOK, Upto
<1>14. Newest(m1)'
  BY <1>1, <1>2, <1>8, <1>11, <1>12, <1>13 DEF Newest, StatesOK, TimesOK, FilesOK, RestOK
<1> QED
  BY <1>14

-----------------------------------------------------------------------------
(* rollback() and the recovery *)

LEMMA RollBackKeeps ==
  ASSUME NEW m, Newest(m), NEW o \in Object, NEW t \in EventTime, RollBack(o, t)
  PROVE  Newest(m)'
<1>1. /\ LastUpdated(o, t) \in Grid /\ LastUpdated(o, t) \in Nat
      /\ LastUpdated(o, t) <= lastCheckpointTime[o]
      /\ NextUpdated(o, t) = LastUpdated(o, t) + Period
      /\ lastCheckpointTime[o] \in Nat /\ lastCheckpointTime[o] <= m /\ m \in Nat
  BY Updated
<1>2. PICK l \in Upto(m) : l = LastUpdated(o, t) /\ Upto(l) \subseteq Upto(lastCheckpointTime[o])
  <2>1. LastUpdated(o, t) \in Upto(m)
    BY <1>1 DEF Upto
  <2>2. \A c \in Grid : c <= LastUpdated(o, t) => c <= lastCheckpointTime[o]
    BY <1>1, GridNumbers
  <2> QED
    BY <2>1, <2>2 DEF Upto
<1>3. /\ nextCheckpointTime' = [nextCheckpointTime EXCEPT ![o] = NextUpdated(o, t)]
      /\ lastCheckpointTime' = [lastCheckpointTime EXCEPT ![o] = l]
      /\ stateQueue' = [stateQueue EXCEPT ![o] = {x \in stateQueue[o] : x <= t}]
      /\ state' = [state EXCEPT ![o] = {x \in state[o] : x < t}]
      /\ UNCHANGED <<checkpointedStates, files, lastCollectTimes, lastRestoreTime>>
      /\ rollbacks < MaxRollbacks /\ rollbacks' = rollbacks + 1
  BY <1>2 DEF RollBack, Straggler
<1>4. StatesOK(m)'
  <2>1. state \in [Object -> SUBSET EventsBefore(m + Period)]
    BY DEF Newest, StatesOK
  <2>2. {x \in state[o] : x < t} \in SUBSET EventsBefore(m + Period)
    BY <2>1
  <2>3. state' \in [Object -> SUBSET EventsBefore(m + Period)]
    BY <1>3, <2>1, <2>2
  <2> QED
    BY <1>3, <2>3 DEF Newest, StatesOK, Upto, EventsBefore
<1>5. TimesOK(m)'
  <2>1. /\ lastCheckpointTime \in [Object -> Upto(m)] /\ DOMAIN nextCheckpointTime = Object
        /\ \A p \in Object : nextCheckpointTime[p] = lastCheckpointTime[p] + Period
    BY DEF Newest, TimesOK
  <2>2. lastCheckpointTime' \in [Object -> Upto(m)]
    BY <1>3, <2>1
  <2>3. ASSUME NEW p \in Object PROVE nextCheckpointTime'[p] = lastCheckpointTime'[p] + Period
    <3>1. CASE p # o
      BY <1>3, <2>1, <3>1
    <3>2. CASE p = o
      BY <1>1, <1>2, <1>3, <2>1, <3>2
    <3> QED
      BY <3>1, <3>2
  <2> QED
    BY <1>3, <2>1, <2>2, <2>3 DEF TimesOK, Upto
<1>6. FilesOK(m)'
  <2>1. files \subseteq Upto(m) \X Object
        /\ \A p \in Object : \A c \in Upto(lastCheckpointTime[p]) : <<c, p>> \in files
    BY DEF Newest, FilesOK
  <2>2. DOMAIN lastCheckpointTime = Object
    BY DEF Newest, TimesOK
  <2>3. ASSUME NEW p \in Object, NEW c \in Upto(lastCheckpointTime'[p]) PROVE <<c, p>> \in files
    <3>1. CASE p = o
      <4>1. lastCheckpointTime'[p] = l
        BY <1>3, <2>2, <3>1
      <4> QED
        BY <1>2, <2>1, <3>1, <4>1
    <3>2. CASE p # o
      <4>1. lastCheckpointTime'[p] = lastCheckpointTime[p]
        BY <1>3, <2>2, <3>2
      <4> QED
        BY <2>1, <4>1
    <3> QED
      BY <3>1, <3>2
  <2> QED
    BY <1>3, <2>1, <2>3 DEF FilesOK, Upto
<1>7. RestOK(m)'
  <2>1. /\ stateQueue \in [Object -> SUBSET (EventTime \cup {0})]
        /\ lastCollectTimes \in [Object -> Int] /\ lastRestoreTime \in {-1} \cup Upto(m)
        /\ rollbacks \in 0..MaxRollbacks
    BY DEF Newest, RestOK
  <2>2. stateQueue' \in [Object -> SUBSET (EventTime \cup {0})]
    BY <1>3, <2>1
  <2>3. rollbacks' \in 0..MaxRollbacks
    BY <1>3, <2>1, CheckpointAssumption
  <2> QED
    BY <1>3, <2>1, <2>2, <2>3 DEF RestOK, Upto
<1> QED
  BY <1>4, <1>5, <1>6, <1>7 DEF Newest, StatesOK, TimesOK, FilesOK, RestOK

\* What the recovery may choose is a checkpoint of every object.
LEMMA Chosen ==
  ASSUME NEW m, Newest(m), NEW c \in Grid, NEW x \in MayChoose(c)
  PROVE  x \in Grid /\ x \in Nat /\ x <= c
<1>1. c \in Nat
  BY GridNumbers
<1>2. lastRestoreTime \in Int
  <2>1. lastRestoreTime \in {-1} \cup Upto(m)
    BY DEF Newest, RestOK
  <2>2. \A a \in Upto(m) : a \in Nat
    BY GridNumbers DEF Upto
  <2> QED
    BY <2>1, <2>2
<1> DEFINE S == {1, lastRestoreTime}
<1>3. HasGreatest(S)
  BY <1>2 DEF HasGreatest
<1>4. PICK a \in Int : a = Max(S) /\ 1 <= a
  <2>1. S \in SUBSET Int /\ 1 \in S
    BY <1>2
  <2> QED
    BY <1>3, <2>1, MaxIsGreatest
<1>5. x \in a..c /\ (c - x) % Period = 0
  BY <1>4 DEF MayChoose, firstCheckpointTime
<1>6. x \in Nat /\ 1 <= x /\ x <= c
  BY <1>1, <1>4, <1>5
<1> QED
  BY <1>5, <1>6, GridBefore

LEMMA RestoreKeeps ==
  ASSUME NEW m, Newest(m), NEW c \in Grid, \A o \in Object : c <= lastCheckpointTime[o],
         restoreCheckpoint(c), rollbacks < MaxRollbacks, rollbacks' = rollbacks + 1
  PROVE  Newest(m)'
<1>1. c \in Upto(m) /\ c \in Nat
  <2>1. PICK o \in Object : TRUE
    BY CheckpointAssumption
  <2>2. lastCheckpointTime[o] \in Nat /\ lastCheckpointTime[o] <= m /\ m \in Nat
    BY Updated
  <2>3. c \in Nat /\ c <= m
    BY <2>2, GridNumbers
  <2> QED
    BY <2>3 DEF Upto
<1>2. /\ lastCheckpointTime' = [o \in Object |-> c]
      /\ nextCheckpointTime' = [o \in Object |-> c + Period]
      /\ state' = checkpointedStates[c]
      /\ stateQueue' = [o \in Object |-> {}]
      /\ lastCollectTimes' = [o \in Object |-> -1]
      /\ lastRestoreTime' = c
      /\ UNCHANGED <<checkpointedStates, files>>
  BY DEF restoreCheckpoint
<1>3. StatesOK(m)'
  BY <1>1, <1>2 DEF Newest, StatesOK, Upto, EventsBefore
<1>4. TimesOK(m)'
  <2>1. lastCheckpointTime' \in [Object -> Upto(m)]
    BY <1>1, <1>2
  <2>2. \A o \in Object : nextCheckpointTime'[o] = lastCheckpointTime'[o] + Period
    BY <1>2
  <2> QED
    BY <1>2, <2>1, <2>2 DEF TimesOK, Upto
<1>5. FilesOK(m)'
  <2>1. files \subseteq Upto(m) \X Object
        /\ \A o \in Object : \A d \in Upto(lastCheckpointTime[o]) : <<d, o>> \in files
    BY DEF Newest, FilesOK
  <2>2. ASSUME NEW o \in Object, NEW d \in Upto(c) PROVE <<d, o>> \in files
    <3>1. lastCheckpointTime[o] \in Nat
      BY Updated
    <3>2. d \in Grid /\ d \in Nat /\ d <= c
      BY GridNumbers DEF Upto
    <3>3. d <= lastCheckpointTime[o]
      BY <1>1, <3>1, <3>2
    <3> QED
      BY <2>1, <3>2, <3>3 DEF Upto
  <2>3. \A o \in Object : lastCheckpointTime'[o] = c
    BY <1>2
  <2> QED
    BY <1>2, <2>1, <2>2, <2>3 DEF FilesOK, Upto
<1>6. RestOK(m)'
  <2>1. rollbacks' \in 0..MaxRollbacks
    BY CheckpointAssumption DEF Newest, RestOK
  <2>2. stateQueue' \in [Object -> SUBSET (EventTime \cup {0})] /\ lastCollectTimes' \in [Object -> Int]
    BY <1>2
  <2> QED
    BY <1>1, <1>2, <2>1, <2>2 DEF RestOK, Upto
<1> QED
  BY <1>3, <1>4, <1>5, <1>6 DEF Newest, StatesOK, TimesOK, FilesOK, RestOK

\* What all objects have, before and after the update of a rollback.
LEMMA AllHaveLeast ==
  ASSUME NEW m, Newest(m)
  PROVE  /\ AllHave \in Grid /\ AllHave \in Nat
         /\ \A p \in Object : AllHave <= lastCheckpointTime[p]
<1> DEFINE L == {lastCheckpointTime[p] : p \in Object}
<1>1. L \in SUBSET Grid /\ L \in SUBSET Nat /\ L # {}
  <2>1. \A p \in Object : lastCheckpointTime[p] \in Grid /\ lastCheckpointTime[p] \in Nat
    BY Updated
  <2> QED
    BY <2>1, CheckpointAssumption
<1>2. \A p \in Object : lastCheckpointTime[p] \in L
  OBVIOUS
<1>3. AllHave = Min(L)
  BY DEF AllHave
<1> HIDE DEF L
<1>4. Min(L) \in L /\ \A x \in L : Min(L) <= x
  BY <1>1, MinIsLeast
<1> QED
  BY <1>1, <1>2, <1>3, <1>4

LEMMA EarliestLeast ==
  ASSUME NEW m, Newest(m), NEW o \in Object, NEW t \in EventTime
  PROVE  /\ Earliest(o, t) \in Grid /\ Earliest(o, t) \in Nat
         /\ \A p \in Object : Earliest(o, t) <= lastCheckpointTime[p]
<1> DEFINE L == {LastUpdated(o, t)} \cup {lastCheckpointTime[p] : p \in Object \ {o}}
<1>1. /\ L \in SUBSET Grid /\ L \in SUBSET Nat /\ L # {}
      /\ \A p \in Object : \E x \in L : x <= lastCheckpointTime[p] /\ lastCheckpointTime[p] \in Nat
  <2>1. /\ LastUpdated(o, t) \in Grid /\ LastUpdated(o, t) \in Nat
        /\ LastUpdated(o, t) <= lastCheckpointTime[o]
    BY Updated
  <2>2. \A p \in Object : /\ lastCheckpointTime[p] \in Grid /\ lastCheckpointTime[p] \in Nat
                          /\ lastCheckpointTime[p] <= lastCheckpointTime[p]
    BY Updated
  <2> QED
    BY <2>1, <2>2
<1>2. Earliest(o, t) = Min(L)
  BY DEF Earliest
<1> HIDE DEF L
<1>3. Min(L) \in L /\ \A x \in L : Min(L) <= x
  BY <1>1, MinIsLeast
<1>4. Min(L) \in Grid /\ Min(L) \in Nat
  BY <1>1, <1>3
<1>5. ASSUME NEW p \in Object PROVE Min(L) <= lastCheckpointTime[p]
  <2>1. PICK x \in L : x <= lastCheckpointTime[p] /\ lastCheckpointTime[p] \in Nat
    BY <1>1
  <2>2. Min(L) <= x /\ x \in Nat
    BY <1>1, <1>3
  <2> QED
    BY <1>4, <2>1, <2>2
<1> QED
  BY <1>2, <1>4, <1>5

\* The checkpoint asked for is one that the objects had when e was found.
LEMMA RequestedBefore ==
  ASSUME NEW e \in Grid, NEW t
  PROVE  Requested(e, t) \in Grid /\ Requested(e, t) \in Nat /\ Requested(e, t) <= e
<1> DEFINE R == {1} \cup {c \in 1..e : c <= t /\ (e - c) % Period = 0}
<1>1. e \in Nat /\ 1 <= e
  BY GridNumbers
<1>2. ASSUME NEW c \in R PROVE c \in Grid /\ c \in Nat /\ c <= e
  <2>1. CASE c = 1
    BY <1>1, <2>1, GridFirst
  <2>2. CASE c \in 1..e /\ (e - c) % Period = 0
    <3>1. c \in Nat /\ 1 <= c /\ c <= e
      BY <1>1, <2>2
    <3> QED
      BY <2>2, <3>1, GridBefore
  <2> QED
    BY <2>1, <2>2
<1>3. R \in SUBSET (1..e) /\ R # {}
  BY <1>1
<1>4. Requested(e, t) = Max(R)
  BY DEF Requested, firstCheckpointTime
<1> HIDE DEF R
<1>5. Max(R) \in R
  BY <1>1, <1>3, BoundedHasGreatest, MaxIsGreatest
<1> QED
  BY <1>2, <1>4, <1>5

\* The restore of what the protocol chooses, when all objects have what was asked for.
LEMMA ChosenRestoreKeeps ==
  ASSUME NEW m, Newest(m), NEW g \in Grid, g \in Nat,
         \A p \in Object : g <= lastCheckpointTime[p],
         Restore(g), rollbacks < MaxRollbacks, rollbacks' = rollbacks + 1
  PROVE  Newest(m)'
<1>1. PICK c \in MayChoose(g) : restoreCheckpoint(c)
  BY DEF Restore
<1>2. c \in Grid /\ c \in Nat /\ c <= g
  BY Chosen
<1>3. \A p \in Object : lastCheckpointTime[p] \in Nat
  BY Updated
<1>4. \A p \in Object : c <= lastCheckpointTime[p]
  BY <1>2, <1>3
<1> QED
  BY <1>1, <1>2, <1>4, RestoreKeeps

LEMMA RecoverKeeps ==
  ASSUME NEW m, Newest(m), NEW o \in Object, NEW t \in EventTime, Recover(o, t)
  PROVE  Newest(m)'
<1>1. rollbacks < MaxRollbacks /\ rollbacks' = rollbacks + 1
  BY DEF Recover, Straggler
<1>2. \A p \in Object : lastCheckpointTime[p] \in Nat
  BY Updated
<1>3. /\ AllHave \in Grid /\ AllHave \in Nat
      /\ \A p \in Object : AllHave <= lastCheckpointTime[p]
  BY AllHaveLeast
<1>4. /\ Earliest(o, t) \in Grid /\ Earliest(o, t) \in Nat
      /\ \A p \in Object : Earliest(o, t) <= lastCheckpointTime[p]
  BY EarliestLeast
<1>5. CASE Restore(Requested(AllHave, t))
  <2>1. /\ Requested(AllHave, t) \in Grid /\ Requested(AllHave, t) \in Nat
        /\ Requested(AllHave, t) <= AllHave
    BY <1>3, RequestedBefore
  <2>2. \A p \in Object : Requested(AllHave, t) <= lastCheckpointTime[p]
    BY <1>2, <1>3, <2>1
  <2> QED
    BY <1>1, <1>5, <2>1, <2>2, ChosenRestoreKeeps
<1>6. CASE Restore(Min({Requested(AllHave, RestoredTime(o, t)), Earliest(o, t)}))
  <2> DEFINE L == {Requested(AllHave, RestoredTime(o, t)), Earliest(o, t)}
  <2>1. L \in SUBSET Grid /\ L \in SUBSET Nat /\ L # {} /\ Earliest(o, t) \in L
    BY <1>3, <1>4, RequestedBefore
  <2>2. CASE Restore(Min(L))
    <3> HIDE DEF L
    <3>1. Min(L) \in L /\ \A x \in L : Min(L) <= x
      BY <2>1, MinIsLeast
    <3>2. Min(L) \in Grid /\ Min(L) \in Nat /\ Min(L) <= Earliest(o, t)
      BY <2>1, <3>1
    <3>3. \A p \in Object : Min(L) <= lastCheckpointTime[p]
      BY <1>2, <1>4, <3>2
    <3> QED
      BY <1>1, <2>2, <3>2, <3>3, ChosenRestoreKeeps
  <2> QED
    BY <1>6, <2>2
<1>7. CASE Restore(Requested(Earliest(o, t), t))
  <2>1. /\ Requested(Earliest(o, t), t) \in Grid /\ Requested(Earliest(o, t), t) \in Nat
        /\ Requested(Earliest(o, t), t) <= Earliest(o, t)
    BY <1>4, RequestedBefore
  <2>2. \A p \in Object : Requested(Earliest(o, t), t) <= lastCheckpointTime[p]
    BY <1>2, <1>4, <2>1
  <2> QED
    BY <1>1, <1>7, <2>1, <2>2, ChosenRestoreKeeps
<1> QED
  BY <1>5, <1>6, <1>7 DEF Recover

LEMMA RecoverForPeerKeeps ==
  ASSUME NEW m, Newest(m), RecoverForPeer
  PROVE  Newest(m)'
<1>1. /\ AllHave \in Grid /\ AllHave \in Nat
      /\ \A p \in Object : AllHave <= lastCheckpointTime[p]
  BY AllHaveLeast
<1>2. Restore(AllHave) /\ rollbacks < MaxRollbacks /\ rollbacks' = rollbacks + 1
  BY DEF RecoverForPeer
<1> QED
  BY <1>1, <1>2, ChosenRestoreKeeps

-----------------------------------------------------------------------------
(* The theorems *)

LEMMA InvInitial == Init => CheckpointInv
BY InitialCheckpoint DEF CheckpointInv

LEMMA InvPreserved ==
  ASSUME CheckpointInv, [Next]_vars
  PROVE  CheckpointInv'
<1>1. PICK m : Newest(m)
  BY DEF CheckpointInv
<1>2. CASE UNCHANGED vars
  <2>1. Newest(m)'
    BY <1>1, <1>2 DEF vars, Newest, StatesOK, TimesOK, FilesOK, RestOK, Upto, EventsBefore
  <2> QED
    BY <2>1 DEF CheckpointInv
<1>3. ASSUME NEW o \in Object, NEW t \in EventTime, Execute(o, t) PROVE CheckpointInv'
  BY <1>1, <1>3, ExecuteKeeps DEF CheckpointInv
<1>4. ASSUME NEW o \in Object, NEW t \in EventTime, RollBack(o, t) PROVE CheckpointInv'
  BY <1>1, <1>4, RollBackKeeps DEF CheckpointInv
<1>5. ASSUME NEW o \in Object, NEW t \in EventTime, Recover(o, t) PROVE CheckpointInv'
  BY <1>1, <1>5, RecoverKeeps DEF CheckpointInv
<1>6. CASE RecoverForPeer
  BY <1>1, <1>6, RecoverForPeerKeeps DEF CheckpointInv
<1> QED
  BY <1>2, <1>3, <1>4, <1>5, <1>6 DEF Next

LEMMA TypesFollow ==
  ASSUME CheckpointInv
  PROVE  TypeOK
<1>1. PICK m : Newest(m)
  BY DEF CheckpointInv
<1>2. Upto(m) \subseteq CheckpointTimes
  <2>1. ASSUME NEW c \in Upto(m) PROVE c \in CheckpointTimes
    <3>1. c \in Grid /\ c \in Nat /\ 1 <= c /\ c <= m /\ m \in Nat
      BY <1>1, GridNumbers DEF Upto, Newest
    <3>2. m <= Max(EventTime) + Period /\ Max(EventTime) + Period \in Nat
      BY <1>1, <3>1, LastEvent, PeriodPositive DEF Newest
    <3>3. (c - 1) % Period = 0
      BY <3>1, GridFirst, GridAfter
    <3> QED
      BY <3>1, <3>2, <3>3 DEF CheckpointTimes, firstCheckpointTime
  <2> QED
    BY <2>1
<1>3. EventsBefore(m + Period) \subseteq EventTime
  BY DEF EventsBefore
<1>4. /\ state \in [Object -> SUBSET EventTime] /\ DOMAIN checkpointedStates \subseteq CheckpointTimes
      /\ \A c \in DOMAIN checkpointedStates : checkpointedStates[c] \in [Object -> SUBSET EventTime]
  BY <1>1, <1>2, <1>3 DEF Newest, StatesOK
<1>5. /\ lastCheckpointTime \in [Object -> CheckpointTimes]
      /\ \A o \in Object : nextCheckpointTime[o] = lastCheckpointTime[o] + Period
  BY <1>1, <1>2 DEF Newest, TimesOK
<1>6. files \subseteq CheckpointTimes \X Object
  BY <1>1, <1>2 DEF Newest, FilesOK
<1>7. /\ stateQueue \in [Object -> SUBSET (EventTime \cup {0})] /\ lastCollectTimes \in [Object -> Int]
      /\ lastRestoreTime \in {-1} \cup CheckpointTimes /\ rollbacks \in 0..MaxRollbacks
  BY <1>1, <1>2 DEF Newest, RestOK
<1> QED
  BY <1>4, <1>5, <1>6, <1>7 DEF TypeOK

(* The checkpoint times of every object stay one period apart and among those *)
(* of the manager, through checkpoint(), updateCheckpointTime() and            *)
(* restoreCheckpoint(), for any objects, period and sequence of events.        *)
THEOREM CheckpointTypes == Spec => []TypeOK
<1>1. Init => CheckpointInv
  BY InvInitial
<1>2. CheckpointInv /\ [Next]_vars => CheckpointInv'
  BY InvPreserved
<1>3. CheckpointInv => TypeOK
  BY TypesFollow
<1> QED
  BY <1>1, <1>2, <1>3, PTL DEF Spec

LEMMA RestorableFollows ==
  ASSUME CheckpointInv
  PROVE  Restorable
<1>1. PICK m : Newest(m)
  BY DEF CheckpointInv
<1>2. ASSUME NEW c \in MayChoose(AllHave)
      PROVE  c \in DOMAIN checkpointedStates /\ \A o \in Object : <<c, o>> \in files
  <2>1. c \in Grid /\ \A o \in Object : c <= lastCheckpointTime[o]
    <3>1. /\ AllHave \in Grid /\ AllHave \in Nat
          /\ \A o \in Object : AllHave <= lastCheckpointTime[o]
      BY <1>1, AllHaveLeast
    <3>2. c \in Grid /\ c \in Nat /\ c <= AllHave
      BY <1>1, <3>1, Chosen
    <3>3. \A o \in Object : lastCheckpointTime[o] \in Nat
      BY <1>1, Updated
    <3> QED
      BY <3>1, <3>2, <3>3
  <2>2. PICK o \in Object : TRUE
    BY CheckpointAssumption
  <2>3. c \in Upto(m)
    <3>1. lastCheckpointTime[o] \in Nat /\ lastCheckpointTime[o] <= m /\ m \in Nat /\ c \in Nat
      BY <1>1, <2>1, Updated, GridNumbers
    <3> QED
      BY <2>1, <3>1 DEF Upto
  <2>4. \A p \in Object : c \in Upto(lastCheckpointTime[p])
    BY <2>1 DEF Upto
  <2> QED
    BY <1>1, <2>3, <2>4 DEF Newest, StatesOK, FilesOK
<1> QED
  BY <1>2 DEF Restorable

(* Every checkpoint that a recovery may choose has the states and a file of    *)
(* every object, although the objects count their checkpoint times each for    *)
(* itself, a rollback takes them one period back whatever the distance, and    *)
(* restoreCheckpoint() does not look.                                          *)
THEOREM AlwaysRestorable == Spec => []Restorable
<1>1. Init => CheckpointInv
  BY InvInitial
<1>2. CheckpointInv /\ [Next]_vars => CheckpointInv'
  BY InvPreserved
<1>3. CheckpointInv => Restorable
  BY RestorableFollows
<1> QED
  BY <1>1, <1>2, <1>3, PTL DEF Spec

Cut ==
    \A c \in DOMAIN checkpointedStates' \ DOMAIN checkpointedStates :
        \A o \in Object : checkpointedStates'[c][o] = {x \in state[o] : x < c}

LEMMA CutStep ==
  ASSUME CheckpointInv, Next
  PROVE  Cut
<1>1. PICK m : Newest(m)
  BY DEF CheckpointInv
<1>2. ASSUME NEW o \in Object, NEW t \in EventTime, Execute(o, t) PROVE Cut
  <2> SUFFICES ASSUME NEW c \in DOMAIN checkpointedStates' \ DOMAIN checkpointedStates, NEW p \in Object
               PROVE  checkpointedStates'[c][p] = {x \in state[p] : x < c}
    BY DEF Cut
  <2>1. DOMAIN checkpointedStates = Upto(m)
    BY <1>1 DEF Newest, StatesOK
  <2>2. c \in Due(o, t) /\ checkpointedStates'[c] = state
    BY <1>2 DEF Execute, checkpoint, Save
  <2>3. c \in Grid /\ m + Period <= c
    BY <1>1, <2>1, <2>2, DueTimes
  <2>4. c \in Nat /\ m + Period \in Nat
    BY <1>1, <2>3, GridNumbers, PeriodPositive DEF Newest
  <2>5. \A x \in state[p] : x \in EventTime /\ x < m + Period
    BY <1>1 DEF Newest, StatesOK, EventsBefore
  <2>6. \A x \in state[p] : x < c
    BY <2>3, <2>4, <2>5, LastEvent
  <2> QED
    BY <2>2, <2>6
<1>3. CASE UNCHANGED checkpointedStates
  BY <1>3 DEF Cut
<1> QED
  BY <1>2, <1>3 DEF Next, RollBack, Recover, RecoverForPeer, Restore, restoreCheckpoint

(* When checkpoint() saves all objects for the first of them that reaches a    *)
(* checkpoint time, none has executed an event at or after that time, however  *)
(* far apart the objects are and whatever was restored before.                 *)
THEOREM CheckpointsAreCuts == Spec => NewCheckpointIsCut
<1>1. Init => CheckpointInv
  BY InvInitial
<1>2. CheckpointInv /\ [Next]_vars => CheckpointInv'
  BY InvPreserved
<1>3. CheckpointInv /\ [Next]_vars => [Cut]_vars
  BY CutStep
<1>4. Spec => [][Cut]_vars
  BY <1>1, <1>2, <1>3, PTL DEF Spec
<1> QED
  BY <1>4, PTL DEF NewCheckpointIsCut, Cut
=============================================================================
