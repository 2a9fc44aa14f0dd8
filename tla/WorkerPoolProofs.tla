-------------------------- MODULE WorkerPoolProofs --------------------------
(* The busy count and the suspended flags of WorkerPool are right for every    *)
(* number of workers and schedule queues, whatever the threads' interleaving.  *)
EXTENDS WorkerPool, FiniteSetTheorems, TLAPS

\* The workers that globalStillBusyCount counts.
Busy == {w \in Worker : pc[w] \notin {"wait", "waiting", "recount"}}

\* A worker between raising its flag and waiting holds its mutex, which keeps
\* resume() from lowering the flag before the wait has begun.
MutexHeld ==
    \A w \in Worker : pc[w] \in {"uncount", "wait"} => suspendMutex[w] /\ suspended[w]

\* The inductive invariant.
IInv == TypeOK /\ MutexHeld

-----------------------------------------------------------------------------
(* How the set of counted workers changes with one worker's step *)

LEMMA BusyFinite == IsFiniteSet(Busy) /\ Cardinality(Busy) \in Nat
<1>1. IsFiniteSet(Worker)
  BY PoolAssumption
<1>2. Busy \subseteq Worker
  BY DEF Busy
<1>3. IsFiniteSet(Busy)
  BY <1>1, <1>2, FS_Subset
<1> QED
  BY <1>3, FS_CardinalityType

\* A step within the counted labels, or within the others.
LEMMA BusySame ==
  ASSUME TypeOK, NEW w \in Worker, NEW l \in Labels, Goto(w, l),
         pc[w] \in {"wait", "waiting", "recount"} <=> l \in {"wait", "waiting", "recount"}
  PROVE  Busy' = Busy
BY DEF Busy, TypeOK, Goto

LEMMA BusyLeft ==
  ASSUME TypeOK, NEW w \in Worker, pc[w] = "uncount", Goto(w, "wait")
  PROVE  Cardinality(Busy') = Cardinality(Busy) - 1
<1>1. w \in Busy /\ Busy' = Busy \ {w}
  BY DEF Busy, TypeOK, Goto
<1> QED
  BY <1>1, BusyFinite, FS_RemoveElement

LEMMA BusyEntered ==
  ASSUME TypeOK, NEW w \in Worker, pc[w] = "recount", Goto(w, "check")
  PROVE  Cardinality(Busy') = Cardinality(Busy) + 1
<1>1. w \notin Busy /\ Busy' = Busy \cup {w}
  BY DEF Busy, TypeOK, Goto
<1> QED
  BY <1>1, BusyFinite, FS_AddElement

LEMMA CountIsBusy == TypeOK => globalStillBusyCount = Cardinality(Busy)
BY DEF TypeOK, Busy

-----------------------------------------------------------------------------
(* Init *)

LEMMA InitIInv == Init => IInv
<1> SUFFICES ASSUME Init PROVE IInv
  OBVIOUS
<1>1. Busy = Worker
  BY DEF Busy, Init
<1>2. globalStillBusyCount = Cardinality(Busy)
  BY <1>1 DEF Init, NumberOfWorkers
<1>3. /\ pc \in [Worker -> Labels]
      /\ idleCount \in [Worker -> 0..MaxIdle]
      /\ inserts \in 0..MaxInserts /\ spurious \in 0..MaxSpurious
  BY PoolAssumption DEF Init, Labels
<1>4. /\ suspended \in [Worker -> BOOLEAN]
      /\ suspendMutex \in [Worker -> BOOLEAN]
      /\ signalled \in [Worker -> BOOLEAN]
      /\ scheduled \in [Queue -> Nat]
      /\ complete \in BOOLEAN
      /\ \A w \in Worker : pc[w] = "waiting" /\ ~signalled[w] => suspended[w]
  BY PoolAssumption DEF Init
<1>5. TypeOK
  BY <1>2, <1>3, <1>4 DEF TypeOK, Busy
<1>6. MutexHeld
  BY DEF Init, MutexHeld
<1> QED
  BY <1>5, <1>6 DEF IInv

-----------------------------------------------------------------------------
(* The worker's steps *)

LEMMA StepIsWorkRemaining ==
  ASSUME IInv, NEW w \in Worker, IsWorkRemaining(w) PROVE IInv'
<1> USE DEF IInv, IsWorkRemaining, workVars, managerVars
<1>1. Busy' = Busy
  BY BusySame DEF Labels
<1>2. TypeOK'
  BY <1>1, CountIsBusy DEF TypeOK, Busy, Labels, Goto
<1>3. MutexHeld'
  BY DEF TypeOK, MutexHeld, Goto
<1> QED
  BY <1>2, <1>3

LEMMA StepPeekNextEvent ==
  ASSUME IInv, NEW w \in Worker, PeekNextEvent(w) PROVE IInv'
<1> USE DEF IInv, PeekNextEvent, managerVars
<1>1. Busy' = Busy
  BY BusySame DEF Labels
<1>2. scheduled' \in [Queue -> Nat]
  BY DEF TypeOK
<1>3. TypeOK'
  BY <1>1, <1>2, CountIsBusy DEF TypeOK, Busy, Labels, Goto
<1>4. MutexHeld'
  BY DEF TypeOK, MutexHeld, Goto
<1> QED
  BY <1>3, <1>4

LEMMA StepInsert ==
  ASSUME IInv, NEW w \in Worker, NEW q \in Queue, Insert(w, q) PROVE IInv'
<1> USE DEF IInv, Insert, workerVars, managerVars
<1>1. scheduled' \in [Queue -> Nat]
  BY DEF TypeOK
<1>2. inserts' \in 0..MaxInserts
  BY PoolAssumption DEF TypeOK
<1>3. TypeOK'
  BY <1>1, <1>2 DEF TypeOK
<1>4. MutexHeld'
  BY DEF MutexHeld
<1> QED
  BY <1>3, <1>4

LEMMA StepReturn ==
  ASSUME IInv, NEW w \in Worker, NEW hasMore \in BOOLEAN, Return(w, hasMore) PROVE IInv'
<1> USE DEF IInv, Return, managerVars
<1>1. Busy' = Busy
  BY BusySame DEF Labels
<1>2. scheduled' \in [Queue -> Nat]
  BY DEF TypeOK
<1>3. inserts' \in 0..MaxInserts
  BY PoolAssumption DEF TypeOK
<1>4. idleCount' \in [Worker -> 0..MaxIdle]
  BY PoolAssumption DEF TypeOK
<1>5. TypeOK'
  BY <1>1, <1>2, <1>3, <1>4, CountIsBusy DEF TypeOK, Busy, Labels, Goto
<1>6. MutexHeld'
  BY DEF TypeOK, MutexHeld, Goto
<1> QED
  BY <1>5, <1>6

LEMMA StepIncrementIdleCount ==
  ASSUME IInv, NEW w \in Worker, IncrementIdleCount(w) PROVE IInv'
<1> USE DEF IInv, IncrementIdleCount, workVars, managerVars
<1>1. Busy' = Busy
  BY BusySame DEF Labels
<1>2. idleCount' \in [Worker -> 0..MaxIdle]
  BY PoolAssumption DEF TypeOK
<1>3. TypeOK'
  BY <1>1, <1>2, CountIsBusy DEF TypeOK, Busy, Labels, Goto
<1>4. MutexHeld'
  BY DEF TypeOK, MutexHeld, Goto
<1> QED
  BY <1>3, <1>4

LEMMA StepSuspend ==
  ASSUME IInv, NEW w \in Worker, Suspend(w) PROVE IInv'
<1> USE DEF IInv, Suspend, workVars, managerVars
<1>1. Busy' = Busy
  BY BusySame DEF Labels
<1>2. TypeOK'
  BY <1>1, CountIsBusy DEF TypeOK, Busy, Labels, Goto
<1>3. MutexHeld'
  BY DEF TypeOK, MutexHeld, Goto
<1> QED
  BY <1>2, <1>3

LEMMA StepUncount ==
  ASSUME IInv, NEW w \in Worker, Uncount(w) PROVE IInv'
<1> USE DEF IInv, Uncount, workVars, managerVars
<1>1. globalStillBusyCount' = Cardinality(Busy')
  BY BusyLeft, CountIsBusy
<1>2. TypeOK'
  BY <1>1 DEF TypeOK, Busy, Labels, Goto
<1>3. MutexHeld'
  BY DEF TypeOK, MutexHeld, Goto
<1> QED
  BY <1>2, <1>3

LEMMA StepCondWait ==
  ASSUME IInv, NEW w \in Worker, CondWait(w) PROVE IInv'
<1> USE DEF IInv, CondWait, workVars, managerVars
<1>1. Busy' = Busy
  BY BusySame DEF Labels
<1>2. TypeOK'
  BY <1>1, CountIsBusy DEF TypeOK, Busy, Labels, Goto, MutexHeld
<1>3. MutexHeld'
  BY DEF TypeOK, MutexHeld, Goto
<1> QED
  BY <1>2, <1>3

LEMMA StepWake ==
  ASSUME IInv, NEW w \in Worker, Wake(w) PROVE IInv'
<1> USE DEF IInv, Wake, workVars, managerVars
<1>1. Busy' = Busy
  BY BusySame DEF Labels
<1>2. TypeOK'
  BY <1>1, CountIsBusy DEF TypeOK, Busy, Labels, Goto
<1>3. MutexHeld'
  BY DEF TypeOK, MutexHeld, Goto
<1> QED
  BY <1>2, <1>3

LEMMA StepWakeSpuriously ==
  ASSUME IInv, NEW w \in Worker, WakeSpuriously(w) PROVE IInv'
<1> USE DEF IInv, WakeSpuriously, managerVars
<1>1. Busy' = Busy
  BY BusySame DEF Labels
<1>2. spurious' \in 0..MaxSpurious
  BY PoolAssumption DEF TypeOK
<1>3. TypeOK'
  BY <1>1, <1>2, CountIsBusy DEF TypeOK, Busy, Labels, Goto
<1>4. MutexHeld'
  BY DEF TypeOK, MutexHeld, Goto
<1> QED
  BY <1>3, <1>4

LEMMA StepRecount ==
  ASSUME IInv, NEW w \in Worker, Recount(w) PROVE IInv'
<1> USE DEF IInv, Recount, workVars, managerVars
<1>1. globalStillBusyCount' = Cardinality(Busy')
  BY BusyEntered, CountIsBusy
<1>2. TypeOK'
  BY <1>1 DEF TypeOK, Busy, Labels, Goto
<1>3. MutexHeld'
  BY DEF TypeOK, MutexHeld, Goto
<1> QED
  BY <1>2, <1>3

-----------------------------------------------------------------------------
(* The manager's steps *)

\* resume(): a worker that holds its mutex is not touched, and one that waits is
\* signalled when its flag is lowered.
LEMMA StepResume ==
  ASSUME IInv, NEW n, Resume(n) PROVE IInv'
<1> USE DEF IInv, Resume, workVars
<1>1. suspended' \in [Worker -> BOOLEAN] /\ signalled' \in [Worker -> BOOLEAN]
  BY DEF TypeOK
<1>2. ASSUME NEW w \in Worker, pc[w] = "waiting", ~signalled'[w] PROVE suspended'[w]
  BY <1>2 DEF TypeOK
<1>3. TypeOK'
  BY <1>1, <1>2 DEF TypeOK
<1>4. MutexHeld'
  BY DEF TypeOK, MutexHeld
<1> QED
  BY <1>3, <1>4

\* The other steps of the manager read what the workers write.
LEMMA StepRead ==
  ASSUME IInv, complete' \in BOOLEAN,
         UNCHANGED <<workerVars, workVars, globalStillBusyCount>>
  PROVE  IInv'
BY DEF IInv, TypeOK, MutexHeld, workerVars, workVars

LEMMA StepManager ==
  ASSUME IInv, ManagerStep PROVE IInv'
<1>0. complete \in BOOLEAN
  BY DEF IInv, TypeOK
<1>1. CASE SimulateLoop
  BY <1>0, <1>1, StepRead DEF SimulateLoop
<1>2. CASE LookForSleepers
  BY <1>0, <1>2, StepRead DEF LookForSleepers
<1>3. CASE LookAtQueue
  BY <1>0, <1>3, StepRead DEF LookAtQueue
<1>4. CASE ResumeNext
  BY <1>0, <1>4, StepRead DEF ResumeNext
<1>5. CASE SignalNext
  BY <1>5, StepResume DEF SignalNext
<1>6. CASE SetStatus
  BY <1>0, <1>6, StepRead DEF SetStatus
<1>7. CASE CheckTermination
  BY <1>0, <1>7, StepRead DEF CheckTermination
<1>8. CASE KillWorkerThreads
  BY <1>0, <1>8, StepRead DEF KillWorkerThreads
<1>9. CASE ResumeToExit
  BY <1>0, <1>9, StepRead DEF ResumeToExit
<1>10. CASE SignalToExit
  BY <1>10, StepResume DEF SignalToExit
<1>11. CASE Join
  BY <1>0, <1>11, StepRead DEF Join
<1> QED
  BY <1>1, <1>2, <1>3, <1>4, <1>5, <1>6, <1>7, <1>8, <1>9, <1>10, <1>11 DEF ManagerStep

-----------------------------------------------------------------------------
(* The invariant *)

LEMMA NextIInv == IInv /\ [Next]_vars => IInv'
<1> SUFFICES ASSUME IInv, [Next]_vars PROVE IInv'
  OBVIOUS
<1>1. CASE UNCHANGED vars
  BY <1>1 DEF IInv, TypeOK, MutexHeld, vars, workerVars, workVars, managerVars
<1>2. CASE ManagerStep
  BY <1>2, StepManager
<1>3. ASSUME NEW w \in Worker, WorkerStep(w) PROVE IInv'
  BY <1>3, StepIsWorkRemaining, StepPeekNextEvent, StepInsert, StepReturn,
     StepIncrementIdleCount, StepSuspend, StepUncount, StepCondWait, StepWake,
     StepRecount DEF WorkerStep
<1>4. ASSUME NEW w \in Worker, WakeSpuriously(w) PROVE IInv'
  BY <1>4, StepWakeSpuriously
<1> QED
  BY <1>1, <1>2, <1>3, <1>4 DEF Next

\* incrementIdleCount() and resume(): for any number of workers and queues the
\* busy count is the number of workers outside the two updates around the wait, and
\* a worker that waits unsignalled has its flag raised, so that the next resume()
\* reaches it.
THEOREM PoolTypeOK == Spec => []TypeOK
<1>1. Init => IInv
  BY InitIInv
<1>2. IInv /\ [Next]_vars => IInv'
  BY NextIInv
<1>3. IInv => TypeOK
  BY DEF IInv
<1> QED
  BY <1>1, <1>2, <1>3, PTL DEF Spec
=============================================================================
