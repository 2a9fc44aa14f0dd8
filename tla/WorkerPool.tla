----------------------------- MODULE WorkerPool -----------------------------
(* How the manager thread of one ThreadedTimeWarpSimulationManager puts its    *)
(* workers to sleep, wakes them, decides that the simulation is over and shuts *)
(* the workers down: WorkerInformation, workerThread(), the part of simulate() *)
(* that resumes workers, SingleTerminationManager and the joining of workers.  *)
(*                                                                             *)
(* What the workers execute is ThreadedTimeWarp's matter.  Here a schedule     *)
(* queue is the number of objects that wait in it; an execution may put any    *)
(* objects back, within a bound.  There is one simulation manager, so that no  *)
(* message arrives, and GVT does not reach the end of the simulation before    *)
(* the work runs out.                                                          *)
EXTENDS Integers, FiniteSets

CONSTANTS
    Worker,      \* worker threads, numbered from 1
    QueueCount,  \* scheduleQCount
    MaxIdle,     \* MAX_NUMBER_IDLE_LOOPS
    Waiting,     \* Waiting[q]: objects in schedule queue q at the start
    MaxInserts,  \* objects that executions put back or schedule (bound)
    MaxSpurious  \* waits that end without a signal (bound)

Queue == 0 .. QueueCount - 1
NumberOfWorkers == Cardinality(Worker)      \* numberOfWorkerThreads - 1

ASSUME PoolAssumption ==
    /\ QueueCount \in Nat \ {0}
    /\ IsFiniteSet(Worker)
    /\ Worker = 1 .. NumberOfWorkers
    /\ MaxIdle \in Nat
    /\ Waiting \in [Queue -> Nat]
    /\ MaxInserts \in Nat
    /\ MaxSpurious \in Nat

VARIABLES
    pc,                     \* where each worker is
    idleCount,              \* [w]
    suspended,              \* [w]
    suspendMutex,           \* [w]: its worker holds it
    signalled,              \* [w]: suspendCondition was signalled while w waited
    globalStillBusyCount,
    workRemaining,
    scheduled,              \* [q]: objects in the schedule queue
    inserts,                \* how many objects executions have put back
    spurious,               \* how many waits ended without a signal
    at,                     \* where the manager is
    next,                   \* the queue or the worker it looks at next
    complete                \* simulationCompleteFlag of the termination manager

workerVars == <<pc, idleCount, suspended, suspendMutex, signalled>>
workVars == <<scheduled, inserts, spurious>>
managerVars == <<at, next, complete>>
vars == <<workerVars, workVars, managerVars, globalStillBusyCount, workRemaining>>

\* LTSF of a worker: threadIndex % scheduleQCount, threads counted from 0.
QueueOf(w) == (w - 1) % QueueCount

Init ==
    /\ pc = [w \in Worker |-> "check"]
    /\ idleCount = [w \in Worker |-> 0]
    /\ suspended = [w \in Worker |-> FALSE]
    /\ suspendMutex = [w \in Worker |-> FALSE]
    /\ signalled = [w \in Worker |-> FALSE]
    /\ globalStillBusyCount = NumberOfWorkers
    /\ workRemaining = TRUE
    /\ scheduled = Waiting
    /\ inserts = 0
    /\ spurious = 0
    /\ at = "loop"
    /\ next = 0
    /\ complete = FALSE

Goto(w, l) == pc' = [pc EXCEPT ![w] = l]

-----------------------------------------------------------------------------
(* A worker *)

\* The head of the loop of workerThread().
IsWorkRemaining(w) ==
    /\ pc[w] = "check"
    /\ Goto(w, IF workRemaining THEN "peek" ELSE "exited")
    /\ UNCHANGED <<idleCount, suspended, suspendMutex, signalled, workVars, managerVars,
                   globalStillBusyCount, workRemaining>>

\* peekNextEvent() takes an object out of the worker's schedule queue, if any.
PeekNextEvent(w) ==
    /\ pc[w] = "peek"
    /\ IF scheduled[QueueOf(w)] > 0
         THEN /\ scheduled' = [scheduled EXCEPT ![QueueOf(w)] = @ - 1]
              /\ Goto(w, "execute")
         ELSE UNCHANGED scheduled /\ Goto(w, "idle")
    /\ UNCHANGED <<idleCount, suspended, suspendMutex, signalled, inserts, spurious,
                   managerVars, globalStillBusyCount, workRemaining>>

\* The object sends an event: its receiver comes into a schedule queue.
Insert(w, q) ==
    /\ pc[w] = "execute"
    /\ inserts < MaxInserts
    /\ scheduled' = [scheduled EXCEPT ![q] = @ + 1]
    /\ inserts' = inserts + 1
    /\ UNCHANGED <<spurious, workerVars, managerVars, globalStillBusyCount, workRemaining>>

\* updateScheduleQueueAfterExecute(): an object with more events returns to the
\* queue.  executeObjects() did work, the worker is not idle.
Return(w, hasMore) ==
    /\ pc[w] = "execute"
    /\ IF hasMore
         THEN /\ inserts < MaxInserts
              /\ scheduled' = [scheduled EXCEPT ![QueueOf(w)] = @ + 1]
              /\ inserts' = inserts + 1
         ELSE UNCHANGED <<scheduled, inserts>>
    /\ idleCount' = [idleCount EXCEPT ![w] = 0]
    /\ Goto(w, "check")
    /\ UNCHANGED <<suspended, suspendMutex, signalled, spurious, managerVars,
                   globalStillBusyCount, workRemaining>>

\* incrementIdleCount(), its head.
IncrementIdleCount(w) ==
    /\ pc[w] = "idle"
    /\ IF idleCount[w] + 1 > MaxIdle
         THEN idleCount' = [idleCount EXCEPT ![w] = 0] /\ Goto(w, "suspend")
         ELSE idleCount' = [idleCount EXCEPT ![w] = @ + 1] /\ Goto(w, "check")
    /\ UNCHANGED <<suspended, suspendMutex, signalled, workVars, managerVars,
                   globalStillBusyCount, workRemaining>>

\* incrementIdleCount(): the worker takes its mutex and raises the flag.
Suspend(w) ==
    /\ pc[w] = "suspend"
    /\ ~suspendMutex[w]
    /\ suspendMutex' = [suspendMutex EXCEPT ![w] = TRUE]
    /\ suspended' = [suspended EXCEPT ![w] = TRUE]
    /\ Goto(w, "uncount")
    /\ UNCHANGED <<idleCount, signalled, workVars, managerVars, globalStillBusyCount,
                   workRemaining>>

Uncount(w) ==
    /\ pc[w] = "uncount"
    /\ globalStillBusyCount' = globalStillBusyCount - 1
    /\ Goto(w, "wait")
    /\ UNCHANGED <<idleCount, suspended, suspendMutex, signalled, workVars, managerVars,
                   workRemaining>>

\* pthread_cond_wait() releases the mutex and waits.
CondWait(w) ==
    /\ pc[w] = "wait"
    /\ suspendMutex' = [suspendMutex EXCEPT ![w] = FALSE]
    /\ signalled' = [signalled EXCEPT ![w] = FALSE]
    /\ Goto(w, "waiting")
    /\ UNCHANGED <<idleCount, suspended, workVars, managerVars, globalStillBusyCount,
                   workRemaining>>

\* pthread_cond_wait() returns, and the mutex it took again is released.
Wake(w) ==
    /\ pc[w] = "waiting"
    /\ signalled[w]
    /\ Goto(w, "recount")
    /\ UNCHANGED <<idleCount, suspended, suspendMutex, signalled, workVars, managerVars,
                   globalStillBusyCount, workRemaining>>

\* It may return without a signal; nothing here looks at the flag again.
WakeSpuriously(w) ==
    /\ pc[w] = "waiting"
    /\ ~signalled[w]
    /\ spurious < MaxSpurious
    /\ spurious' = spurious + 1
    /\ Goto(w, "recount")
    /\ UNCHANGED <<idleCount, suspended, suspendMutex, signalled, scheduled, inserts,
                   managerVars, globalStillBusyCount, workRemaining>>

\* The worker wakes up and is not counted again.
RecountNot(w) ==
    /\ pc[w] = "recount"
    /\ Goto(w, "check")
    /\ UNCHANGED <<idleCount, suspended, suspendMutex, signalled, workVars, managerVars,
                   globalStillBusyCount, workRemaining>>

Recount(w) ==
    /\ pc[w] = "recount"
    /\ globalStillBusyCount' = globalStillBusyCount + 1
    /\ Goto(w, "check")
    /\ UNCHANGED <<idleCount, suspended, suspendMutex, signalled, workVars, managerVars,
                   workRemaining>>

WorkerStep(w) ==
    \/ IsWorkRemaining(w)
    \/ PeekNextEvent(w)
    \/ \E q \in Queue : Insert(w, q)
    \/ \E hasMore \in BOOLEAN : Return(w, hasMore)
    \/ IncrementIdleCount(w)
    \/ Suspend(w)
    \/ Uncount(w)
    \/ CondWait(w)
    \/ Wake(w)
    \/ Recount(w)

-----------------------------------------------------------------------------
(* The manager *)

Manager(l, n) == at' = l /\ next' = n

\* resume() of a worker that was found suspended, with its mutex: the signal finds
\* it only when it waits.
Resume(w) ==
    /\ ~suspendMutex[w]
    /\ signalled' = [signalled EXCEPT ![w] = @ \/ pc[w] = "waiting"]
    /\ suspended' = [suspended EXCEPT ![w] = FALSE]
    /\ UNCHANGED <<pc, idleCount, suspendMutex, workVars, complete, globalStillBusyCount,
                   workRemaining>>

\* The head of the loop of simulate(), and the first look at the busy count.
SimulateLoop ==
    /\ at = "loop"
    /\ IF complete THEN Manager("kill", 0) ELSE Manager("busy", 0)
    /\ UNCHANGED <<workerVars, workVars, complete, globalStillBusyCount, workRemaining>>

LookForSleepers ==
    /\ at = "busy"
    /\ IF globalStillBusyCount < NumberOfWorkers
         THEN Manager("queues", 0)
         ELSE Manager("status", 0)
    /\ UNCHANGED <<workerVars, workVars, complete, globalStillBusyCount, workRemaining>>

\* The last schedule queue is left out.
LookAtQueueButLast ==
    /\ at = "queues"
    /\ IF next >= QueueCount - 1 THEN Manager("status", 0)
       ELSE IF scheduled[next] = 0 THEN Manager("queues", next + 1)
       ELSE Manager("resume", next + 1)
    /\ UNCHANGED <<workerVars, workVars, complete, globalStillBusyCount, workRemaining>>

\* One schedule queue: its workers are resumed when it is not empty.
LookAtQueue ==
    /\ at = "queues"
    /\ IF next = QueueCount THEN Manager("status", 0)
       ELSE IF scheduled[next] = 0 THEN Manager("queues", next + 1)
       ELSE Manager("resume", next + 1)
    /\ UNCHANGED <<workerVars, workVars, complete, globalStillBusyCount, workRemaining>>

\* The workers of a queue follow each other at a distance of scheduleQCount.
NextWorker ==
    IF next + QueueCount <= NumberOfWorkers
      THEN Manager("resume", next + QueueCount)
      ELSE Manager("queues", QueueOf(next) + 1)

\* resume() of one of them reads its flag, without a lock.
ResumeNext ==
    /\ at = "resume"
    /\ IF suspended[next] THEN Manager("signal", next) ELSE NextWorker
    /\ UNCHANGED <<workerVars, workVars, complete, globalStillBusyCount, workRemaining>>

SignalNext == at = "signal" /\ Resume(next) /\ NextWorker

\* The second look at the busy count.
SetStatus ==
    /\ at = "status"
    /\ IF globalStillBusyCount > 0
         THEN complete' = FALSE /\ Manager("loop", 0)
         ELSE UNCHANGED complete /\ Manager("terminate", 0)
    /\ UNCHANGED <<workerVars, workVars, globalStillBusyCount, workRemaining>>

\* checkTermination(), one schedule queue at a time.
CheckTermination ==
    /\ at = "terminate"
    /\ IF next = QueueCount THEN complete' = TRUE /\ Manager("loop", 0)
       ELSE IF scheduled[next] > 0 THEN UNCHANGED complete /\ Manager("loop", 0)
       ELSE UNCHANGED complete /\ Manager("terminate", next + 1)
    /\ UNCHANGED <<workerVars, workVars, globalStillBusyCount, workRemaining>>

\* The workers are told to work on.
KillTooLate ==
    /\ at = "kill"
    /\ Manager("join", 1)
    /\ UNCHANGED <<workerVars, workVars, complete, globalStillBusyCount, workRemaining>>

KillWorkerThreads ==
    /\ at = "kill"
    /\ workRemaining' = FALSE
    /\ Manager("join", 1)
    /\ UNCHANGED <<workerVars, workVars, complete, globalStillBusyCount>>

\* Each worker is resumed and then joined.
ResumeToExit ==
    /\ at = "join"
    /\ Manager(IF suspended[next] THEN "signalToExit" ELSE "joining", next)
    /\ UNCHANGED <<workerVars, workVars, complete, globalStillBusyCount, workRemaining>>

SignalToExit == at = "signalToExit" /\ Resume(next) /\ Manager("joining", next)

Join ==
    /\ at = "joining"
    /\ pc[next] = "exited"
    /\ IF next = NumberOfWorkers THEN Manager("done", 0) ELSE Manager("join", next + 1)
    /\ UNCHANGED <<workerVars, workVars, complete, globalStillBusyCount, workRemaining>>

ManagerStep ==
    SimulateLoop \/ LookForSleepers \/ LookAtQueue \/ ResumeNext \/ SignalNext
      \/ SetStatus \/ CheckTermination \/ KillWorkerThreads \/ ResumeToExit
      \/ SignalToExit \/ Join

Next == ManagerStep \/ \E w \in Worker : WorkerStep(w) \/ WakeSpuriously(w)

Spec == Init /\ [][Next]_vars

\* The operating system runs every thread; nothing makes a wait end by itself.
FairSpec == Spec /\ WF_vars(ManagerStep) /\ \A w \in Worker : WF_vars(WorkerStep(w))

-----------------------------------------------------------------------------
(* Properties *)

Labels == {"check", "peek", "execute", "idle", "suspend", "uncount", "wait", "waiting",
           "recount", "exited"}

\* Types; the busy count is exactly the number of workers that are not between
\* the two updates of it, whatever suspensions, wake-ups and exits interleave;
\* and a worker that waits and has not been signalled has its flag raised:
\* resume() does nothing without it.
TypeOK ==
    /\ pc \in [Worker -> Labels]
    /\ idleCount \in [Worker -> 0..MaxIdle]
    /\ suspended \in [Worker -> BOOLEAN]
    /\ suspendMutex \in [Worker -> BOOLEAN]
    /\ signalled \in [Worker -> BOOLEAN]
    /\ globalStillBusyCount =
         Cardinality({w \in Worker : pc[w] \notin {"wait", "waiting", "recount"}})
    /\ \A w \in Worker : pc[w] = "waiting" /\ ~signalled[w] => suspended[w]
    /\ scheduled \in [Queue -> Nat]
    /\ inserts \in 0..MaxInserts /\ spurious \in 0..MaxSpurious
    /\ complete \in BOOLEAN

\* An object in a schedule queue is taken out of it, or simulate() has left its
\* loop: workers are never all asleep over work for good.
WorkIsTaken ==
    \A q \in Queue : scheduled[q] > 0 ~> scheduled[q] = 0 \/ complete

\* When all workers sleep at the moment they have been told to end, all are
\* joined: whoever wakes, with or without the resume() of its turn, exits.
AllAsleep == \A w \in Worker : pc[w] = "waiting" /\ suspended[w]
ShutdownEnds == (at = "join" /\ next = 1 /\ AllAsleep) ~> at = "done"

\* simulationComplete() is called when nothing is left: no object waits and no
\* worker is executing one.
NoPrematureCompletion ==
    complete => /\ \A q \in Queue : scheduled[q] = 0
                /\ \A w \in Worker : pc[w] # "execute"

\* Once the manager has left the loop, every worker ends and is joined.
Shutdown == at = "kill" ~> at = "done"
=============================================================================
