# A TLA+ verification of WARPED

WARPED is a parallel discrete event simulator in C++. A simulation is a set of
*simulation objects* that schedule timestamped events for each other. They are spread over
*simulation managers*, one per process. A manager runs its objects optimistically (Time
Warp): it executes whatever is lowest locally, and when an event arrives in the past of an
object it rolls the object back, cancels what the object has sent since, and goes on. A
distributed estimate of the global virtual time (GVT) says how far back a rollback can
still go, so that older states and events can be reclaimed. When nobody has anything left
to do, a token protocol ends the run.

This directory models that kernel, checks it with TLC on small instances and proves what
it can for every instance with TLAPS. All source paths are below `src/src/`.

## 1. Inventory

### Parts that carry the kernel's own logic

| part | state | operations | talks to |
|---|---|---|---|
| Time Warp kernel (`TimeWarpSimulationManager`) | objects, each with its local time; coast-forward times | `simulate`, `executeObjects`, `handleEvent`, `receiveKernelMessage`, `rollback`, `coastForward`, `cancelEvents`, `fossilCollect` | all the parts below, by direct calls |
| event set (`TimeWarpMultiSet`, its scheduler) | per object an ordered set of unprocessed events, a vector of processed ones, cancelled ones; an index of lowest events; iterators | `insert`, `getEvent`, `peekEvent`, `handleAntiMessage`, `rollback`, `fossilCollect`, `ofcPurge` | called by the kernel, read by GVT |
| state manager (`PeriodicStateManager`) | per object a queue of saved states and a period counter | `saveState`, `restoreState`, `fossilCollect` | called by the kernel |
| output manager (`AggressiveOutputManager`, `OutputEvents`) | per object the events it sent | `insert`, `rollback`, `fossilCollect` | calls `cancelEvents` of the kernel, which may roll other objects back |
| GVT (`MatternGVTManager`) | colour, white count, minimum of red timestamps, token round; GVT value | `checkGVTPeriod`, `calculateGVT`, `getGVTInfo`, `updateEventRecord`, token and update messages | a ring of managers; every event message |
| termination (`TokenPassingTerminationManager`) | terminator status, idle flags, completion flag | `terminateSimulation`, `handleTerminateToken`, `setStatusActive`/`Passive` | a ring of managers; the main loop |
| communication (`CommunicationManagerImplementationBase`) | receivers by message type; incarnation | `sendMessage`, `checkPhysicalLayerForMessages`, `routeMessage`, `waitForInitialization`, `waitForStart` | physical layer (MPI, TCP, UDP) |
| reliable UDP (`eclmpl/`) | per peer sequence numbers, unacknowledged and out-of-order messages; messages in order | `physicalSend`, `physicalProbeRecv`, `probeNetwork`, `processNwMsgInfo`, `checkRetransmissionTimeout` | sockets; called by the communication manager |
| threaded kernel (`ThreadedTimeWarp*`, `ThreadedMattern*`, `LockState`, `LockedQueue`, `WorkerInformation`) | the same state shared by worker threads under spin locks; a queue of incoming and outgoing messages; suspended workers and a busy count | the operations above from several threads; `incrementIdleCount`, `resume`, `killWorkerThreads` | shared memory |
| lazy, adaptive output managers; adaptive state manager | queues of events that may be regenerated; measured costs | `lazyCancel`, `emptyLazyQueues`, ... | kernel |
| optimistic fossil collection (`OptFossilCollManager`) | per object the times of the last and next checkpoint and of the last collection; states and files of checkpoints; whether a recovery is on | `checkpoint`, `updateCheckpointTime`, `fossilCollect`, `checkFault`, `startRecovery`, `restoreCheckpoint`, restore messages | called by `executeObjects` and `rollback`; a ring of managers |
| message aggregation (`MessageManager`) | send and receive buffers and their age | `sendMessage`, `retrieveMessage` | physical layer |
| pending event structures (`LadderQ*`, `SplayTree`) | buckets, rungs, tree | insert, erase, pop | threaded event set |
| sequential kernel, DVFS, partitioners, file queues, serialization, configuration | | | |

`PROJECT.json` lists all of them with what is modelled and why the rest is not.

### What is hard here

* *Order between channels.* Each pair of managers has a FIFO channel, but nothing orders
  two channels. The GVT token, the termination token and the events overtake each other.
* *Cascades.* A rollback cancels events, which rolls back other objects inside the same
  call, and sends anti-messages that roll back objects elsewhere, and so on.
* *Derived state.* The event set keeps iterators into its own containers, the state queue
  must forget states of an abandoned path, the output queues decide what is cancelled:
  all of it must stay right after any sequence of rollbacks.
* *Reclaiming.* One state older than GVT is needed to go back to GVT; one comparison the
  other way and a rollback finds nothing to restore.
* *Ending.* Both token protocols must finish, and not too early; worker threads that sleep
  must be woken when there is work and when there will be no more.
* *Unreliable datagrams.* The UDP layer promises FIFO channels over a network that loses,
  duplicates and reorders, and everything above relies on it.
* *Recovery.* Optimistic fossil collection throws states away without knowing GVT; when one
  is needed after all, every manager must stop, agree on a checkpoint all of them have, and
  lose exactly the messages of the past.

### What makes each part correct

* kernel: below GVT the parallel run *is* the sequential one: each object executed exactly
  the events the application sends in a sequential run, and its state is made of them.
* event set: the scheduler sees the lowest event; iterators can be dereferenced; no event
  is skipped, duplicated or reclaimed twice.
* states and outputs: every saved state is a true past state; one remains to go back to;
  every event that lost its cause is cancelled.
* GVT: the estimate only rises and never passes an unprocessed or travelling event.
* termination: completion is declared only when nothing is left, and then always.
* worker pool: the busy count is exact, work is not left to sleepers, all workers end.
* transport: what is sent arrives once and in order, always.
* checkpoints: each one a recovery may choose exists and is a consistent cut; recovery ends
  with all managers at the same one and without a message from before.

## 2. Modules

```
GlobalVirtualTime            what a GVT value promises (abstract)
   ^ implemented by            ^ respected by
MatternGVT                   TimeWarp ---- states, outputs, rollback, messages
MCMatternGVT                 MCTimeWarp, TimeWarpProofs
                             TimeWarpMultiSet ---- the event set of one manager
TokenTermination             MCTimeWarpMultiSet, TimeWarpMultiSetProofs
MCTokenTermination           ThreadedTimeWarp ---- the worker threads of one manager
TokenTerminationProofs       MCThreadedTimeWarp, ThreadedTimeWarpProofs
                             WorkerPool ---- how those threads sleep, wake and end
FifoChannels                 MCWorkerPool, WorkerPoolProofs
   ^ implemented by          Checkpoints ---- the checkpoints of one manager
ReliableTransport            MCCheckpoints, CheckpointsProofs
MCReliableTransport          CheckpointRecovery ---- agreeing on one, between managers
ReliableTransportProofs      MCCheckpointRecovery, CheckpointRecoveryProofs
```

`GlobalVirtualTime` is the contract between the GVT manager and the rest of the kernel.
Its `floor` is the exact global virtual time: the lowest receive time of an unprocessed or
travelling event. Only two things happen: the floor rises (`Progress`), or a manager
learns a value between its present one and the floor (`Announce`). `MatternGVT` is shown
to implement it. `TimeWarp` takes its GVT values from it (any value up to the floor may be
announced) and is shown to keep the other half: nothing the kernel does lowers the floor.

`FifoChannels` is the contract of a physical communication layer: messages between two
communicators arrive once each and in order. All modules with channels between managers
assume it, `ReliableTransport` is shown to implement it.

### TimeWarp

`obj[o]` holds what the manager of object `o` keeps for it: unprocessed and processed
events, output events, saved states, the period counter, the state, and the local virtual
time. `chan[<<m, n>>]` is the FIFO channel between two managers. `committed[o]` is a history
variable: what fossil collection gave back.

| action | code |
|---|---|
| `Execute(m)` | one round of `executeObjects()`: save the state, execute the lowest object, deliver what it schedules |
| `ReceiveEvent`, `ReceiveNegative` | the two branches of `receiveKernelMessage()` with everything they call: `handleLocalEvent`, `cancelLocalEvents`, `rollback`, `coastForward`, `cancelEvents`, `cancelRemoteEvents` |
| `FossilCollect(m, g)` | `setGVT` with a larger value and `fossilCollect()` |

`Deliver` is the common end of the first three. A rollback of one object may cancel events
of another object of the same manager, which rolls that one back in turn, recursively and
within the same call. `IsCascade` gives the outcome of the recursion: the function `R`
from local objects to rollback times such that each object goes back to the lowest of what
was asked of it and what the others' cancellations ask of it. Events are sent into the
future, so `R` is determined step by step from the lowest time up, and there is one.

The application is the parameter `App(o, t, S)`: what object `o` schedules at time `t`
when `S` is the set of events in its state. Three assumptions about applications: they
consume all their events of the current time (`doc/applicationInterface.tex` asks for it),
do not depend on the order of those, and schedule with a positive delay.

Abstractions: an object's state is the set of events executed into it; `getNextEventId()`
gives an id that no live event has; more than ten negative events for one receiver are not
split into several messages, and those of one handler for one receiver travel together;
the messages of one handler leave in any order. `simulateUntil`, file queues, one-anti-
message mode and optimistic fossil collection are left out.

### TimeWarpMultiSet

The containers of the class with an iterator modelled as the event it points at or `End`.
One action per operation. The guards hold the callers' side of the contract: an event is
inserted or cancelled only when the object's processed events are all before it
(`handleLocalEvent` and `cancelLocalEvents` roll back first), and nothing below the last
fossil collection time is asked for. `getEvent` on an empty set changes nothing and is a
stuttering step. `fossilCollect(const Event*)` has no caller.

### MatternGVT

Each manager has a `record` (colour, `tMin`, white count, round of the token), its GVT and
one object. Executing, receiving and rolling back are there because they feed the
estimator: `getGVTInfo()` on every send and `updateEventRecord()` on every receive. The
token and update messages travel in the same channels as the events. `tMin` is the
minimum over *send* times, as in the code, which passes `getSendTime()`. `aborted` records
the `abort()` of `rollback()` when it is asked to go below GVT.

### TokenTermination

`pc[i]` is the place of manager `i` in `simulate()`: at the loop condition, polling for
messages, in `executeObjects()`, polling inside it. Events are only counted. Each branch
of `handleTerminateToken()` is an action. `InitialStatus` says which values the
uninitialised `mySimManagerStatus` may start with.

### ThreadedTimeWarp

One `ThreadedTimeWarpSimulationManager`: worker threads that take objects out of shared
schedule queues, and the manager thread (number 0) that inserts what arrives from other
managers. Per object: the unprocessed events as the sequence in which the multiset holds
them, the processed ones, the saved states, the output events, the simulation time and
the state, which is the sequence of events executed into it. Three families of `LockState`
locks are variables: `uLock` (unprocessed queue), `oLock` (`objectStatusLock`) and `sLock`
(schedule queue). `pc[t]` says which acquisition thread `t` comes to next, `todo[t]` what it
has yet to insert. `lowestPos[o]` is the iterator into the schedule queue or `End`.

| action | code |
|---|---|
| `PeekLock`, `Peek` | `LTSF::peek()`: lock the schedule queue, then lock and take out its first object |
| `GetEventIfStraggler` | the first event of the object is removed if it is an anti-message; the queue stays locked for a straggler |
| `Rollback` | `rollback()`: restore a state, give processed events back, take the outputs to cancel |
| `Insert`, `InsertFirst` | `insert()` of an event or of a cancellation, and its second half when the event came first |
| `CoastForward`, `GetEventWhileRollback` | a turn of `coastForward()`: look at the first event, then take and execute it again; at the end, the release of the queue |
| `HandleAntiMessage` | a turn of `handleAntiMessageFromStraggler()`: one event is erased, and the queue let go |
| `ExecuteProcess`, `HaveMoreEvents`, `GetEvent` | save the state, execute the first event, then all others of the same time |
| `UpdateLock`, `UpdateScheduleQueue` | `updateScheduleQueueAfterExecute()`: the object goes back to its schedule queue |
| `ReceiveKernelMessage` | the manager thread; anti-messages from other managers are made into a `StragglerEvent` which nobody inserts |

A step runs from an acquisition that another thread can delay to the next one. The locks of
the processed, removed, state and output queues are held over straight code that requests no
other lock, so they stay inside a step. `setLock()` returns at once to the owner, which is
why a rollback that cancels an event to its own object loses its lock there. From then on
`peekEvent()` takes the lock for each look only, and `getEventWhileRollback()` takes the first
event without any: another thread may have inserted one in front of what was looked at. Taking
it is one step in the model; what happens inside the tree of the multiset when another thread
inserts at the same moment is not modelled.

Abstractions: a worker that finds the schedule queue empty polls again (a stuttering step);
suspending is `WorkerPool`'s matter; aggressive cancellation and the MultiSet scheme only; GVT stays
0, so nothing is reclaimed. `peekEvent()` dereferences `begin()` of an empty set; in
libstdc++ that reads the element count, 0, as the pointer, and the code goes on with `NULL`.
The application is `App(o, t)`, which calls `getEvent()` while `haveMoreEvents()`.

### WorkerPool

The same threads seen from `WorkerInformation`. A schedule queue is the number of objects
waiting in it; an execution may put any back, up to `MaxInserts`. Every access to shared
state is an action of its own: the worker's check of `workRemaining`, its peek, the steps of
`incrementIdleCount()` (lock and raise the flag, decrement the count, wait, wake, increment),
and in `simulate()` the two reads of the busy count, the look at each queue, each `resume()`,
the look at each queue in `checkTermination()`, and `killWorkerThreads()` and the joins.
`resume()` is two steps: `ResumeNext` and `ResumeToExit` read the flag without a lock,
`SignalNext` and `SignalToExit` are the section under the mutex (`Resume`). A signal
finds only a thread that waits; a wait may also end spuriously, and no loop around it looks
at the flag again. One simulation manager, so `SingleTerminationManager`: its flag is
`complete`. `killWorkerThreads()` clears its flag inside `ASSERT`, and the model is of a build
with assertions; the mutant `KillTooLate` is the build without.

### ReliableTransport

One communicator per process, single-threaded. Every variable has the name of its field. The
steps of one `probeNetwork()` are separate actions because datagrams arrive meanwhile:
`ReadSocket` and `ReadOn` are turns of the loop over one socket, each with the four cases of a
datagram (next in sequence, duplicate, out of order, control), and `EndRead` is what follows the
loop: the request to fill a hole and the explicit acknowledgement. Between them
`MoveToInOrder` and `DiscardCopy` are the turns of the loop over the top of the out-of-order queue.
Two copies of one message may lie in that queue in either order. `reading[n]` holds the local variables in between. `RetransmissionTimeout` may
take any prefix of a send queue for timed out. The network is a set of datagrams: reading takes
any of them (reordering), may leave it there (`MaxDup` times), and `Lose` drops one (`MaxLoss`
times). `Wire` is the 32-bit conversion of `serialize()`. `ONLY_CHECK_PHYSICAL_LAYER_ON_EMPTY_QUEUE`
is defined in the source, so sockets and timers are looked at only when nothing is left to hand
over. The synchronisation of `physicalInit()` and `physicalFinalize()` is left out.

### Checkpoints

One manager. The state of an object is the set of times of the events it has executed; a saved
state is its time. `Execute` is the part of `executeObjects()` that matters: `checkpoint()`,
`fossilCollect()`, saving the state, executing. `checkpoint()` loops over the checkpoint times
up to the event's, and `Due`, `NewOnes`, `Steps`, `NextAfter`, `LastAfter` and `FilesOf` give the
outcome of the loop: a checkpoint that exists is made again for one object, a new one saves all
objects and moves all their times on, each under its own name. `fossilCollect()` looks at every
tenth call whether something can go; here any call may. Which states `saveState()` keeps depends on
a period that the adaptive manager changes: the first one after a purge is kept, any other may be.
`Fault` joins the three ways a rollback turns out to be catastrophic: `restoreState()` finds nothing
(`NoState`), `sampleRollback()` (`Collected`) and `checkFault()` (`TooLate`). Each is a disjunct of
`Recover` with its own request: the first two ask before `updateCheckpointTime()`, from what all
objects have (`AllHave`), the last one after it (`Earliest`), and `sampleRollback()` asks with the
time of the restored state, not of the rollback. A recovery is one step to a checkpoint that the
protocol may choose: one not later than what was asked, and not before the last one restored. The
statistics behind `activeHistoryLength` are
left out, it is a constant; so are the contents of the files.

### CheckpointRecovery

All managers, manager 0 the master. Each branch of `receiveKernelMessage()` is an operator:
`ToMaster`, `FirstAtMaster`, `SecondAtMaster`, `FirstAtSlave`, `SecondAtSlave`, `ThirdAtSlave`.
`Dropped` is the incarnation filter of `routeMessage()`. The drain inside a handler,
`checkPhysicalLayerForMessages(1000)`, is nested in the handling of a message; `Drains` says how
many messages it may take from each channel, since what has not arrived yet stays. A restore
message in the drain would start a nested handler; it is left to be handled after this one.
`StartRecoveryTwice` is a rollback that starts the recovery both in `sampleRollback()` and after
`checkFault()`, which needs a saved state exactly at the last collect time (`StateAtCollect`).
`Advance` and `StepBack` let the last common checkpoint of a manager move as `Checkpoints` does.
Resetting GVT and termination is left out.

## 3. Runs

| run | instance | shows |
|---|---|---|
| `kernel_three` | 3 objects on 2 managers, times up to 4, GVT values 3 and infinity, state period 1, fair | `StateIsReplay`, `RestorePoint`, `NoOrphan`, `SequentialBelowFloor`, `RespectsGVT`; `Terminates`: rollbacks that cause rollbacks come to an end |
| `event_set` | 2 objects, 6 events with ties | `IndexExact`, `PeekIsLowest`, `HintValid`, `ProcessedSorted`, `OnePlace` |
| `gvt_two` | 2 managers, times up to 3, two events in transit, fair | the estimate implements `GlobalVirtualTime`; `WhiteAccounting`; `EstimationEnds` |
| `gvt_three_rollback` | 3 managers, traffic against the ring, times up to 4 | *violation*: see below |
| `termination_two` | 2 managers, 3 further events, fair | `NoPrematureCompletion`, `OneDetection`, `SimulationEnds` |
| `threads` | 2 workers, 3 objects, one of which sends two events at once, to another and to itself, one schedule queue, an event and a cancellation from outside, fair | `ScheduleExact`, `OneWorker`, `NoEventLost`, `Drains` |
| `pool` | 2 workers, 2 schedule queues, 3 objects in all, idle limit 1, one spurious wake-up, fair | the busy count is exact and no resume is lost (`TypeOK`), `WorkIsTaken`, `ShutdownEnds` |
| `pool_premature` | the same without spurious wake-ups | *violation*: see below |
| `transport` | 2 communicators, 3 messages one way, acknowledgement limit 1, one loss, one duplicate, any order, fair | `ImplementsFifo` (refinement of `FifoChannels`), `AllDelivered`; the sender forgets nothing (`TypeOK`) |
| `checkpoints` | 2 objects, event times 2, 4, 8, period 3, active history 2, three rollbacks | `Restorable`, `NewCheckpointIsCut` |
| `checkpoint_again` | the same with times up to 10 | *violation*: see below |
| `recovery` | 2 managers, checkpoints 0 to 2, three faults, two events, fair | `NoOldEvents`, `CommonCheckpoint`, `PurgesOnlyOld`, `RecoveryEnds` |

What the main properties say:

* `StateIsReplay`: the state of an object is exactly the effect of its processed and
  committed events, and each saved state that of the events before its time, after any
  rollbacks, coast forwards and collections.
* `RestorePoint`: while anything can still arrive, each object has a state at or before
  the exact GVT and has kept all events after it: `ASSERT(*restoredTime <= rollbackTime)`
  and the `abort()` in `restoreState()`.
* `NoOrphan`, `SequentialBelowFloor`: every delivered event has a cause or is being
  chased by an anti-message that will find it (`handleAntiMessage()` returns `false`
  otherwise and nobody looks), and below the exact GVT what was sent is exactly what the
  application sends from the true states, each event once.
* `WhiteAccounting`: the counts in the records and on the token always add up to the white
  messages in flight, and there is one token exactly while an estimation is pending.
* `OneDetection`: there is one terminator at most, every token is valid where it arrives, and
  one detection is under way.
* `ScheduleExact`, `OneWorker`: a free object is in the schedule queue exactly once and for
  its first event; a taken one is in it not at all and has one worker. Together they say
  that `insert()` by one thread and `peek()` and `updateScheduleQueueAfterExecute()` by
  another cannot miss each other.
* `NoEventLost`: each event in an output queue is in exactly one place: the sender's worker has
  still to insert it (`ToInsert`), or it is once among the receiver's events. At `sendFirst` the
  head of the worker's list is in the receiver's queue already, so it does not count there.
* `Drains`: every event is executed and every taken object given back.
* `WorkIsTaken`: an object in a schedule queue is taken, or the loop has been left: the
  manager's test of the busy count, the flags and the queues do not miss a sleeping worker.
* `ShutdownEnds`: when all workers sleep as the end begins, all are woken and joined.
* `AllDelivered`: again and again everything sent has been delivered *and* acknowledged, also
  when the receiver never sends a message that could carry an acknowledgement.
* `Restorable`: `restoreCheckpoint()` dereferences what `find()` returns and aborts without a
  file, so every checkpoint that can be chosen must have the states and files of all objects,
  although each object names its file by its own clock.
* `CommonCheckpoint`, `NoOldEvents`, `PurgesOnlyOld`: after a recovery all managers are at the
  same checkpoint, each had made it, and of the messages exactly the old ones are gone.

### Bounds, and why they are enough

`kernel_three` has rollbacks within rollbacks (object 3 sends a straggler to object 1,
whose cancellation rolls object 2 back), anti-messages that meet their event waiting,
processed and already cancelled, fossil collection between them, and coasting forward over
skipped states. Four time steps are needed: one to send on, one to be wrong about it, one
for the straggler, and one to see the effect. `event_set` has two events that tie in time
and id, so every comparison in `Less` decides something. For GVT and termination two
managers are too few to see everything, which is why the three-manager runs exist: a third
manager is what makes a channel the token does not use. `MaxInTransit`, `MaxEvents`,
`MaxId` and `Estimates` bound the state space only; `MaxInTransit` delays execution and
never drops a message.

In `threads` object 0 executes two events and sends at the second one to object 1 and to itself,
so that a worker is interrupted between two insertions. Then a straggler makes it take both back,
which costs it its lock, and coast forward over the first event, while the event from outside may
come in front of that; the other worker may be executing, rolling back or giving back any object at
that point, and every action fires (91,591 distinct states). Events from outside have a sender that is no object of this manager, and
cancel only events of their own sender (`InboxAssumption`).
`MaxId` is never reached. The three violating configurations need one pair of objects that send
to each other (`Cross`) or one cancelled event followed by a second straggler (`Stale`).

`transport` needs three messages: one that is lost, one that is out of order behind it, and one
more for a copy of an out-of-order message to jam the queue; with the limit 1 acknowledgements
are sent both because of the limit and because of duplicates. With messages in both directions
(`Quota <- TwoAndOne` of `MCReliableTransport`, safety and refinement only, 413,924 states)
acknowledgements travel on messages too; that passes as well. `WireModulus` 8 is above every
number used, as 2^32 is in practice. `MaxOutOfOrder` delays reading and drops nothing.

`pool` has two queues so that a worker can be asleep over one while the other is worked on, and
enough objects for a worker to be sent to sleep twice. `checkpoints` has three event
times around two checkpoint times (4 and 7): before and at the first, and after the second; three
rollbacks, so that some can be catastrophic after others were not, and all three kinds of fault
occur (317,657 distinct states). In `recovery` three faults
let both managers fault at once and one again while the first recovery is going on; with three
managers `CommonCheckpoint` and `PurgesOnlyOld` hold too (945,534 states), and the other two do
not, see below.

Deadlock checking is off in all the runs: a simulation that has executed everything stops.

### Fairness

`simulate()` is a loop that polls the physical layer before each round and after each
executed event and executes whatever the scheduler offers, so weak fairness of `Execute`
and of receiving from each channel is what a running process gives. In `TokenTermination`
polling is a phase of the loop, receiving is enabled again and again but not continuously,
and a manager that keeps polling takes each message at some point: strong fairness of
`Receive`. In `ThreadedTimeWarp` each thread runs on its own: weak fairness of each. A spin
lock may be taken by others in between, but there is a bounded number of events, so not for
ever. Executions are not fair in `MatternGVT`: an estimation must end without them.

In `WorkerPool` each thread is scheduled; spurious wake-ups are not counted on. In
`ReliableTransport` a process keeps calling `physicalProbeRecv()` (weak fairness of finishing a
read and of handing over), timeouts recur (strong fairness, since a send queue is looked at only
when nothing is left to hand over), and the network delivers at some point what is sent over
and over (strong fairness per message and for control datagrams). In `CheckpointRecovery` a
manager keeps polling each channel, in recovery or not; nothing else is fair.

### Disagreements found

* `gvt_three_rollback`. The initiator closes an estimation when no *white* message is in
  flight; red ones may be. They are in the minimum of that estimation, but after it all
  managers are white again, and a red message that is still in flight is in no count of
  the next one. With three managers a channel that the token does not use can be that
  slow, the next estimate passes the message, and its arrival makes `rollback()` abort
  with "Rollback beyond the Global Virtual Time". With two managers the token shares the
  channels with the events and flushes them: `gvt_two` passes.
* `pool_premature`. A worker counts itself busy when it has woken up, not when it is resumed.
  The manager resumes it, still reads 0, and meanwhile the worker takes the last object out of
  its queue: `checkTermination()` finds all queues empty and the simulation is declared complete
  while an object is executed.
* `checkpoint_again`. `updateCheckpointTime()` goes back one period only. In TLC's trace an object
  executes events at 2 and 7, which makes the checkpoints at 4 and 7, and is rolled back to 2. Its
  last checkpoint is then the one at 4, which holds the effect of the event at 2; if that event was
  cancelled and the next one is later than 4, the checkpoint is never made again. It also happens
  without a rollback: one object executes an event at 10 and makes all checkpoints, which moves the
  others past them; another then executes its event at 2 and makes only the last one again. A
  recovery to an earlier checkpoint restores a state without the event, and nobody sends it again,
  since only events received after the checkpoint are. The comment in `checkpoint()` promises only
  that the last checkpoint is saved again; the header says that the times "are updated accordingly".
  The property asks for all checkpoints the object has passed, because a recovery may choose any.

### Further deviations

These configurations are kept beside the runs; TLC finds each of them violated.

* `TokenTermination_chord.cfg` (`NoPrematureCompletion`). Two rounds of idle flags say nothing
  about an event on a channel the token does not use: with three managers completion is declared
  while it is in flight. Along the ring (`TokenTermination_ring.cfg`) it is not.
* `TokenTermination_uninitialised.cfg` (`NoPrematureCompletion`). `mySimManagerStatus` is read
  before it is written. If it reads `IDLE`, a manager that is busy with its first events passes
  the token on twice.
* `ThreadedTimeWarp_orphan.cfg` (`NoOrphan`). For an anti-message `executeObjects()` rolls back
  only if its time is *below* the simulation time of the object. An event executed at exactly
  that time stays processed, `handleAntiMessage()` searches the unprocessed events only, and the
  negative event is deleted although a comment says it will be kept. `cancelLocalEvents()` of
  the single-threaded kernel compares with `<=`. Two more ways to the same outcome are in the
  model: the anti-messages of another manager (`ThreadedTimeWarpSimulationManager.cpp:920`) and
  an event of an object to itself (`ThreadedOutputEvents.cpp:138`).
* `ThreadedTimeWarp_deadlock.cfg` (`Drains`). A rollback holds the lock of its object's
  unprocessed queue, and each cancellation takes that of a receiver. Two workers rolling back
  objects that sent to each other wait for ever.
* `ThreadedTimeWarp_stale.cfg` (`StateIsProcessed`). A saved state is matched with a processed
  event by the id of the event it was saved for. When that event was cancelled while the state
  stayed, the next rollback to this state finds no match and gives nothing back.
* `WorkerPool_shutdown.cfg` (`Shutdown`). A worker that read `workRemaining` before it was
  cleared suspends itself after the only `resume()` it will get; the join waits for ever.
* `ReliableTransport_wrap.cfg` (`AllDelivered`). Numbers have 64 bits in memory and 32 in a
  datagram. Once one has wrapped (here at 2) everything looks like a duplicate.
* `CheckpointRecovery_twice.cfg` (`RecoveryEnds`). When one rollback of the master starts the
  recovery twice, its incarnation goes up by two and the slave's by one: the token comes back
  with an old incarnation and is dropped; nobody runs again.
* `CheckpointRecovery_three.cfg` (`NoOldEvents`). With three managers an event on a channel the
  token does not use arrives after the recovery, when the filter is off, and is taken.

## 4. Proofs

Eight modules hold proofs, and each theorem is about every value of the constants: any number of
managers, objects, workers, messages and failures. Assumptions on constants are named in the
module that declares them and evaluated by TLC in each run; a condition on the application or on
the environment is a hypothesis of the theorem, and the instance of the module's passing run
satisfies it.

| module | theorem | property | hypothesis |
|---|---|---|---|
| `TimeWarpProofs` | `EventsKept` | `TypeOK` | `AppOK` |
| | `StateKeptTrue` | `StateIsReplay` | `AppOK` |
| | `RestorePointKept` | `RestorePoint` | `AppOK` |
| | `GVTRespected` | `RespectsGVT` (refinement) | `AppOK` |
| | `NothingOrphaned` | `NoOrphan` | `AppOK` |
| | `RunIsSequential` | `SequentialBelowFloor` | `AppOK` |
| `TimeWarpMultiSetProofs` | `TypeCorrect`, `IteratorsFollow`, `HintFollows` | `TypeOK`, `IndexExact`, `HintValid` | |
| | `SchedulerSeesLowest` | `PeekIsLowest` | |
| | `ProcessedInOrder` | `ProcessedSorted`, and `NothingSkipped`, which no run checks | |
| | `EventsInOnePlace` | `OnePlace` | |
| `TokenTerminationProofs` | `TypesKept`, `DetectionUnique` | `TypeOK`, `OneDetection` | |
| | `NeverPremature` | `NoPrematureCompletion` | `AlongTheRing`, `StartsActive` |
| `ThreadedTimeWarpProofs` | `QueuesKept` | `TypeOK` | `AppOK` |
| | `ScheduleKeptExact`, `OneWorkerAtATime` | `ScheduleExact`, `OneWorker` | `AppOK` |
| | `NothingIsLost` | `NoEventLost` | `AppOK` |
| `WorkerPoolProofs` | `PoolTypeOK` | `TypeOK` | |
| `ReliableTransportProofs` | `NothingForgotten` | `TypeOK` | `NoWrap` |
| | `FifoImplemented` | `ImplementsFifo` (refinement) | `NoWrap` |
| `CheckpointsProofs` | `CheckpointTypes`, `AlwaysRestorable` | `TypeOK`, `Restorable` | |
| | `CheckpointsAreCuts` | `NewCheckpointIsCut` (of a step) | |
| `CheckpointRecoveryProofs` | `RecoveryTypes` | `TypeOK` | |
| | `RecoveryIsCommon`, `RecoveryPurgesOld` | `CommonCheckpoint`, `PurgesOnlyOld` (of a step) | |
| | `TwoManagersKeepNoOldEvents` | `NoOldEvents` | `N = 2` |

### The kernel

`AppOK`: whatever well-formed events have made the state of an object, the application schedules
finitely many events, for objects there are, after the present time and up to `MaxTime`. Nothing
else is asked of it. Object sets are finite (`HomeAssumption`) and the first events are for
objects there are, after time 0 (`InitialAssumption`).

`KernelInv` says of each object that what it has done lies before its local time and what waits
does not, that its state is its processed and committed events, that each saved state is those of
them before its time and nothing after it has been given back (`SavedOK`), and that a state at or
before the manager's GVT is left (`CanRestore`); and that nothing waits or travels before any
manager's GVT. `StateIsReplay` alone is not inductive: a rollback rebuilds the state from a saved
one, so `SavedOK` is needed, and finding one needs `CanRestore`, which needs the bound on what
travels. The hard step is `Deliver`: a cascade `R` is only known as a solution of `IsCascade`.
The proof takes an object with the least rollback time below what was asked and follows the
cancellation that caused it to an earlier one: events are sent into the future, so there is no such
object, and no rollback goes before the times of the events that started it. Together with the
bound on those this gives the refinement of `GlobalVirtualTime`.

The second half of the module (`OrphanInv`) keeps accounts, with the events on their way (`Carried("event")`) and those an
anti-message chases (`Carried("negative")`) as two sets. `OutputsOK`: each output has a cause that
stands, is not chased, and is on its way or has arrived. `ArrivedOK`: what is on its way or has
arrived is chased or its sender stands by it. `ChasedOK`: what is chased is on its way or in the
receiver's queues, never collected. `SentOK`: for each object and time the events that count are
what the application sends from the state then, once each. `QueuesOK` says that an anti-message
is behind its event in the channel and nothing is cancelled twice, which is where the FIFO
assumption enters. `Accounts` is stated over arbitrary objects and sets, so that it can be carried
through the parts of one handler (execute, roll back, cancel, send) by a lemma each.

### The event set

Events are records whose id and sender identify them, and `End` is not one. The invariant is the
conjunction of all the properties but `PeekIsLowest`: `TypeOK`, `IndexExact`, `HintValid`,
`ProcessedSorted`, `NothingSkipped`, `OnePlace`. None is inductive alone. `ProcessedSorted` needs
`NothingSkipped` (the next event to be appended is after the last one); `NothingSkipped` needs
`OnePlace` (an event that is waiting has not been processed) and the order of the vector (what a
rollback gives back is after what stays); `IndexExact` needs `OnePlace` for the index entry of one
object not to be erased with that of another. `Less` is shown to be a strict total order on events,
which is where the assumption on ids is used. `PeekIsLowest` follows: the first of the objects'
first events is the first of all.

### Termination

`DetectionInv` has the right to run a detection in one place (`OneToken`, `RightKept`): one token of
the detection travels, or a terminator is idle, or the simulation is complete. `OneTerminator` needs
to know what each kind of token implies about the roles (`Roles`): while `BECOME_TERMINATOR` travels
nobody is the terminator. This holds for every topology and every initial status.

`NeverPremature` needs two things the code leaves to its environment: events travel along the ring
of the token (`AlongTheRing`), and `mySimManagerStatus` does not read `IDLE` before it is written
(`StartsActive`). Without them it is false (`TokenTermination_chord.cfg`,
`TokenTermination_uninitialised.cfg`). With two managers every topology is along the ring, so
`termination_two` is an instance; `TokenTermination_ring.cfg` is one with three. `RingInv` adds to
`DetectionInv`: in the first cycle a manager the token has passed that is idle since has nothing to
do, and nothing it sent is still on its way behind the token; in the second, *if the terminator has
been idle since it sent the token*, this is so of all managers and those passed are idle. The
condition is what makes it inductive: the events of a manager that the token has yet to pass go to
others it has yet to pass, or else to the terminator, which is then no longer idle.

### The threaded kernel

`AppOK`: an application sends to objects of this manager at times that are not negative.
`ScheduleInv` is about the locks: where each thread may be without an object and which locks it has
(`WhereOK`); in the middle of `insert()` a thread holds the unprocessed queue with its event in
front (`InsertOK`), unless a worker has the object, since one that coasts forward takes events
without the lock; a worker owns its object, and whoever holds an unprocessed queue is its worker or
is inserting (`OwnersOK`); schedule queues hold what `lowestPos` points at, once (`EntriesOK`); an
owned object is not scheduled, and one that nobody holds is scheduled for its first event
(`ExactOK`). `ScheduleExact` is `ExactOK` seen from outside; it is not inductive alone because it says
nothing between the two halves of `insert()` and of `updateScheduleQueueAfterExecute()`, when
`unprocessed` and the schedule queue disagree under a lock. That the multiset is a permutation of
what was put into it, in order, is proved from `Rank` by counting.

`NothingIsLost` needs an invariant of its own on top (`LostInv`), because `NoEventLost` counts an
event that nothing else identifies than its sender and id. `OutputOK`: an object's outputs are its
own events with increasing ids below the next one, so that no two are equal. `KnownOK`: whatever
waits, is processed or is in a worker's hand has an id that has been given away, and no
anti-message, in whatever form, names an event that its sender still stands by: without this an
annihilation could take a live event. `TodoOK` and `SendOK`: what a thread has still to insert is
nothing, anti-messages or outputs of its object not inserted yet, depending on where it is in the
code. `PlaceOK`: an output is either still to be inserted and not with the receiver, or the
reverse, once. The steps that move events (take, insert, roll back, give back, annihilate) are
lemmas about how often an event occurs in a sequence. `InboxAssumption` is used for events from
outside, which never have an id of an object of this manager.

### The worker pool

Workers are numbered from 1. The invariant adds `MutexHeld` to `TypeOK`: between raising the flag
and waiting a worker holds its mutex, so that `resume()`, which takes it, cannot lower the flag
before there is somebody to signal. The count is the cardinality of a set that loses or gains
one worker in `Uncount` and `Recount` and stays the same otherwise.

### The transport

`NoWrap`: no more messages per channel than numbers in a datagram, 2^32 in the code. It is needed
(`ReliableTransport_wrap.cfg`). `TransportInv` ties the numbers of the two ends together
(`Numbers`): acknowledged, received in sequence, sent. A datagram carries a message under its own
number and an acknowledgement its sender could still give, however old it is (`NetOK`); a send queue
holds all that is not acknowledged (`SendOK`); what was handed over is 1, 2, 3, ... and the in-order
queue goes on from there to the highest number received, without a gap (`DeliveredOK`, `OrderOK`).
The mapping to `FifoChannels` takes what was sent and what was handed over; `physicalSend()` and
`GetNextInOrder` map to its two actions and all other steps, with the network's, stutter.

### The checkpoints

The assumption is that there is an object, an event time and a positive period, finitely many of
the first two (`CheckpointAssumption`). `CheckpointInv`: there is a newest checkpoint `m` such that
the states kept are those of exactly the checkpoint times up to `m`, without gaps; each object's
last checkpoint time is one of them and its next one period on; it has a file for every checkpoint
time up to its last; and no event at or after `m + Period` is in any state, present or saved. That
is what makes the two properties inductive. For `NewCheckpointIsCut`, a new checkpoint is after
`m`, and nobody has executed anything that late. For `Restorable`, every checkpoint up to the
least of the last ones has all files. A rollback takes the times of one object back by a period and
`m` stays; each kind of fault asks for a checkpoint that all objects have; a recovery takes the states back to a checkpoint and `m` stays as well, because the
later checkpoints are kept. The work is in `checkpoint()`: the number of times its loop runs
(`Steps`) is a cardinality, shown to be that of an interval of checkpoint times, from which
`NextAfter`, `LastAfter` and `FilesOf` follow for the executing object and for the others, whose
clocks may be anywhere up to `m`.

### The recovery

`RecoveryInv` counts recoveries by what the master has restored (`Done`). The master's incarnation
is `Done` when it runs and one or two more in a recovery (two if one rollback started it twice); a
slave's is the number of its own restores, one more while it waits for THIRD_CYCLE, and between
`Done` and `Done + 1`. Each token states how far the recovery has come: FIRST_CYCLE that all before
it have entered (`FirstInv`), SECOND_CYCLE that all have, and that its checkpoint is one that all
it passed have made (`SecondInv`), THIRD_CYCLE that its receiver is still waiting and has made the
checkpoint that the master restored (`ThirdInv`). One token of a cycle is under way unless the
master started twice (`OneCycleInv`), a slave has one THIRD_CYCLE to receive at most (`OneThirdInv`),
and every incarnation, entered or asked for, is due to a fault, two at most to one (`AskedInv`),
which bounds the numbers. `CommonCheckpoint` follows from `SecondInv` and `ThirdInv`,
`PurgesOnlyOld` from `EventInv`: no event of the recovery under way exists yet. The nested drain
may take any part of each channel; all statements about channels are shown to survive that once.

`NoOldEvents` is proved for two managers, since for three it is false
(`CheckpointRecovery_three.cfg`). `TwoInv` adds where old events may be: none is behind
SECOND_CYCLE on the channel to the master, none behind THIRD_CYCLE on the channel to the slave, so
the token pushes them in front of it, into the drain and the incarnation filter.

### Model-checked only

* All liveness (`Terminates`, `EstimationEnds`, `SimulationEnds`, `Drains`, `WorkIsTaken`,
  `ShutdownEnds`, `AllDelivered`, `RecoveryEnds`): it is outside the prover's logic.
* `MatternGVT`: `WhiteAccounting` is a sum over channels, whose laws would need induction over
  data, and `ImplementsGVT` holds for two managers and not for three, so there is no theorem for
  every N. Its `TypeOK` is model-checked with them.

## 5. Plan

Done: the kernel with aggressive cancellation, the event set, GVT, termination, the worker loop of
the threaded kernel and its pool, the reliable UDP layer, checkpoints and recovery; proofs of the
safety properties of all of them but GVT. Next, in this order:

1. Local virtual times of the workers and `ThreadedMatternGVTManager`
   (`ThreadedTimeWarpSimulationManager.cpp:1360-1410` compares where it should assign),
   `LockedQueue`, fossil collection and `moveLP()` of the threaded kernel.
2. Lazy cancellation as a second output policy of `TimeWarp`, with its effect on GVT (the
   comment at `TimeWarpSimulationManager.cpp:394`).
3. `Startup`: the handshake of `waitForInitialization()` and `waitForStart()` (may an
   event arrive at a manager that does not know its objects yet?).
4. `LadderQ` and `SplayTree` against an ordered multiset; message aggregation; file queues.
5. Proofs: `WhiteAccounting` of `MatternGVT`, once sums over channels can be reasoned about, and
   with it `ImplementsGVT` under the condition that events travel along the ring of the token.

Not planned: serialization, configuration and factories (no behaviour after start),
the numeric controllers (`controlkit`, DVFS, adaptive cost models: floating point driven by
wall-clock measurements), METIS and JSON (third party).
