---------------------------- MODULE Checkpoints ----------------------------
(* The checkpoints one simulation manager keeps under optimistic fossil        *)
(* collection: OptFossilCollManager's checkpoint(), updateCheckpointTime(),    *)
(* fossilCollect(), checkFault() and restoreCheckpoint(), as executeObjects()  *)
(* and rollback() call them.  How the managers agree on the checkpoint to      *)
(* restore is CheckpointRecovery's matter: here a fault ends with the restore  *)
(* of a checkpoint that the protocol may choose.                               *)
(*                                                                             *)
(* The state of an object is the set of receive times of the events it has     *)
(* executed.  Any event may be executed next that is later than the object's   *)
(* simulation time, and any earlier one may cause a rollback, except that      *)
(* after a restore nothing is received for a time before the checkpoint.       *)
EXTENDS Integers, FiniteSets, FiniteSetsExt

CONSTANTS
    Object,             \* the manager's simulation objects
    EventTime,          \* receive times of events
    Period,             \* checkpointPeriod
    ActiveHistory,      \* activeHistoryLength
    MaxRollbacks        \* how often objects roll back (bound)

firstCheckpointTime == 1

ASSUME CheckpointAssumption ==
    /\ Object # {}
    /\ IsFiniteSet(Object)
    /\ EventTime \subseteq Nat \ {0} /\ EventTime # {}
    /\ IsFiniteSet(EventTime)
    /\ Period \in Nat \ {0}
    /\ ActiveHistory \in Nat
    /\ MaxRollbacks \in Nat

VARIABLES
    state,              \* [o]: the events whose effect is in the object's state
    stateQueue,         \* [o]: the times of the states in the object's state queue
    nextCheckpointTime, \* [o]
    lastCheckpointTime, \* [o]
    checkpointedStates, \* checkpoint time -> [o -> state]
    files,              \* <<time, o>>: the checkpoint file exists
    lastCollectTimes,   \* [o]
    lastRestoreTime,
    rollbacks           \* how many rollbacks there were

vars == <<state, stateQueue, nextCheckpointTime, lastCheckpointTime, checkpointedStates, files,
          lastCollectTimes, lastRestoreTime, rollbacks>>

SimulationTime(o) == Max(state[o] \cup stateQueue[o] \cup {0})

Init ==
    /\ state = [o \in Object |-> {}]
    /\ stateQueue = [o \in Object |-> {0}]
    /\ nextCheckpointTime = [o \in Object |-> Period + 1]
    /\ lastCheckpointTime = [o \in Object |-> firstCheckpointTime]
    /\ checkpointedStates = [c \in {firstCheckpointTime} |-> state]
    /\ files = {firstCheckpointTime} \X Object
    /\ lastCollectTimes = [o \in Object |-> -1]
    /\ lastRestoreTime = -1
    /\ rollbacks = 0

-----------------------------------------------------------------------------
(* updateCheckpointTime(): one period back, whatever the distance is. *)

Underflows(o) == lastCheckpointTime[o] - Period < firstCheckpointTime

LastUpdated(o, t) ==
    IF t >= lastCheckpointTime[o] THEN lastCheckpointTime[o]
    ELSE IF Underflows(o) THEN firstCheckpointTime
    ELSE lastCheckpointTime[o] - Period

NextKept(o, t) == nextCheckpointTime[o]

NextUpdated(o, t) ==
    IF t >= lastCheckpointTime[o] THEN nextCheckpointTime[o]
    ELSE IF Underflows(o) THEN Period + 1
    ELSE lastCheckpointTime[o]

\* The checkpoints an object has to save before it executes an event at t.
DueLater(o, t) == {c \in NextUpdated(o, t) .. t - 1 : (c - NextUpdated(o, t)) % Period = 0}
Due(o, t) == {c \in NextUpdated(o, t) .. t : (c - NextUpdated(o, t)) % Period = 0}

\* A checkpoint made for the first time saves every object, and moves every
\* object's checkpoint times on by one period.
NewOnes(o, t) == Due(o, t) \ DOMAIN checkpointedStates

Save(o, t) == [c \in DOMAIN checkpointedStates \cup Due(o, t) |->
    IF c \notin DOMAIN checkpointedStates THEN state
    ELSE IF c \in Due(o, t) THEN [checkpointedStates[c] EXCEPT ![o] = state[o]]
    ELSE checkpointedStates[c]]

\* How many periods the checkpoint times of object p move on.
Steps(p, o, t) == Cardinality(IF p = o THEN Due(o, t) ELSE NewOnes(o, t))

NextAfter(p, o, t) ==
    (IF p = o THEN NextUpdated(o, t) ELSE nextCheckpointTime[p]) + Steps(p, o, t) * Period

LastAfter(p, o, t) ==
    IF Steps(p, o, t) > 0 THEN NextAfter(p, o, t) - Period
    ELSE IF p = o THEN LastUpdated(o, t)
    ELSE lastCheckpointTime[p]

\* The file of an object is named after the object's own checkpoint time.
FilesDue(o, t) ==
    {<<c, o>> : c \in Due(o, t)}

FilesOf(o, t) ==
    UNION {{<<NextAfter(p, o, t) - k * Period, p>> : k \in 1 .. Steps(p, o, t)} : p \in Object}

checkpoint(o, t) ==
    /\ checkpointedStates' = Save(o, t)
    /\ nextCheckpointTime' = [p \in Object |-> NextAfter(p, o, t)]
    /\ lastCheckpointTime' = [p \in Object |-> LastAfter(p, o, t)]
    /\ files' = files \cup FilesOf(o, t)

\* Every tenth call looks whether there is something to collect; here any call
\* may.  The states before the collect time go, without exception.
fossilCollect(o, t, saved) ==
    \/ /\ UNCHANGED lastCollectTimes
       /\ stateQueue' = [stateQueue EXCEPT ![o] = @ \cup saved]
    \/ /\ t > ActiveHistory
       /\ t - ActiveHistory > lastCollectTimes[o]
       /\ lastCollectTimes' = [lastCollectTimes EXCEPT ![o] = t - ActiveHistory]
       /\ stateQueue' = [stateQueue EXCEPT ![o] =
                              {x \in @ : x >= t - ActiveHistory} \cup saved]

\* saveState(): the first state after the queue was purged is saved, and of the
\* others those that the state period, which may be adapted, falls on.
saveState(o, t) ==
    IF stateQueue[o] = {} /\ lastCollectTimes[o] = -1 THEN {{t}} ELSE {{t}, {}}

\* One event of executeObjects(): checkpoint, fossil collection, saveState(),
\* executeProcess().
Execute(o, t) ==
    /\ t > SimulationTime(o)
    /\ t >= lastRestoreTime
    /\ checkpoint(o, t)
    /\ \E saved \in saveState(o, t) : fossilCollect(o, t, saved)
    /\ state' = [state EXCEPT ![o] = @ \cup {t}]
    /\ UNCHANGED <<lastRestoreTime, rollbacks>>

-----------------------------------------------------------------------------
(* Rollback *)

\* The time of the state restoreState() takes: the last one not later than the
\* rollback, or the first of the queue.
RestoredTime(o, t) ==
    IF \E x \in stateQueue[o] : x <= t THEN Max({x \in stateQueue[o] : x <= t})
                                     ELSE Min(stateQueue[o])

\* What makes a rollback a fault: there is no state, or the one restored is as
\* old as the last collection (sampleRollback()), or it is too late and not
\* because a restore emptied the queue (checkFault()).
NoState(o) == stateQueue[o] = {}

Collected(o, t) ==
    ~NoState(o) /\ lastCollectTimes[o] # -1 /\ RestoredTime(o, t) <= lastCollectTimes[o]

TooLate(o, t) ==
    ~NoState(o) /\ lastCollectTimes[o] # -1 /\ RestoredTime(o, t) > t

Fault(o, t) == NoState(o) \/ Collected(o, t) \/ TooLate(o, t)

Straggler(o, t) ==
    /\ rollbacks < MaxRollbacks
    /\ rollbacks' = rollbacks + 1
    /\ t <= SimulationTime(o)
    /\ t >= lastRestoreTime

\* With no state as old as t the object goes back to the restored checkpoint and
\* coasts forward from there.
RollBack(o, t) ==
    /\ Straggler(o, t)
    /\ ~Fault(o, t)
    /\ nextCheckpointTime' = [nextCheckpointTime EXCEPT ![o] = NextUpdated(o, t)]
    /\ lastCheckpointTime' = [lastCheckpointTime EXCEPT ![o] = LastUpdated(o, t)]
    /\ stateQueue' = [stateQueue EXCEPT ![o] = {x \in @ : x <= t}]
    /\ state' = [state EXCEPT ![o] = {x \in @ : x < t}]
    /\ UNCHANGED <<checkpointedStates, files, lastCollectTimes, lastRestoreTime>>

\* The last checkpoint that all objects have, before and after the rollback has
\* updated the checkpoint times of its object.
AllHave == Min({lastCheckpointTime[p] : p \in Object})
Earliest(o, t) == Min({LastUpdated(o, t)} \cup {lastCheckpointTime[p] : p \in Object \ {o}})

\* The checkpoint startRecovery() asks for: the last one not after e or t.
Requested(e, t) ==
    Max({firstCheckpointTime} \cup
        {c \in firstCheckpointTime .. e : c <= t /\ (e - c) % Period = 0})

\* What the other managers may lower it to: none goes back behind the checkpoint
\* that all restored last.
MayChoose(c) ==
    {x \in Max({firstCheckpointTime, lastRestoreTime}) .. c : (c - x) % Period = 0}

restoreCheckpoint(c) ==
    /\ lastCheckpointTime' = [o \in Object |-> c]
    /\ nextCheckpointTime' = [o \in Object |-> c + Period]
    /\ state' = checkpointedStates[c]
    /\ stateQueue' = [o \in Object |-> {}]
    /\ lastCollectTimes' = [o \in Object |-> -1]
    /\ lastRestoreTime' = c
    /\ UNCHANGED <<checkpointedStates, files>>

Restore(c) == \E x \in MayChoose(c) : restoreCheckpoint(x)

\* The fault of an object, and the restore it leads to.  restoreState() and
\* sampleRollback() ask before the checkpoint times are updated, sampleRollback()
\* with the time of the restored state: there it is the manager itself that
\* lowers the request afterwards.  A rollback may make both of the last two.
Recover(o, t) ==
    /\ Straggler(o, t)
    /\ \/ NoState(o) /\ Restore(Requested(AllHave, t))
       \/ Collected(o, t) /\ Restore(Min({Requested(AllHave, RestoredTime(o, t)), Earliest(o, t)}))
       \/ TooLate(o, t) /\ Restore(Requested(Earliest(o, t), t))

\* The same for a fault of another manager: it asks for any of its checkpoints.
RecoverForPeer ==
    /\ rollbacks < MaxRollbacks
    /\ rollbacks' = rollbacks + 1
    /\ Restore(AllHave)

-----------------------------------------------------------------------------
Next ==
    \/ \E o \in Object, t \in EventTime : Execute(o, t) \/ RollBack(o, t) \/ Recover(o, t)
    \/ RecoverForPeer

Spec == Init /\ [][Next]_vars

-----------------------------------------------------------------------------
(* Properties *)

CheckpointTimes == {c \in 1 .. Max(EventTime) + Period : (c - firstCheckpointTime) % Period = 0}

\* Types, and the checkpoint times of every object stay one period apart.
TypeOK ==
    /\ state \in [Object -> SUBSET EventTime]
    /\ stateQueue \in [Object -> SUBSET (EventTime \cup {0})]
    /\ lastCheckpointTime \in [Object -> CheckpointTimes]
    /\ \A o \in Object : nextCheckpointTime[o] = lastCheckpointTime[o] + Period
    /\ DOMAIN checkpointedStates \subseteq CheckpointTimes
    /\ \A c \in DOMAIN checkpointedStates :
           checkpointedStates[c] \in [Object -> SUBSET EventTime]
    /\ files \subseteq CheckpointTimes \X Object
    /\ lastCollectTimes \in [Object -> Int]
    /\ lastRestoreTime \in {-1} \cup CheckpointTimes
    /\ rollbacks \in 0 .. MaxRollbacks

\* restoreCheckpoint() takes the states of a checkpoint without looking whether
\* it has them and aborts when a file is missing: every checkpoint that the
\* recovery may choose has the states and a file of every object.
Restorable ==
    \A c \in MayChoose(AllHave) :
        /\ c \in DOMAIN checkpointedStates
        /\ \A o \in Object : <<c, o>> \in files

\* The first object to reach a checkpoint time saves all objects: none of them
\* has executed an event at or after that time, so that the checkpoint is a cut
\* of the simulation.
NewCheckpointIsCut ==
    [][\A c \in DOMAIN checkpointedStates' \ DOMAIN checkpointedStates :
           \A o \in Object :
               checkpointedStates'[c][o] = {x \in state[o] : x < c}]_vars

\* "If the time is less than the last checkpoint time, then save at the last
\* checkpoint time again" (checkpoint()): what a checkpoint an object has passed
\* holds for it is the effect of the events before that time, as they are now.
CheckpointIsCurrent ==
    \A o \in Object : \A c \in DOMAIN checkpointedStates :
        c <= lastCheckpointTime[o] =>
            checkpointedStates[c][o] = {x \in state[o] : x < c}
=============================================================================
