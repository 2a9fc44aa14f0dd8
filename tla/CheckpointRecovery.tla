------------------------ MODULE CheckpointRecovery ------------------------
(* The recovery from a catastrophic rollback under optimistic fossil           *)
(* collection: startRecovery() and receiveKernelMessage() of                   *)
(* OptFossilCollManager on every simulation manager, with the incarnation      *)
(* filter of the communication manager.  Manager 0 is the master.  A token     *)
(* goes round the ring twice, once to stop every manager and once to find the  *)
(* checkpoint all of them have; then the master tells everybody to restore it. *)
(*                                                                             *)
(* A checkpoint is its number, 0 the initial one; Checkpoints models how one   *)
(* manager makes them.  An event message is only its incarnation number.  A    *)
(* channel delivers in the order of sending.                                   *)
EXTENDS Integers, Sequences, FiniteSets, FiniteSetsExt

CONSTANTS
    N,               \* simulation managers
    MaxCheckpoint,   \* the last checkpoint (bound)
    MaxFaults,       \* catastrophic rollbacks (bound)
    MaxEvents,       \* event messages sent by executions (bound)
    StateAtCollect   \* managers whose oldest saved state may lie at the last collect time

Manager == 0 .. N - 1
Slave == Manager \ {0}
Peer(m) == IF m = N - 1 THEN 0 ELSE m + 1

ASSUME RecoveryAssumption ==
    /\ N \in Nat /\ N >= 2
    /\ MaxCheckpoint \in Nat
    /\ MaxFaults \in Nat
    /\ MaxEvents \in Nat
    /\ StateAtCollect \subseteq Manager

VARIABLES
    channel,        \* [<<p, q>>]: messages on the way from p to q
    inRecovery,     \* [m]: recoveringFromCkpt of communication and simulation manager
    recovering,     \* [m]: the manager takes part in a recovery
    incarnation,    \* [m]: numCatastrophicRollbacks
    last,           \* [m]: the last checkpoint that all its objects have
    events,         \* [m]: incarnations of the events received since the last purge
    restored,       \* [m]: the checkpoints restored so far
    faults,         \* how many catastrophic rollbacks there were
    sent            \* how many events executions have sent

vars == <<channel, inRecovery, recovering, incarnation, last, events, restored, faults, sent>>

Link == {l \in Manager \X Manager : l[1] # l[2]}

Init ==
    /\ channel = [l \in Link |-> <<>>]
    /\ inRecovery = [m \in Manager |-> FALSE]
    /\ recovering = [m \in Manager |-> FALSE]
    /\ incarnation = [m \in Manager |-> 0]
    /\ last = [m \in Manager |-> 0]
    /\ events = [m \in Manager |-> {}]
    /\ restored = [m \in Manager |-> <<>>]
    /\ faults = 0
    /\ sent = 0

-----------------------------------------------------------------------------
(* Messages.  sendMessage() stamps them; in recovery it sends nothing else     *)
(* than restore messages.                                                      *)

EventMessage(i) == [type |-> "event", incarnation |-> i]
RestoreCkpt(token, c, i) ==
    [type |-> "restore", token |-> token, checkpoint |-> c, incarnation |-> i]

Sent(ch, m, d, msg) == [ch EXCEPT ![<<m, d>>] = Append(@, msg)]

\* routeMessage(): in recovery a message of an earlier incarnation is dropped.
DroppedEqual(m, msg) == inRecovery[m] /\ msg.incarnation <= incarnation[m]
Dropped(m, msg) == inRecovery[m] /\ msg.incarnation < incarnation[m]

-----------------------------------------------------------------------------
(* The simulation between recoveries *)

LastRestored(m) == IF restored[m] = <<>> THEN 0 ELSE restored[m][Len(restored[m])]

\* Its objects pass a checkpoint time.
Advance(m) ==
    /\ ~inRecovery[m]
    /\ last[m] < MaxCheckpoint
    /\ last' = [last EXCEPT ![m] = @ + 1]
    /\ UNCHANGED <<channel, inRecovery, recovering, incarnation, events, restored, faults, sent>>

\* A rollback: updateCheckpointTime().
StepBack(m) ==
    /\ ~inRecovery[m]
    /\ last[m] > LastRestored(m)
    /\ last' = [last EXCEPT ![m] = @ - 1]
    /\ UNCHANGED <<channel, inRecovery, recovering, incarnation, events, restored, faults, sent>>

SendEvent(m, d) ==
    /\ ~inRecovery[m]
    /\ sent < MaxEvents
    /\ sent' = sent + 1
    /\ channel' = Sent(channel, m, d, EventMessage(incarnation[m]))
    /\ UNCHANGED <<inRecovery, recovering, incarnation, last, events, restored, faults>>

-----------------------------------------------------------------------------
(* startRecovery(): c is the last common checkpoint not later than the rollback *)

StopNot(m) == UNCHANGED inRecovery
Stop(m) == inRecovery' = [inRecovery EXCEPT ![m] = TRUE]

StartMaster(c) ==
    /\ recovering' = [recovering EXCEPT ![0] = TRUE]
    /\ incarnation' = [incarnation EXCEPT ![0] = @ + 1]
    /\ channel' = Sent(channel, 0, Peer(0), RestoreCkpt("first", c, incarnation[0] + 1))

StartSlave(m, c) ==
    /\ channel' = Sent(channel, m, 0, RestoreCkpt("toMaster", c, incarnation[m]))
    /\ UNCHANGED <<recovering, incarnation>>

Fault(m) ==
    /\ ~inRecovery[m]
    /\ faults < MaxFaults
    /\ faults' = faults + 1
    /\ Stop(m)
    /\ UNCHANGED <<last, events, restored, sent>>

StartRecovery(m, c) ==
    /\ Fault(m)
    /\ c \in LastRestored(m) .. last[m]
    /\ IF m = 0 THEN StartMaster(c) ELSE StartSlave(m, c)

\* rollback() starts the recovery twice, from sampleRollback() and after
\* checkFault(), when the oldest saved state lies at the last collect time: the
\* first call for the checkpoint c before that state, the second for the
\* checkpoint d before the rollback.
StartRecoveryTwice(m, c, d) ==
    /\ m \in StateAtCollect
    /\ Fault(m)
    /\ c \in LastRestored(m) .. last[m]
    /\ d \in LastRestored(m) .. c
    /\ IF m = 0
       THEN /\ recovering' = [recovering EXCEPT ![0] = TRUE]
            /\ incarnation' = [incarnation EXCEPT ![0] = @ + 2]
            /\ channel' = Sent(Sent(channel, 0, Peer(0), RestoreCkpt("first", c, incarnation[0] + 1)),
                               0, Peer(0), RestoreCkpt("first", d, incarnation[0] + 2))
       ELSE /\ channel' = Sent(Sent(channel, m, 0, RestoreCkpt("toMaster", c, incarnation[m])),
                               m, 0, RestoreCkpt("toMaster", d, incarnation[m]))
            /\ UNCHANGED <<recovering, incarnation>>

-----------------------------------------------------------------------------
(* The drain: checkPhysicalLayerForMessages() until nothing has arrived.  A     *)
(* manager in incarnation i takes d[p] messages of p; a restore message that    *)
(* is not dropped is left to be received after the handler.                     *)

Others(m) == Manager \ {m}

Drains(ch, m, i) ==
    {d \in [Others(m) -> 0 .. Max({Len(ch[<<p, m>>]) : p \in Others(m)})] :
        \A p \in Others(m) :
            /\ d[p] <= Len(ch[<<p, m>>])
            /\ \A j \in 1 .. d[p] : \/ ch[<<p, m>>][j].type = "event"
                                   \/ ch[<<p, m>>][j].incarnation < i}

Left(ch, m, d) ==
    [l \in Link |-> IF l[2] = m THEN SubSeq(ch[l], d[l[1]] + 1, Len(ch[l])) ELSE ch[l]]

\* The events among them that routeMessage() passes on.
Accepted(ch, m, i, d) ==
    (UNION {{ch[<<p, m>>][j].incarnation : j \in 1 .. d[p]} : p \in Others(m)}) \ (0 .. i - 1)

\* ofcPurge() of the output manager, the event set and the state manager.
PurgedNot(m) == events
Purged(m) == [events EXCEPT ![m] = {}]

-----------------------------------------------------------------------------
(* The master receives *)

\* SEND_TO_MASTER
ToMaster(ch, msg) ==
    /\ Stop(0)
    /\ recovering' = [recovering EXCEPT ![0] = TRUE]
    /\ incarnation' = [incarnation EXCEPT ![0] = @ + 1]
    /\ channel' = Sent(ch, 0, Peer(0), RestoreCkpt("first", msg.checkpoint, incarnation[0] + 1))
    /\ UNCHANGED <<last, events, restored>>

\* FIRST_CYCLE is back: all managers have stopped.
\* The queues are purged after the drain.
FirstAtMaster(ch, msg) ==
    /\ events' = Purged(0)
    /\ \E d \in Drains(ch, 0, incarnation[0]) :
           channel' = Sent(Left(ch, 0, d), 0, Peer(0),
                           RestoreCkpt("second", Min({last[0], msg.checkpoint}), incarnation[0]))
    /\ UNCHANGED <<inRecovery, recovering, incarnation, last, restored>>

\* The end of a recovery at m.  restoreCheckpoint() sends the saved output
\* events again, to the managers D.
Restore(m, ch, c, D) ==
    /\ inRecovery' = [inRecovery EXCEPT ![m] = FALSE]
    /\ recovering' = [recovering EXCEPT ![m] = FALSE]
    /\ last' = [last EXCEPT ![m] = c]
    /\ restored' = [restored EXCEPT ![m] = Append(@, c)]
    /\ channel' = [l \in Link |-> IF l[1] = m /\ l[2] \in D
                                  THEN Append(ch[l], EventMessage(incarnation[m])) ELSE ch[l]]
    /\ UNCHANGED <<incarnation, events>>

\* SECOND_CYCLE is back: THIRD_CYCLE goes to everybody.
Third(ch, c) == [l \in Link |-> IF l[1] = 0
                                THEN Append(ch[l], RestoreCkpt("third", c, incarnation[0]))
                                ELSE ch[l]]

SecondAtMaster(ch, msg) ==
    \E D \in SUBSET Slave : Restore(0, Third(ch, msg.checkpoint), msg.checkpoint, D)

-----------------------------------------------------------------------------
(* A slave receives *)

FirstAtSlave(m, ch, msg) ==
    /\ Stop(m)
    /\ recovering' = [recovering EXCEPT ![m] = TRUE]
    /\ incarnation' = [incarnation EXCEPT ![m] = @ + 1]
    /\ events' = Purged(m)
    /\ \E d \in Drains(ch, m, incarnation[m] + 1) :
           channel' = Sent(Left(ch, m, d), m, Peer(m),
                           RestoreCkpt("first", msg.checkpoint, incarnation[m] + 1))
    /\ UNCHANGED <<last, restored>>

\* SECOND_CYCLE: the checkpoint that this manager has too.
OwnCheckpointNot(m, msg) == msg.checkpoint
OwnCheckpoint(m, msg) == Min({last[m], msg.checkpoint})

SecondAtSlave(m, ch, msg) ==
    /\ \E d \in Drains(ch, m, incarnation[m]) :
           /\ events' = [events EXCEPT ![m] = @ \cup Accepted(ch, m, incarnation[m], d)]
           /\ channel' = Sent(Left(ch, m, d), m, Peer(m),
                              RestoreCkpt("second", OwnCheckpoint(m, msg), incarnation[m]))
    /\ UNCHANGED <<inRecovery, recovering, incarnation, last, restored>>

ThirdAtSlave(m, ch, msg) ==
    \E D \in SUBSET (Manager \ {m}) : Restore(m, ch, msg.checkpoint, D)

-----------------------------------------------------------------------------
(* One message of checkPhysicalLayerForMessages() *)

Arrives(m, p) == channel[<<p, m>>] # <<>>
Message(m, p) == Head(channel[<<p, m>>])
Taken(m, p) == [channel EXCEPT ![<<p, m>>] = Tail(@)]
Routed(m, p) == Arrives(m, p) /\ ~Dropped(m, Message(m, p))

\* In recovery an event of the present incarnation still goes into the event set.
ReceiveEvent(m, p) ==
    /\ Routed(m, p)
    /\ Message(m, p).type = "event"
    /\ events' = [events EXCEPT ![m] = @ \cup {Message(m, p).incarnation}]
    /\ channel' = Taken(m, p)
    /\ UNCHANGED <<inRecovery, recovering, incarnation, last, restored>>

\* A token is acted on in the recovery it belongs to: SEND_TO_MASTER outside of
\* one, FIRST_CYCLE outside of one at a slave and inside of one at the master.
ActsOn(m, token) ==
    \/ m = 0 /\ token = "toMaster" /\ ~recovering[0]
    \/ m = 0 /\ token \in {"first", "second"} /\ recovering[0]
    \/ m # 0 /\ token = "first" /\ ~recovering[m]
    \/ m # 0 /\ token \in {"second", "third"} /\ recovering[m]

ReceiveRestore(m, p) ==
    LET msg == Message(m, p)
        ch == Taken(m, p)
    IN  /\ Routed(m, p)
        /\ msg.type = "restore"
        /\ ActsOn(m, msg.token)
        /\ \/ m = 0 /\ msg.token = "toMaster" /\ ToMaster(ch, msg)
           \/ m = 0 /\ msg.token = "first" /\ FirstAtMaster(ch, msg)
           \/ m = 0 /\ msg.token = "second" /\ SecondAtMaster(ch, msg)
           \/ m # 0 /\ msg.token = "first" /\ FirstAtSlave(m, ch, msg)
           \/ m # 0 /\ msg.token = "second" /\ SecondAtSlave(m, ch, msg)
           \/ m # 0 /\ msg.token = "third" /\ ThirdAtSlave(m, ch, msg)

\* Filtered out, or a token that the manager ignores.
Discard(m, p) ==
    /\ Arrives(m, p)
    /\ \/ Dropped(m, Message(m, p))
       \/ Message(m, p).type = "restore" /\ ~ActsOn(m, Message(m, p).token)
    /\ channel' = Taken(m, p)
    /\ UNCHANGED <<inRecovery, recovering, incarnation, last, events, restored>>

Receive(m, p) ==
    /\ ReceiveEvent(m, p) \/ ReceiveRestore(m, p) \/ Discard(m, p)
    /\ UNCHANGED <<faults, sent>>

Next ==
    \/ \E m \in Manager : Advance(m) \/ StepBack(m)
    \/ \E m \in Manager, c \in 0 .. MaxCheckpoint : StartRecovery(m, c)
    \/ \E m \in Manager, c, d \in 0 .. MaxCheckpoint : StartRecoveryTwice(m, c, d)
    \/ \E l \in Link : SendEvent(l[1], l[2]) \/ Receive(l[2], l[1])

Spec == Init /\ [][Next]_vars

\* A manager never stops polling, in recovery or out of it (simulate()).
FairSpec == Spec /\ \A l \in Link : WF_vars(Receive(l[2], l[1]))

-----------------------------------------------------------------------------
(* Properties *)

Token == {"toMaster", "first", "second", "third"}
Incarnation == 0 .. 2 * MaxFaults

\* Types, and a manager that takes part in a recovery has stopped.
TypeOK ==
    /\ \A l \in Link : \A i \in 1 .. Len(channel[l]) :
           \/ channel[l][i] \in [type : {"event"}, incarnation : Incarnation]
           \/ channel[l][i] \in [type : {"restore"}, token : Token,
                                 checkpoint : 0 .. MaxCheckpoint, incarnation : Incarnation]
    /\ inRecovery \in [Manager -> BOOLEAN]
    /\ recovering \in [Manager -> BOOLEAN]
    /\ \A m \in Manager : recovering[m] => inRecovery[m]
    /\ incarnation \in [Manager -> Incarnation]
    /\ last \in [Manager -> 0 .. MaxCheckpoint]
    /\ events \in [Manager -> SUBSET Incarnation]
    /\ restored \in [Manager -> Seq(0 .. MaxCheckpoint)]
    /\ faults \in 0 .. MaxFaults
    /\ sent \in 0 .. MaxEvents

\* After a recovery no manager has an event in its queues that was sent before
\* it: the drains and the incarnation filter have caught all of them.
NoOldEvents ==
    \A m \in Manager : ~recovering[m] => events[m] \subseteq {incarnation[m]}

\* The managers restore the same checkpoints in the same order, and as
\* restoreCheckpoint() does not look whether the checkpoint exists, each has made
\* the one it is told to restore.
CommonCheckpoint ==
    [][\A m \in Manager : restored'[m] # restored[m] =>
           /\ LastRestored(m)' <= last[m]
           /\ \A p \in Manager : Len(restored'[m]) <= Len(restored[p]) =>
                  restored[p][Len(restored'[m])] = LastRestored(m)']_vars

\* The drain and the purge of FIRST_CYCLE meet no event of the incarnation that
\* begins: a slave enters it before anybody sends in it.
PurgesOnlyOld ==
    [][\A m \in Slave : incarnation'[m] # incarnation[m] =>
           /\ \A i \in events[m] : i < incarnation'[m]
           /\ \A p \in Manager \ {m} : \A i \in 1 .. Len(channel[<<p, m>>]) :
                  channel[<<p, m>>][i].type = "event" =>
                      channel[<<p, m>>][i].incarnation < incarnation'[m]]_vars

\* A manager that has stopped for a recovery runs again.
RecoveryEnds == \A m \in Manager : inRecovery[m] ~> ~inRecovery[m]
=============================================================================
