--------------------------- MODULE TokenTermination ---------------------------
(***************************************************************************)
(* Distributed termination detection: TokenPassingTerminationManager and   *)
(* the main loop of TimeWarpSimulationManager::simulate() that drives it.  *)
(*                                                                         *)
(* Simulation managers form a ring.  One of them is the terminator; it     *)
(* sends a token round the ring twice, and when everyone has been idle     *)
(* since the previous visit it declares the simulation complete.  A        *)
(* manager that has been active taints the token and inherits the role.    *)
(*                                                                         *)
(* Events are counted, not described: "work[i]" is the number of           *)
(* unprocessed events of manager i.  A channel carries events and tokens   *)
(* in FIFO order per pair of managers.                                     *)
(***************************************************************************)
EXTENDS Integers, Sequences, FiniteSets, FiniteSetsExt, SequencesExt

CONSTANTS
    N,              \* number of simulation managers
    Routes,         \* pairs <<i, j>>: objects of i schedule events for objects of j
    InitialStatus,  \* values the uninitialised mySimManagerStatus may start with
    MaxEvents       \* bound: events scheduled during the run, initial ones aside

ASSUME NAssumption == N \in Nat /\ N > 1
ASSUME RoutesAssumption == Routes \subseteq (0 .. N - 1) \X (0 .. N - 1)
ASSUME StatusAssumption == InitialStatus \subseteq {"IDLE", "ACTIVE"} /\ InitialStatus # {}
ASSUME BoundAssumption == MaxEvents \in Nat

SM     == 0 .. N - 1
Peer(i) == (i + 1) % N          \* figureOutPeer()

\* Token states that are in the hands of the detection itself.
ControlStates == {"FIRST_CYCLE", "SECOND_CYCLE", "CANCEL_CYCLE", "BECOME_TERMINATOR"}

VARIABLES
    terminatorStatus,   \* SLAVE, TERMINATOR_IDLE or TERMINATOR_PROCESSING
    completeFlag,       \* simulationCompleteFlag
    idleSinceLastToken, \* idleSinceLastTokenFlag
    status,             \* mySimManagerStatus
    pc,                 \* where manager i is in simulate()
    had,                \* hadAtLeastOne of executeObjects()
    work,               \* unprocessed events of manager i
    scheduled,          \* events scheduled so far
    chan                \* chan[<<i, j>>]: messages from i to j

termVars == <<terminatorStatus, completeFlag, idleSinceLastToken, status>>
loopVars == <<pc, had>>
vars     == <<termVars, loopVars, work, scheduled, chan>>

EventMsg == [type |-> "event"]
Token(from, terminator, state) ==
    [type |-> "token", from |-> from, terminator |-> terminator, state |-> state]

Message ==
    {EventMsg} \cup
    [type : {"token"}, from : SM, terminator : SM,
     state : ControlStates \cup {"SIMULATION_COMPLETE"}]

\* sendToken(): append to the channel from i to j.
Send(ch, i, j, m) == [ch EXCEPT ![<<i, j>>] = Append(@, m)]

\* The token sendTerminateToken() starts.
NewToken(i) == Token(i, i, "FIRST_CYCLE")

amTerminator(i) == terminatorStatus[i] # "SLAVE"

Init ==
    /\ terminatorStatus = [i \in SM |-> IF i = 0 THEN "TERMINATOR_IDLE" ELSE "SLAVE"]
    /\ completeFlag = [i \in SM |-> FALSE]
    /\ idleSinceLastToken = [i \in SM |-> TRUE]
    /\ status \in [SM -> InitialStatus]
    /\ pc = [i \in SM |-> "head"]
    /\ had = [i \in SM |-> FALSE]
    /\ work \in [SM -> 0 .. 1]
    /\ scheduled = 0
    /\ chan = [c \in SM \X SM |-> <<>>]

-----------------------------------------------------------------------------
(***************************************************************************)
(* simulate(): while (!simulationComplete()) { getMessages();              *)
(* executeObjects(); }.                                                    *)
(***************************************************************************)
\* The loop condition; terminateSimulation() sends a token when this manager
\* is the terminator and none is out, whatever else it has to do.
LoopHead(i) ==
    /\ pc[i] = "head"
    /\ IF completeFlag[i]
       THEN /\ pc' = [pc EXCEPT ![i] = "done"]
            /\ UNCHANGED <<terminatorStatus, chan>>
       ELSE /\ pc' = [pc EXCEPT ![i] = "messages"]
            /\ IF terminatorStatus[i] = "TERMINATOR_IDLE"
               THEN /\ terminatorStatus' = [terminatorStatus EXCEPT ![i] = "TERMINATOR_PROCESSING"]
                    /\ chan' = Send(chan, i, Peer(i), NewToken(i))
               ELSE UNCHANGED <<terminatorStatus, chan>>
    /\ UNCHANGED <<completeFlag, idleSinceLastToken, status, had, work, scheduled>>

\* checkPhysicalLayerForMessages() finds nothing more: getMessages() returns
\* into executeObjects(), or executeObjects() looks for its next event.
StopPolling(i) ==
    /\ pc[i] \in {"messages", "inner"}
    /\ pc'  = [pc EXCEPT ![i] = "execute"]
    /\ had' = [had EXCEPT ![i] = pc[i] = "inner"]
    /\ UNCHANGED <<termVars, work, scheduled, chan>>

\* Slip: executeObjects() does not see that the event set is empty.
AlwaysNextEvent(i) == TRUE

\* peekNextEvent() finds an event.
HasNextEvent(i) == work[i] > 0

\* executeObjects() executes one event, which may schedule another.
ExecuteEvent(i) ==
    /\ pc[i] = "execute"
    /\ HasNextEvent(i)
    /\ \/ /\ work' = [work EXCEPT ![i] = @ - 1]
          /\ UNCHANGED <<scheduled, chan>>
       \/ /\ scheduled < MaxEvents
          /\ <<i, i>> \in Routes
          /\ scheduled' = scheduled + 1
          /\ UNCHANGED <<work, chan>>
       \/ /\ scheduled < MaxEvents
          /\ scheduled' = scheduled + 1
          /\ work' = [work EXCEPT ![i] = @ - 1]
          /\ \E j \in SM \ {i} : <<i, j>> \in Routes /\ chan' = Send(chan, i, j, EventMsg)
    /\ pc' = [pc EXCEPT ![i] = "inner"]
    /\ UNCHANGED <<termVars, had>>

\* executeObjects() returns; setStatusActive() or setStatusPassive().
ExecuteObjectsReturns(i) ==
    /\ pc[i] = "execute"
    /\ ~HasNextEvent(i)
    /\ pc' = [pc EXCEPT ![i] = "head"]
    /\ status' = [status EXCEPT ![i] = IF had[i] THEN "ACTIVE" ELSE "IDLE"]
    /\ idleSinceLastToken' = [idleSinceLastToken EXCEPT ![i] = @ /\ ~had[i]]
    /\ UNCHANGED <<terminatorStatus, completeFlag, had, work, scheduled, chan>>

-----------------------------------------------------------------------------
(***************************************************************************)
(* Message handlers.  A manager reads the channels only while it polls.    *)
(***************************************************************************)
CanRead(i, j) == pc[i] \in {"messages", "inner"} /\ chan[<<j, i>>] # <<>>

\* TimeWarpSimulationManager::receiveKernelMessage(): setStatusActive() first.
ReceiveEvent(i, j) ==
    /\ CanRead(i, j)
    /\ Head(chan[<<j, i>>]).type = "event"
    /\ chan' = [chan EXCEPT ![<<j, i>>] = Tail(@)]
    /\ work' = [work EXCEPT ![i] = @ + 1]
    /\ status' = [status EXCEPT ![i] = "ACTIVE"]
    /\ idleSinceLastToken' = [idleSinceLastToken EXCEPT ![i] = FALSE]
    /\ UNCHANGED <<terminatorStatus, completeFlag, loopVars, scheduled>>

\* A token with one of the given states is at the head of the channel.
TokenAt(i, j, states) ==
    /\ CanRead(i, j)
    /\ Head(chan[<<j, i>>]).type = "token"
    /\ Head(chan[<<j, i>>]).state \in states

\* Slip: a manager counts as idle since the token, whatever its status.
TokenHandledIdle(i) ==
    /\ idleSinceLastToken' = [idleSinceLastToken EXCEPT ![i] = TRUE]
    /\ UNCHANGED <<status, loopVars, work, scheduled>>

\* What every branch of handleTerminateToken() ends with.
TokenHandled(i) ==
    /\ idleSinceLastToken' = [idleSinceLastToken EXCEPT ![i] = status[i] # "ACTIVE"]
    /\ UNCHANGED <<status, loopVars, work, scheduled>>

\* simulationComplete(): also how a slave passes the news on.
DeclareComplete(i, ch) ==
    /\ completeFlag' = [completeFlag EXCEPT ![i] = TRUE]
    /\ chan' = Send(ch, i, Peer(i), Token(i, i, "SIMULATION_COMPLETE"))
    /\ UNCHANGED terminatorStatus

\* Slip: the cycle is given up but the terminator still waits for its token.
CancelCycleStillWaiting(i, ch) ==
    /\ chan' = ch
    /\ UNCHANGED <<terminatorStatus, completeFlag>>

\* cancelCycle(): the terminator has been active itself.
CancelCycle(i, ch) ==
    /\ terminatorStatus' = [terminatorStatus EXCEPT ![i] = "TERMINATOR_IDLE"]
    /\ chan' = ch
    /\ UNCHANGED completeFlag

\* The token is back at the terminator.
TerminatorGetsToken(i, j) ==
    /\ TokenAt(i, j, {"FIRST_CYCLE", "SECOND_CYCLE"})
    /\ amTerminator(i)
    /\ LET m  == Head(chan[<<j, i>>])
           ch == [chan EXCEPT ![<<j, i>>] = Tail(@)]
       IN  \/ /\ ~idleSinceLastToken[i]
              /\ CancelCycle(i, ch)
           \/ /\ idleSinceLastToken[i]
              /\ m.state = "FIRST_CYCLE"
              /\ chan' = Send(ch, i, Peer(i), Token(i, i, "SECOND_CYCLE"))
              /\ UNCHANGED <<terminatorStatus, completeFlag>>
           \/ /\ idleSinceLastToken[i]
              /\ m.state = "SECOND_CYCLE"
              /\ DeclareComplete(i, ch)
    /\ TokenHandled(i)

\* A slave passes the token on (circulateToken) or sends it back to the
\* terminator tainted (taintToken).
SlaveGetsToken(i, j) ==
    /\ TokenAt(i, j, {"FIRST_CYCLE", "SECOND_CYCLE"})
    /\ ~amTerminator(i)
    /\ LET m  == Head(chan[<<j, i>>])
           ch == [chan EXCEPT ![<<j, i>>] = Tail(@)]
       IN  chan' = IF idleSinceLastToken[i]
                   THEN Send(ch, i, Peer(i), Token(i, m.terminator, m.state))
                   ELSE Send(ch, i, m.terminator, Token(i, m.terminator, "CANCEL_CYCLE"))
    /\ TokenHandled(i)
    /\ UNCHANGED <<terminatorStatus, completeFlag>>

\* retireTerminator(): hand the role to whoever tainted the token.
RetireTerminator(i, j) ==
    /\ TokenAt(i, j, {"CANCEL_CYCLE"})
    /\ amTerminator(i)
    /\ LET m == Head(chan[<<j, i>>])
       IN  chan' = Send([chan EXCEPT ![<<j, i>>] = Tail(@)], i, m.from,
                        Token(i, m.from, "BECOME_TERMINATOR"))
    /\ terminatorStatus' = [terminatorStatus EXCEPT ![i] = "SLAVE"]
    /\ TokenHandled(i)
    /\ UNCHANGED completeFlag

BecomeTerminator(i, j) ==
    /\ TokenAt(i, j, {"BECOME_TERMINATOR"})
    /\ ~amTerminator(i)
    /\ terminatorStatus' = [terminatorStatus EXCEPT ![i] = "TERMINATOR_IDLE"]
    /\ chan' = [chan EXCEPT ![<<j, i>>] = Tail(@)]
    /\ TokenHandled(i)
    /\ UNCHANGED completeFlag

\* SIMULATION_COMPLETE: nothing to do for the terminator, passed on by a slave.
ReceiveComplete(i, j) ==
    /\ TokenAt(i, j, {"SIMULATION_COMPLETE"})
    /\ LET ch == [chan EXCEPT ![<<j, i>>] = Tail(@)]
       IN  \/ /\ amTerminator(i)
              /\ chan' = ch
              /\ UNCHANGED <<terminatorStatus, completeFlag>>
           \/ /\ ~amTerminator(i)
              /\ DeclareComplete(i, ch)
    /\ TokenHandled(i)

\* The remaining combinations end in abort() (slave) or are ignored
\* (terminator); OneDetection below says they do not arise.
Receive(i, j) ==
    \/ ReceiveEvent(i, j)
    \/ TerminatorGetsToken(i, j)
    \/ SlaveGetsToken(i, j)
    \/ RetireTerminator(i, j)
    \/ BecomeTerminator(i, j)
    \/ ReceiveComplete(i, j)

Loop(i) ==
    \/ LoopHead(i)
    \/ StopPolling(i)
    \/ ExecuteEvent(i)
    \/ ExecuteObjectsReturns(i)

Next == \E i \in SM : Loop(i) \/ \E j \in SM : Receive(i, j)

Spec == Init /\ [][Next]_vars

(***************************************************************************)
(* Fairness.  The main loop keeps running, and a message that is sent is   *)
(* eventually found by a manager that keeps polling.                       *)
(***************************************************************************)
FairSpec ==
    /\ Spec
    /\ \A i \in SM : WF_vars(Loop(i))
    /\ \A i, j \in SM : SF_vars(Receive(i, j))

-----------------------------------------------------------------------------
(***************************************************************************)
(* Properties.                                                             *)
(***************************************************************************)
\* Types of the state.
TypeOK ==
    /\ terminatorStatus \in [SM -> {"SLAVE", "TERMINATOR_IDLE", "TERMINATOR_PROCESSING"}]
    /\ completeFlag \in [SM -> BOOLEAN]
    /\ idleSinceLastToken \in [SM -> BOOLEAN]
    /\ status \in [SM -> {"IDLE", "ACTIVE"}]
    /\ pc \in [SM -> {"head", "messages", "execute", "inner", "done"}]
    /\ had \in [SM -> BOOLEAN]
    /\ work \in [SM -> Nat]
    /\ scheduled \in 0 .. MaxEvents
    /\ chan \in [SM \X SM -> Seq(Message)]

Quiet ==
    /\ \A i \in SM : work[i] = 0
    /\ \A c \in SM \X SM : EventMsg \notin Range(chan[c])

\* simulationCompleteFlag is raised only when no manager has an event left
\* and none is travelling ("uses token passing to determine if a simulation
\* has completed or not", TokenPassingTerminationManager.h).
NoPrematureCompletion == (\E i \in SM : completeFlag[i]) => Quiet

\* The token at position k of channel c, and the control states it may have.
IsToken(c, k, states) ==
    /\ k \in 1 .. Len(chan[c])
    /\ chan[c][k].type = "token"
    /\ chan[c][k].state \in states

\* Where the right to run a detection may be: in a travelling token, given by
\* its channel and position, or with an idle terminator.
ControlTokens ==
    UNION {{<<c, k>> : k \in {x \in DOMAIN chan[c] : IsToken(c, x, ControlStates)}} : c \in SM \X SM}

IdleTerminators == {i \in SM : terminatorStatus[i] = "TERMINATOR_IDLE"}

\* Until the simulation is declared complete the right to run a detection is
\* in exactly one place: with an idle terminator or in one travelling token.
\* If it got lost, nobody would ever detect termination.  The terminator role is
\* never held twice, and no token reaches a manager in the wrong role: a slave
\* never gets a CANCEL_CYCLE, where handleTerminateToken() aborts with "Invalid
\* terminator token received, simulation corrupt", and the terminator never
\* gets a BECOME_TERMINATOR, which it would ignore.
OneDetection ==
    /\ Cardinality(ControlTokens) + Cardinality(IdleTerminators) =
         IF \E i \in SM : completeFlag[i] THEN 0 ELSE 1
    /\ \A i, j \in SM : amTerminator(i) /\ amTerminator(j) => i = j
    /\ \A c \in SM \X SM : \A k \in DOMAIN chan[c] :
          /\ IsToken(c, k, {"CANCEL_CYCLE"}) => amTerminator(c[2])
          /\ IsToken(c, k, {"BECOME_TERMINATOR"}) => ~amTerminator(c[2])

\* Once the application has stopped scheduling events, every manager leaves
\* simulate().
SimulationEnds == <>(\A i \in SM : pc[i] = "done")
=============================================================================
