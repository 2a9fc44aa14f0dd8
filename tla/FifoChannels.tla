---------------------------- MODULE FifoChannels ----------------------------
(* What the kernel expects of a physical communication layer: between two      *)
(* communicators messages arrive once each and in the order they were sent.    *)
(* The k-th message of a channel is represented by its number k.  Every other  *)
(* module that has channels between simulation managers rests on this one.     *)
EXTENDS Naturals, Sequences

CONSTANT N                  \* number of communicators

VARIABLES sent,             \* sent[i][j]: number of messages i handed over for j
          delivered         \* delivered[j][i]: what j was given from i

vars == <<sent, delivered>>

Id == 0..(N - 1)

Init == /\ sent = [i \in Id |-> [j \in Id |-> 0]]
        /\ delivered = [j \in Id |-> [i \in Id |-> <<>>]]

\* physicalSend()
Send(i, j) == /\ i # j
              /\ sent' = [sent EXCEPT ![i][j] = @ + 1]
              /\ UNCHANGED delivered

\* physicalProbeRecv() returns a message
Deliver(i, j) ==
    /\ Len(delivered[j][i]) < sent[i][j]
    /\ delivered' = [delivered EXCEPT ![j][i] = Append(@, Len(@) + 1)]
    /\ UNCHANGED sent

Next == \E i, j \in Id : Send(i, j) \/ Deliver(i, j)

Spec == Init /\ [][Next]_vars
=============================================================================
