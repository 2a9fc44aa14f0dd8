------------------------ MODULE MCReliableTransport ------------------------
(* Instances of ReliableTransport for TLC. *)
EXTENDS ReliableTransport

\* Messages one way only: acknowledgements are explicit.
ThreeOneWay == [i \in Id |-> [j \in Id |-> IF i < j THEN 3 ELSE 0]]

\* Messages both ways: acknowledgements are carried by messages too.
TwoAndOne == [i \in Id |-> [j \in Id |-> IF i = j THEN 0 ELSE IF i < j THEN 2 ELSE 1]]
=============================================================================
