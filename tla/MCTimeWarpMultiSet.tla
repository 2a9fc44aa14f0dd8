------------------------ MODULE MCTimeWarpMultiSet ------------------------
(* An instance of TimeWarpMultiSet for TLC. *)
EXTENDS TimeWarpMultiSet

E(o, t, i, s) == [obj |-> o, recv |-> t, id |-> i, sender |-> s]

\* Two objects; ties in receive time, and in receive time and event id.
Events == {E(1, 1, 1, 1), E(1, 1, 1, 2), E(1, 2, 2, 1), E(1, 3, 0, 2), E(2, 1, 3, 1), E(2, 2, 3, 2)}
=============================================================================
