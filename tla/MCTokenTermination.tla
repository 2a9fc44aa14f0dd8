------------------------- MODULE MCTokenTermination -------------------------
(* Instances of TokenTermination for TLC. *)
EXTENDS TokenTermination

\* Every object may schedule events for every other.
AllRoutes == SM \X SM

\* Events travel along the token ring only.
RingRoutes == {<<i, j>> \in SM \X SM : j \in {i, Peer(i)}}

\* Manager 1 sends to manager 0 past manager 2, which is next on the ring.
ChordRoutes == {<<1, 0>>}
=============================================================================
