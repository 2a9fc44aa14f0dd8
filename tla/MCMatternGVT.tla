---------------------------- MODULE MCMatternGVT ----------------------------
(* Instances of MatternGVT for TLC. *)
EXTENDS MatternGVT

\* Every object may schedule events for every other.
AllRoutes == SM \X SM

\* Manager 1 sends to manager 0 against the direction of the token ring.
AgainstTheRing == {<<0, 0>>, <<1, 1>>, <<1, 0>>}
=============================================================================
