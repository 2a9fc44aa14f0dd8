-------------------------- MODULE GlobalVirtualTime --------------------------
(***************************************************************************)
(* What any GVT manager of WARPED promises to the rest of the kernel.      *)
(*                                                                         *)
(* "floor" is the exact global virtual time: the lowest receive time of    *)
(* an event that is not processed yet or is still travelling between two   *)
(* simulation managers.  "gvt[i]" is what GVTManager::getGVT() answers on  *)
(* simulation manager i.  Fossil collection throws away everything below   *)
(* it and TimeWarpSimulationManager::rollback aborts the run when it is    *)
(* asked to go below it, so the estimate may only move up and never past   *)
(* the floor.                                                              *)
(***************************************************************************)
EXTENDS Integers

CONSTANT SM                 \* identities of the simulation managers

VARIABLES floor, gvt

vars == <<floor, gvt>>

Init ==
    /\ floor \in Nat
    /\ gvt = [i \in SM |-> 0]

\* The simulation makes progress: time never runs backwards globally, even
\* though every single object may be rolled back.
Progress ==
    /\ floor' \in Nat
    /\ floor' >= floor
    /\ UNCHANGED gvt

\* One manager learns a better estimate.
Announce(i) ==
    /\ \E v \in gvt[i] .. floor : gvt' = [gvt EXCEPT ![i] = v]
    /\ UNCHANGED floor

Next == Progress \/ \E i \in SM : Announce(i)

Spec == Init /\ [][Next]_vars
=============================================================================
