--------------------------- MODULE MCCheckpoints ---------------------------
(* Instances of Checkpoints for TLC. *)
EXTENDS Checkpoints, TLC

\* No object is treated in a way of its own.
Interchangeable == Permutations(Object)
=============================================================================
