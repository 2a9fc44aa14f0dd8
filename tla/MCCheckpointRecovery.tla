------------------------ MODULE MCCheckpointRecovery ------------------------
(* Instances of CheckpointRecovery for TLC. *)
EXTENDS CheckpointRecovery
=============================================================================
