------------------------ MODULE MCSnapshotScheduler -------------------------
(* SnapshotScheduler for TLC; the values are in the cfg.                   *)
EXTENDS SnapshotScheduler
=============================================================================
