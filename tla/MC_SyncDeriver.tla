---------------------------- MODULE MC_SyncDeriver ----------------------------
(* Small instances of SyncDeriver for TLC.                                 *)
EXTENDS SyncDeriver

=============================================================================
