--------------------------- MODULE MC_NodeLifecycle ---------------------------
(* Small instances of NodeLifecycle for TLC; constants are set in the     *)
(* Node_*.cfg files.                                                       *)
EXTENDS NodeLifecycle
=============================================================================
