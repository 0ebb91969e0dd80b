CONSTANTS
  ELSyncMode = FALSE
  CancelSet = TRUE
  MaxFaults = 1
  MaxStops = 2
  Users = {"loop", "gossip"}
SPECIFICATION Spec
INVARIANT NoSilentLeak
CHECK_DEADLOCK FALSE
