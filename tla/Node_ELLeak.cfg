CONSTANTS
  ELSyncMode = TRUE
  CancelSet = TRUE
  MaxFaults = 1
  MaxStops = 1
  Users = {"loop", "gossip"}
SPECIFICATION Spec
INVARIANT NoSilentLeak
CHECK_DEADLOCK FALSE
