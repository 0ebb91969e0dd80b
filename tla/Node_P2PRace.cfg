CONSTANTS
  ELSyncMode = FALSE
  CancelSet = TRUE
  MaxFaults = 0
  MaxStops = 1
  Users = {"loop", "gossip"}
SPECIFICATION Spec
INVARIANT NoP2PUseAfterClose
CHECK_DEADLOCK FALSE
