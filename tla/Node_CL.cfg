CONSTANTS
  ELSyncMode = FALSE
  CancelSet = TRUE
  MaxFaults = 2
  MaxStops = 1
  Users = {"loop", "gossip"}
SPECIFICATION Spec
INVARIANT NoSilentLeak
INVARIANT LeakInv
PROPERTY StopReturns
CHECK_DEADLOCK FALSE
PROPERTY ImplementsLifecycle
