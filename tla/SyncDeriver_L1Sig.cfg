CONSTANTS
  MaxL2 = 1
  MaxFaults = 0
  ManagedMode = FALSE
  SafeDBEnabled = FALSE
  SyncMode = "CLSync"
  ELLatest = 1
  MaxBatch = 2
  L1SigCap = 10
  Word = 256
SPECIFICATION Spec
PROPERTY L1HeadSignalsConsumed
