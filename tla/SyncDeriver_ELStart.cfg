CONSTANTS
  MaxL2 = 3
  MaxFaults = 0
  ManagedMode = FALSE
  SafeDBEnabled = FALSE
  SyncMode = "ELSync"
  ELLatest = 3
  MaxBatch = 2
  L1SigCap = 1
  Word = 256
SPECIFICATION Spec
INVARIANT SyncedAfterStart
