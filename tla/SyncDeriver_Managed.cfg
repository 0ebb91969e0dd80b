CONSTANTS
  MaxL2 = 3
  MaxFaults = 2
  ManagedMode = TRUE
  SafeDBEnabled = TRUE
  SyncMode = "CLSync"
  ELLatest = 3
  MaxBatch = 2
  L1SigCap = 1
  Word = 256
SPECIFICATION Spec
INVARIANT DBNotAhead
INVARIANT IInv
PROPERTY AbsSpec
