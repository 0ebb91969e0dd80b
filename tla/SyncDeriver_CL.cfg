CONSTANTS
  MaxL2 = 3
  MaxFaults = 2
  ManagedMode = FALSE
  SafeDBEnabled = TRUE
  SyncMode = "CLSync"
  ELLatest = 3
  MaxBatch = 2
  L1SigCap = 1
  Word = 256
SPECIFICATION Spec
INVARIANT TypeOK
INVARIANT DBNotAhead
INVARIANT IInv
INVARIANT DBComplete
INVARIANT RecordInv
PROPERTY ResetCompletes
PROPERTY AbsSpec
