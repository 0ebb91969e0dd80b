CONSTANTS
  MaxL2 = 3
  MaxFaults = 2
  ManagedMode = FALSE
  SafeDBEnabled = TRUE
  SyncMode = "ELSync"
  ELLatest = 3
  MaxBatch = 2
  L1SigCap = 1
  Word = 256
SPECIFICATION Spec
INVARIANT HeadsOrdered
PROPERTY UnsafeRewindsOnlyInReset
PROPERTY HeadsSpec
