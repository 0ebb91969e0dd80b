CONSTANTS
  ChainBases = {"c1"}
  Operators = {"o1", "o2"}
  Stakers = {"s1", "s2"}
  TotalShares <- MC_TotalShares
  OperatorShares <- MC_OperatorShares
  StakerShares <- MC_StakerShares
  Fees = {40, 100}
  Percents = {20, 50}
  Deposits = {100}
  MaxTx = 5
SPECIFICATION Spec
INVARIANT StakerFairShare
CHECK_DEADLOCK FALSE
