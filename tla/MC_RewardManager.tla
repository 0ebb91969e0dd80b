-------------------------- MODULE MC_RewardManager ---------------------------
(* One chain base, two operators and two stakers with unequal shares.     *)
EXTENDS RewardManager

MC_TotalShares == [c \in ChainBases |-> 4]
MC_OperatorShares == [o \in Operators |-> 2]
MC_StakerShares == [s \in Stakers |-> IF s = "s1" THEN 1 ELSE 3]
=============================================================================
