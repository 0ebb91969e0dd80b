------------------------- MODULE RewardManager_proofs -------------------------
(***************************************************************************)
(* Proofs about the fee and reward accounting of RewardManager.sol.       *)
(* OperatorPaidNotAboveEarned is proved for every set of chain bases,     *)
(* operators and stakers, all share counts, fees and percentages.  The    *)
(* stakers' part of the accounting, StakersPaidNotAboveCredited, is a     *)
(* statement about sums over functions (SumFunction), whose lemmas need   *)
(* induction over finite sets: it stays with TLC.                         *)
(***************************************************************************)
EXTENDS RewardManager, TLAPS

USE RewardAssumption

\* The variables of an operator's account, and the stake percentage the
\* fee split reads, have their types.
OperatorTypes ==
  /\ operatorRewards \in [Operators -> Nat]
  /\ paid \in [Operators -> Nat]
  /\ earned \in [Operators -> Nat]
  /\ stakePercent \in Nat

\* What payFee credited to an operator covers what it was paid and what it
\* can still claim; a failed value call loses the claim, so the two may
\* fall short of the credit (OperatorPaidInFull does not hold).
CreditCovers ==
  \A o \in Operators : paid[o] + operatorRewards[o] <= earned[o]

\* The inductive invariant of OperatorPaidNotAboveEarned.
OpInv == OperatorTypes /\ CreditCovers

-----------------------------------------------------------------------------
(* The fee split of payFee (42-47) yields naturals when it is not         *)
(* reverted: the shares are divided by a positive total and the operator  *)
(* fee is computed after the checked subtraction.                          *)
LEMMA FeeSplit ==
  ASSUME NEW fee \in Nat, NEW os \in Nat, NEW ts \in Nat, ts > 0,
         NEW pc \in Nat, NEW total, NEW stake,
         total = (fee * os) \div ts,
         stake = (total * pc) \div 100,
         stake <= total
  PROVE  total - stake \in Nat
<1>1. fee * os \in Nat
  OBVIOUS
<1>2. total \in Nat
  BY <1>1
<1>3. total * pc \in Nat
  BY <1>2
<1>4. stake \in Nat
  BY <1>3
<1> QED
  BY <1>2, <1>4

LEMMA InitOpInv == Init => OpInv
BY DEF Init, OpInv, OperatorTypes, CreditCovers

LEMMA OpInvStep == OpInv /\ [Next]_vars => OpInv'
<1> SUFFICES ASSUME OpInv, [Next]_vars PROVE OpInv'
  OBVIOUS
<1> USE DEF OpInv, OperatorTypes, CreditCovers
<1>1. ASSUME NEW v \in Deposits, Receive(v) PROVE OpInv'
  BY <1>1 DEF Receive, history
<1>2. ASSUME NEW c \in ChainBases, NEW o \in Operators, NEW fee \in Fees,
             PayFee(c, o, fee)
      PROVE  OpInv'
  <2> DEFINE operatorTotalFee == (fee * OperatorShares[o]) \div TotalShares[c]
             stakeFee == (operatorTotalFee * stakePercent) \div 100
             operatorFee == operatorTotalFee - stakeFee
  <2>1. /\ TotalShares[c] > 0 /\ stakeFee <= operatorTotalFee
        /\ operatorRewards' = [operatorRewards EXCEPT ![o] = operatorFee]
        /\ earned' = [earned EXCEPT ![o] = @ + operatorFee]
        /\ UNCHANGED <<stakePercent, paid>>
    BY <1>2 DEF PayFee
  <2>2. operatorFee \in Nat
    BY <2>1, FeeSplit DEF OperatorTypes
  <2> QED
    BY <2>1, <2>2
<1>3. ASSUME NEW o \in Operators, NEW ok \in BOOLEAN,
             OperatorClaimReward(o, ok)
      PROVE  OpInv'
  <2>1. /\ operatorRewards' = [operatorRewards EXCEPT ![o] = 0]
        /\ UNCHANGED <<stakePercent, earned>>
    BY <1>3 DEF OperatorClaimReward
  <2>2. CASE ok
    <3>1. paid' = [paid EXCEPT ![o] = @ + operatorRewards[o]]
      BY <1>3, <2>2 DEF OperatorClaimReward
    <3> QED
      BY <2>1, <3>1
  <2>3. CASE ~ok
    <3>1. UNCHANGED paid
      BY <1>3, <2>3 DEF OperatorClaimReward
    <3> QED
      BY <2>1, <3>1
  <2> QED
    BY <2>2, <2>3
<1>4. ASSUME NEW s \in Stakers, NEW c \in ChainBases, NEW ok \in BOOLEAN,
             StakeHolderClaimReward(s, c, ok)
      PROVE  OpInv'
  BY <1>4 DEF StakeHolderClaimReward
<1>5. ASSUME NEW p \in Percents, UpdateStakePercent(p) PROVE OpInv'
  BY <1>5 DEF UpdateStakePercent, history
<1>6. CASE UNCHANGED vars
  BY <1>6 DEF vars, history
<1> QED
  BY <1>1, <1>2, <1>3, <1>4, <1>5, <1>6 DEF Next

-----------------------------------------------------------------------------
(* No operator is ever paid more than the operator fees payFee credited   *)
(* to it, whatever the shares, fees, percentages and outcomes of the      *)
(* value calls: operatorClaimReward (68-88) zeroes the reward before it   *)
(* sends it, and payFee adds to earned exactly what it sets the reward    *)
(* to.  This is OperatorPaidNotAboveEarned, which the reward run checks.  *)
THEOREM OperatorPaymentSafety == Spec => []OperatorPaidNotAboveEarned
<1>1. Init => OpInv
  BY InitOpInv
<1>2. OpInv /\ [Next]_vars => OpInv'
  BY OpInvStep
<1>3. OpInv => OperatorPaidNotAboveEarned
  BY DEF OpInv, OperatorTypes, CreditCovers, OperatorPaidNotAboveEarned
<1> QED
  BY <1>1, <1>2, <1>3, PTL DEF Spec
=============================================================================
