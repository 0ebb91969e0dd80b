---------------------------- MODULE RewardManager ----------------------------
(***************************************************************************)
(* The fee and reward accounting of RewardManager.sol                      *)
(* (src/packages/contracts-cpchain/src/core/pos/RewardManager.sol).        *)
(*                                                                         *)
(* Each transaction is one atomic step; a require that fails, and a        *)
(* checked-arithmetic underflow (Solidity 0.8), revert it and are a        *)
(* disabled step.  The value transfer of a claim is a low-level call whose *)
(* failure does not revert: the claim returns false.  A re-entrant claim   *)
(* from the recipient runs after the state update (the call is last), so   *)
(* it equals a later claim of the same sender and is not a separate step.  *)
(* Share counts are read from the delegation and deposit managers, which   *)
(* are outside the contract: they are constants of the model.  Amounts are *)
(* small naturals; uint256 overflow cannot occur at these sizes.           *)
(***************************************************************************)
EXTENDS Naturals, Functions

CONSTANTS
  ChainBases,      \* chain-base contracts
  Operators,       \* operators (msg.sender of operatorClaimReward)
  Stakers,         \* stakers (msg.sender of stakeHolderClaimReward)
  TotalShares,     \* ICpChainBase(chainBase).totalShares()
  OperatorShares,  \* delegationManager.operatorShares(operator)
  StakerShares,    \* cpChainDepositManager.stakerCpChainBaseShares(staker)
  Fees,            \* baseFee arguments of payFee
  Percents,        \* stakePercent values (initialize, updateStakePercent)
  Deposits,        \* values sent to receive()
  MaxTx            \* bound on the number of transactions

ASSUME RewardAssumption ==
  /\ TotalShares \in [ChainBases -> Nat]
  /\ OperatorShares \in [Operators -> Nat]
  /\ StakerShares \in [Stakers -> Nat]
  /\ Fees \subseteq Nat /\ Percents \subseteq Nat /\ Percents /= {}
  /\ Deposits \subseteq Nat /\ MaxTx \in Nat

VARIABLES
  chainBaseStakeRewards,  \* mapping(address => uint256)
  operatorRewards,        \* mapping(address => uint256)
  stakePercent,
  balance,                \* address(this).balance
  earned,                 \* history: operatorFee credited to each operator
  paid,                   \* history: value each operator received
  credited,               \* history: stakeFee credited to each chain base
  entitled,               \* history: each staker's share of the stakeFees
  received,               \* history: value each staker received
  txs

vars == <<chainBaseStakeRewards, operatorRewards, stakePercent, balance,
          earned, paid, credited, entitled, received, txs>>
history == <<earned, paid, credited, entitled, received>>

Tx == txs < MaxTx /\ txs' = txs + 1

\* _stakeHolderAmount (118-125).
StakeHolderAmount(s, c) ==
  IF StakerShares[s] = 0 \/ TotalShares[c] = 0 THEN 0
  ELSE (chainBaseStakeRewards[c] * StakerShares[s]) \div TotalShares[c]

-----------------------------------------------------------------------------
\* initialize (33-38) has run.
Init ==
  /\ chainBaseStakeRewards = [c \in ChainBases |-> 0]
  /\ operatorRewards = [o \in Operators |-> 0]
  /\ stakePercent \in Percents
  /\ balance = 0
  /\ earned = [o \in Operators |-> 0] /\ paid = [o \in Operators |-> 0]
  /\ credited = [c \in ChainBases |-> 0]
  /\ entitled = [s \in Stakers |-> 0] /\ received = [s \in Stakers |-> 0]
  /\ txs = 0

\* receive() (31).
Receive(v) ==
  /\ Tx /\ balance' = balance + v
  /\ UNCHANGED <<chainBaseStakeRewards, operatorRewards, stakePercent, history>>

\* payFee (40-66), called by the pay-fee manager.
PayFee(c, o, fee) ==
  LET operatorTotalFee == (fee * OperatorShares[o]) \div TotalShares[c]
      stakeFee         == (operatorTotalFee * stakePercent) \div 100
      operatorFee      == operatorTotalFee - stakeFee
  IN /\ Tx
     /\ TotalShares[c] > 0 /\ OperatorShares[o] > 0
     /\ stakeFee <= operatorTotalFee
     /\ chainBaseStakeRewards' = [chainBaseStakeRewards EXCEPT ![c] = stakeFee]
     /\ operatorRewards' = [operatorRewards EXCEPT ![o] = operatorFee]
     /\ earned' = [earned EXCEPT ![o] = @ + operatorFee]
     /\ credited' = [credited EXCEPT ![c] = @ + stakeFee]
     /\ entitled' = [s \in Stakers |->
                       entitled[s] + (stakeFee * StakerShares[s]) \div TotalShares[c]]
     /\ UNCHANGED <<stakePercent, balance, paid, received>>

\* Mutant: the operator's reward is not reset before the transfer.
OperatorClaimReward_noReset(o, ok) ==
  LET claimAmount == operatorRewards[o] IN
  /\ Tx
  /\ claimAmount > 0 /\ balance >= claimAmount
  /\ IF ok THEN balance' = balance - claimAmount
               /\ paid' = [paid EXCEPT ![o] = @ + claimAmount]
          ELSE UNCHANGED <<balance, paid>>
  /\ UNCHANGED <<chainBaseStakeRewards, operatorRewards, stakePercent, earned,
                 credited, entitled, received>>

\* operatorClaimReward (68-88); ok is the outcome of the value call.
OperatorClaimReward(o, ok) ==
  LET claimAmount == operatorRewards[o] IN
  /\ Tx
  /\ claimAmount > 0 /\ balance >= claimAmount
  /\ operatorRewards' = [operatorRewards EXCEPT ![o] = 0]
  /\ IF ok THEN balance' = balance - claimAmount
               /\ paid' = [paid EXCEPT ![o] = @ + claimAmount]
          ELSE UNCHANGED <<balance, paid>>
  /\ UNCHANGED <<chainBaseStakeRewards, stakePercent, earned, credited,
                 entitled, received>>

\* Mutant: the claimed amount is not deducted from the chain base's pool.
StakeHolderClaimReward_noDeduct(s, c, ok) ==
  LET amount == StakeHolderAmount(s, c) IN
  /\ Tx
  /\ amount > 0 /\ balance >= amount
  /\ amount <= chainBaseStakeRewards[c]
  /\ IF ok THEN balance' = balance - amount
               /\ received' = [received EXCEPT ![s] = @ + amount]
          ELSE UNCHANGED <<balance, received>>
  /\ UNCHANGED <<chainBaseStakeRewards, operatorRewards, stakePercent, earned,
                 paid, credited, entitled>>

\* stakeHolderClaimReward (90-112); the subtraction is checked.
StakeHolderClaimReward(s, c, ok) ==
  LET amount == StakeHolderAmount(s, c) IN
  /\ Tx
  /\ amount > 0 /\ balance >= amount
  /\ amount <= chainBaseStakeRewards[c]
  /\ chainBaseStakeRewards' = [chainBaseStakeRewards EXCEPT ![c] = @ - amount]
  /\ IF ok THEN balance' = balance - amount
               /\ received' = [received EXCEPT ![s] = @ + amount]
          ELSE UNCHANGED <<balance, received>>
  /\ UNCHANGED <<operatorRewards, stakePercent, earned, paid, credited, entitled>>

\* updateStakePercent (128-130), called by the reward manager.
UpdateStakePercent(p) ==
  /\ Tx /\ stakePercent' = p
  /\ UNCHANGED <<chainBaseStakeRewards, operatorRewards, balance, history>>

Next ==
  \/ \E v \in Deposits : Receive(v)
  \/ \E c \in ChainBases, o \in Operators, fee \in Fees : PayFee(c, o, fee)
  \/ \E o \in Operators, ok \in BOOLEAN : OperatorClaimReward(o, ok)
  \/ \E s \in Stakers, c \in ChainBases, ok \in BOOLEAN :
       StakeHolderClaimReward(s, c, ok)
  \/ \E p \in Percents : UpdateStakePercent(p)

Spec == Init /\ [][Next]_vars

-----------------------------------------------------------------------------
(* Properties.                                                             *)

(* No operator is ever paid more than the operator fees credited to it:   *)
(* operatorClaimReward resets the reward before the value call, so the    *)
(* same credit is never paid twice.                                        *)
OperatorPaidNotAboveEarned == \A o \in Operators : paid[o] <= earned[o]

(* The stakers of all chain bases together never receive more than the    *)
(* stake fees credited: each stakeHolderClaimReward reduces the pool it   *)
(* pays from, and payFee overwrites it with no more than it credits.       *)
StakersPaidNotAboveCredited == SumFunction(received) <= SumFunction(credited)

(* Every operator fee payFee credits (and reports in OperatorAndStakeReward) *)
(* is either paid to the operator or still claimable.                      *)
OperatorPaidInFull ==
  \A o \in Operators : paid[o] + operatorRewards[o] = earned[o]

(* A staker never receives more than its share, by the contract's own     *)
(* measure StakerShares / TotalShares, of the stake fees credited.        *)
StakerFairShare == \A s \in Stakers : received[s] <= entitled[s]

=============================================================================
