----------------------- MODULE SyncDeriverHeads_proofs -----------------------
(***************************************************************************)
(* SyncDeriver implements ForkChoiceProtocol, for every value of the      *)
(* constants that satisfies ConstAssumption and WordAssumption.           *)
(*                                                                         *)
(* The refinement step needs the heads ordered before the step (an engine *)
(* reset picks its new safe head from finalized .. safe - 1, which is in   *)
(* the protocol's finalized .. safe only because finalized <= safe) and   *)
(* typed after it (an inserted unsafe head is a natural): HeadsSafety and  *)
(* TypeCorrect give both.                                                  *)
(***************************************************************************)
EXTENDS SyncDeriver_proofs

USE ConstAssumption, WordAssumption

LEMMA HeadsStutter ==
  UNCHANGED <<unsafe, safe, finalized>> => [Heads!HNext]_Heads!headVars
BY DEF Heads!headVars

\* A step that only raises the unsafe head is the protocol's Extend.
LEMMA ExtendStep ==
  ASSUME unsafe' \in Nat, unsafe' >= unsafe, UNCHANGED <<safe, finalized>>
  PROVE  [Heads!HNext]_Heads!headVars
BY DEF Heads!HNext, Heads!Extend

(* Each step of the driver moves the heads as a protocol step or not at   *)
(* all.                                                                    *)
LEMMA HeadsRefStep ==
  TypeOK /\ TypeOK' /\ HeadsOrdered /\ [Next]_vars
    => [Heads!HNext]_Heads!headVars
<1> SUFFICES ASSUME TypeOK, TypeOK', HeadsOrdered, [Next]_vars
             PROVE  [Heads!HNext]_Heads!headVars
  OBVIOUS
<1>t. unsafe \in Nat /\ safe \in Nat /\ finalized \in Nat /\ unsafe' \in Nat
  BY DEF TypeOK, Blocks
<1>1. CASE StartSyncTick
  <2> DEFINE startH == unsafe + 1
             endH   == Clamp(startH, ELLatest, MaxBatch)
  <2>1. endH \in Int
    BY <1>t, ClampInt
  <2>2. unsafe' >= unsafe /\ UNCHANGED <<safe, finalized>>
    BY <1>1, <1>t, <2>1 DEF StartSyncTick, InsertRange, LastFetched, MinOf
  <2> QED
    BY <1>t, <2>2, ExtendStep
<1>2. CASE LoopAltSyncTick
  <2> DEFINE startH == unsafe + 1
             endH   == Clamp(startH, ELLatest, MaxBatch)
  <2>1. endH \in Int
    BY <1>t, ClampInt
  <2>2. unsafe' >= unsafe /\ UNCHANGED <<safe, finalized>>
    BY <1>2, <1>t, <2>1
    DEF LoopAltSyncTick, InsertRange, LastFetched, MinOf, MaxOf
  <2> QED
    BY <1>t, <2>2, ExtendStep
<1>3. CASE LoopUnsafePayload
  <2>1. unsafe' >= unsafe /\ UNCHANGED <<safe, finalized>>
    BY <1>3, <1>t DEF LoopUnsafePayload
  <2> QED
    BY <1>t, <2>1, ExtendStep
<1>4. CASE OnReceivedUnsafePayload
  <2>1. unsafe' >= unsafe /\ UNCHANGED <<safe, finalized>>
    BY <1>4, <1>t DEF OnReceivedUnsafePayload
  <2> QED
    BY <1>t, <2>1, ExtendStep
<1>5. CASE OnPendingSafeRequest
  <2>1. CASE safe' = safe + 1 /\ unsafe' = MaxOf(unsafe, safe + 1)
    <3>1. Heads!Derive
      BY <1>5, <2>1, <1>t DEF OnPendingSafeRequest, MaxOf, Heads!Derive
    <3> QED
      BY <3>1 DEF Heads!HNext
  <2>2. CASE UNCHANGED <<unsafe, safe>>
    BY <1>5, <2>2, HeadsStutter DEF OnPendingSafeRequest
  <2> QED
    BY <1>5, <2>1, <2>2 DEF OnPendingSafeRequest
<1>6. CASE OnResetEngineRequest
  <2>1. PICK x \in IF safe > finalized THEN finalized .. safe - 1 ELSE {safe} :
          safe' = x /\ unsafe' \in x .. unsafe
    BY <1>6 DEF OnResetEngineRequest
  <2>2. x \in finalized .. safe
    BY <2>1, <1>t DEF HeadsOrdered
  <2>3. Heads!Reset
    BY <1>6, <2>1, <2>2 DEF OnResetEngineRequest, Heads!Reset
  <2> QED
    BY <2>3 DEF Heads!HNext
<1>7. CASE OnFinalizeL1
  <2>1. Heads!Finalize
    BY <1>7 DEF OnFinalizeL1, Heads!Finalize
  <2> QED
    BY <2>1 DEF Heads!HNext
<1>8. CASE HeadsFixed
  BY <1>8, HeadsFixedKeep, HeadsStutter
<1>9. CASE UNCHANGED vars
  BY <1>9, HeadsStutter DEF vars
<1> QED
  BY <1>1, <1>2, <1>3, <1>4, <1>5, <1>6, <1>7, <1>8, <1>9
  DEF Next, Handle, Loop, HeadsFixed

(* The driver implements the fork-choice protocol, for every bound: the  *)
(* EL-sync insertions of Driver.Start and the loop (syncUnsafeBlocks      *)
(* 565-604, checkSyncUnsafeBlocks 606-645, the payload case 263-280) and  *)
(* CL-sync insertion only extend the unsafe head, a pending-safe step     *)
(* derives one block, the engine reset walks back within finalized .. safe *)
(* and the finalizer only moves forward.  This is HeadsSpec, which        *)
(* el_heads and managed_db_safety check.                                   *)
THEOREM HeadsRefinement == Spec => HeadsSpec
<1>1. Init => Heads!HInit
  BY DEF Init, Heads!HInit, Genesis, Blocks
<1>2. TypeOK /\ TypeOK' /\ HeadsOrdered /\ [Next]_vars
        => [Heads!HNext]_Heads!headVars
  BY HeadsRefStep
<1> QED
  BY <1>1, <1>2, TypeCorrect, HeadsSafety, PTL DEF Spec, HeadsSpec, Heads!HSpec
=============================================================================
