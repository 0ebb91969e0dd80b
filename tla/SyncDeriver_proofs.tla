-------------------------- MODULE SyncDeriver_proofs --------------------------
(***************************************************************************)
(* Proofs about SyncDeriver, for every value of the constants that         *)
(* satisfies ConstAssumption and WordAssumption.                           *)
(*                                                                         *)
(* TypeOK is proved in two halves: the Boolean flags (whose steps Zenon    *)
(* proves) and the data (numbers, the database and the event bus, proved  *)
(* by SMT).  Where a handler has alternatives, Zenon first extracts which *)
(* events it may append and how each counter may change, and SMT then      *)
(* does the arithmetic on those facts alone.                               *)
(***************************************************************************)
EXTENDS SyncDeriver, SequenceTheorems, TLAPS

USE ConstAssumption, WordAssumption

\* The Boolean-valued state of the driver.
Flags ==
  /\ sched \in BOOLEAN /\ syncing \in BOOLEAN /\ ready \in BOOLEAN
  /\ started \in BOOLEAN /\ l1Dropped \in BOOLEAN

\* The rest of TypeOK: block numbers, counters, database and event bus.
Data ==
  /\ queue \in Seq(Event)
  /\ step \in 0 .. 3
  /\ unsafe \in Blocks /\ safe \in Blocks /\ finalized \in Blocks
  /\ db \subseteq Blocks
  /\ resetBase \in Blocks
  /\ faults \in 0 .. MaxFaults
  /\ l1HeadBuf \in 0 .. L1SigCap

(* TypeOK is the conjunction of the two halves.                            *)
LEMMA TypeSplit == TypeOK <=> Data /\ Flags
BY Zenon DEF TypeOK, Data, Flags

(* clamp (state.go 647-657) yields an integer for integer arguments, so   *)
(* the batch end of syncUnsafeBlocks and checkSyncUnsafeBlocks is one.    *)
LEMMA ClampInt ==
  ASSUME NEW a \in Int, NEW b \in Int, NEW c \in Int
  PROVE  Clamp(a, b, c) \in Int
BY DEF Clamp, U64, I64, BigUint64

(* A handler that consumes the head of a well-typed bus and appends       *)
(* events leaves a well-typed bus.                                         *)
LEMMA ConsumeType ==
  ASSUME queue \in Seq(Event), queue /= << >>, NEW evs \in Seq(Event),
         Consume(evs)
  PROVE  queue' \in Seq(Event)
BY DEF Consume

(* The initial states of the driver are well typed.                        *)
LEMMA InitType == Init => Data /\ Flags
<1> SUFFICES ASSUME Init PROVE Data /\ Flags
  OBVIOUS
<1>1. db \subseteq Blocks
  <2>1. PICK k \in -1 .. MaxL2 : db = 0 .. k
    BY DEF Init
  <2> QED
    BY <2>1 DEF Blocks
<1>2. queue \in Seq(Event)
  BY DEF Init, Ev, Event, Kinds, Blocks
<1>3. /\ step \in 0 .. 3 /\ faults \in 0 .. MaxFaults
      /\ unsafe \in Blocks /\ safe \in Blocks /\ finalized \in Blocks
      /\ resetBase \in Blocks /\ l1HeadBuf \in 0 .. L1SigCap
  BY DEF Init, Blocks, Genesis
<1>4. Flags
  BY Zenon DEF Init, Flags
<1> QED
  BY <1>1, <1>2, <1>3, <1>4 DEF Data

(* No step of the driver gives a flag a non-Boolean value.                 *)
LEMMA FlagsStep == Flags /\ [Next]_vars => Flags'
<1> SUFFICES ASSUME Flags, [Next]_vars PROVE Flags'
  OBVIOUS
<1> USE DEF Flags
<1>1. CASE StartSyncTick BY <1>1, Zenon DEF StartSyncTick
<1>2. CASE LoopSchedStep BY <1>2, Zenon DEF LoopSchedStep, engineVars
<1>3. CASE LoopAltSyncTick BY <1>3, Zenon DEF LoopAltSyncTick
<1>4. CASE LoopUnsafePayload BY <1>4, Zenon DEF LoopUnsafePayload
<1>5. CASE LoopStateReq BY <1>5, Zenon DEF LoopStateReq, engineVars
<1>6. CASE LoopForceReset BY <1>6, Zenon DEF LoopForceReset, engineVars
<1>7. CASE OnL1Head BY <1>7, Zenon DEF OnL1Head, engineVars
<1>8. CASE SupervisorReset BY <1>8, Zenon DEF SupervisorReset, engineVars
<1>9. CASE SyncStepResume BY <1>9, Zenon DEF SyncStepResume, engineVars
<1>10. CASE Handle
  BY <1>10, Zenon DEF Handle, OnStep, OnReset, OnRetry, OnDeriverIdle, OnEngineConfirmedReset,
  OnSafeDerived, OnStepReq, OnStepAttempt, OnResetStepBackoff, OnTryBackupUnsafeReorg,
  OnTryUpdateEngine, OnPendingSafeRequest, OnResetEngineRequest, OnConfirmPipelineReset,
  OnFinalizeL1, OnReceivedUnsafePayload, engineVars
<1>11. CASE UNCHANGED vars BY <1>11 DEF vars
<1> QED BY <1>1, <1>2, <1>3, <1>4, <1>5, <1>6, <1>7, <1>8, <1>9, <1>10, <1>11 DEF Next, Loop

(* No step of the driver takes a block number, counter, the database or   *)
(* the bus out of its type.                                                *)
LEMMA DataStep == Data /\ Flags /\ [Next]_vars => Data'
<1> SUFFICES ASSUME Data, Flags, [Next]_vars PROVE Data'
  OBVIOUS
<1> USE DEF Data, Blocks, engineVars
<1>a. /\ Ev("StepReq") \in Event /\ Ev("StepAttempt") \in Event
      /\ Ev("Step") \in Event /\ Ev("FinalizeL1") \in Event
      /\ Ev("ResetStepBackoff") \in Event /\ Ev("Reset") \in Event
      /\ Ev("ResetEngineRequest") \in Event
      /\ Ev("ConfirmPipelineReset") \in Event
      /\ Ev("TryBackupUnsafeReorg") \in Event
      /\ Ev("TryUpdateEngine") \in Event
      /\ Ev("PendingSafeRequest") \in Event
      /\ Ev("DeriverIdle") \in Event /\ Ev("ProvideL1Traversal") \in Event
      /\ Ev("L1TemporaryError") \in Event
      /\ Ev("EngineTemporaryError") \in Event
  BY DEF Ev, Event, Kinds
<1>b. LoopPre \in Seq(Event)
  BY <1>a DEF LoopPre
<1>c. queue /= << >> => Tail(queue) \in Seq(Event)
  OBVIOUS
<1>d. /\ \A e \in Event : <<e>> \in Seq(Event)
      /\ \A e, f \in Event : <<e, f>> \in Seq(Event)
      /\ << >> \in Seq(Event)
  OBVIOUS
<1>1. CASE StartSyncTick
  <2> DEFINE startH == unsafe + 1
             endH   == Clamp(startH, ELLatest, MaxBatch)
  <2>1. endH \in Int
    BY ClampInt
  <2> QED
    BY <1>1, <2>1 DEF StartSyncTick, InsertRange, LastFetched, MinOf
<1>2. CASE LoopSchedStep
  BY <1>2, <1>a, <1>b DEF LoopSchedStep, engineVars
<1>3. CASE LoopAltSyncTick
  <2> DEFINE startH == unsafe + 1
             endH   == Clamp(startH, ELLatest, MaxBatch)
  <2>1. endH \in Int
    BY ClampInt
  <2>2. queue' = LoopPre
        /\ UNCHANGED <<step, safe, finalized, db, resetBase, l1HeadBuf>>
    BY <1>3, Zenon DEF LoopAltSyncTick
  <2>3. faults' \in 0 .. MaxFaults
    BY <1>3 DEF LoopAltSyncTick, CanFail, Fail
  <2>4. unsafe' \in Blocks
    BY <1>3, <2>1 DEF LoopAltSyncTick, InsertRange, LastFetched, MinOf, MaxOf
  <2> QED
    BY <1>b, <2>2, <2>3, <2>4
<1>4. CASE LoopUnsafePayload
  <2>1. \A n \in 1 .. MaxL2 :
          LoopPre \o <<EvRef("ReceivedUnsafePayload", n), Ev("StepReq")>> \in Seq(Event)
    BY <1>a, <1>b DEF EvRef, Event, Kinds
  <2>2. PICK n \in 1 .. MaxL2 :
          IF SyncMode = "CLSync" \/ ~syncing
            THEN /\ queue' = LoopPre \o <<EvRef("ReceivedUnsafePayload", n),
                                          Ev("StepReq")>>
                 /\ UNCHANGED unsafe
            ELSE /\ queue' = LoopPre
                 /\ unsafe' = IF n <= unsafe THEN unsafe ELSE n
    BY <1>4 DEF LoopUnsafePayload
  <2>3. CASE SyncMode = "CLSync" \/ ~syncing
    BY <1>4, <2>1, <2>2, <2>3 DEF LoopUnsafePayload
  <2>4. CASE ~(SyncMode = "CLSync" \/ ~syncing)
    BY <1>4, <1>b, <2>2, <2>4 DEF LoopUnsafePayload
  <2> QED
    BY <2>3, <2>4
<1>5. CASE LoopStateReq
  BY <1>5, <1>b DEF LoopStateReq, engineVars
<1>6. CASE LoopForceReset
  BY <1>6, <1>b DEF LoopForceReset, engineVars
<1>7. CASE OnL1Head
  BY <1>7 DEF OnL1Head, engineVars
<1>8. CASE SupervisorReset
  BY <1>8, <1>a DEF SupervisorReset, engineVars
<1>9. CASE SyncStepResume
  <2>1. UNCHANGED <<sched, engineVars, ready, db, resetBase, faults, started,
                    l1HeadBuf, l1Dropped>>
    BY <1>9, Zenon DEF SyncStepResume
  <2>2. step = 1 \/ step = 2 \/ step = 3
    BY <1>9 DEF SyncStepResume
  <2>3. \/ queue' = <<Ev("TryBackupUnsafeReorg")>> /\ step' = 2
        \/ queue' = <<Ev("TryUpdateEngine")>> /\ step' = 3
        \/ queue' = <<Ev("ResetStepBackoff")>> /\ step' = 0
        \/ queue' = <<Ev("PendingSafeRequest")>> /\ step' = 0
    BY <1>9, <2>2, Zenon DEF SyncStepResume
  <2>4. queue' \in Seq(Event) /\ step' \in {0, 2, 3}
    BY <1>a, <1>d, <2>3, Zenon
  <2> QED
    BY <2>1, <2>4
<1>10. CASE OnStep
  BY <1>10, <1>c DEF OnStep, Handling, Consume
<1>11. CASE OnReset
  BY <1>11, <1>a, <1>c DEF OnReset, Handling, Consume
<1>12. CASE OnRetry
  BY <1>12, <1>a, <1>c DEF OnRetry, Handling, Consume
<1>13. CASE OnDeriverIdle
  BY <1>13, <1>a, <1>c DEF OnDeriverIdle, Handling, Consume
<1>14. CASE OnEngineConfirmedReset
  <2>1. Head(queue) \in Event
    BY <1>14 DEF OnEngineConfirmedReset, Handling
  <2>2. Head(queue).ref \in Blocks
    BY <2>1 DEF Event
  <2>3. /\ queue /= << >>
        /\ Consume(<< >>) \/ Consume(<<Ev("ConfirmPipelineReset")>>)
    BY <1>14, Zenon DEF OnEngineConfirmedReset, Handling
  <2>4. /\ db' \subseteq db \cup {Genesis}
        /\ resetBase' \in {resetBase, Head(queue).ref}
        /\ faults' = faults \/ (faults < MaxFaults /\ faults' = faults + 1)
        /\ UNCHANGED <<step, engineVars, l1HeadBuf>>
    BY <1>14, Zenon DEF OnEngineConfirmedReset, CanFail, Fail
  <2>5. queue' \in Seq(Event)
    BY <1>a, <1>d, <2>3, ConsumeType, Zenon
  <2> QED
    BY <2>2, <2>4, <2>5 DEF Genesis
<1>15. CASE OnSafeDerived
  <2>1. Head(queue) \in Event
    BY <1>15 DEF OnSafeDerived, Handling
  <2>2. Head(queue).ref \in Blocks
    BY <2>1 DEF Event
  <2>3. /\ queue /= << >>
        /\ Consume(<< >>) \/ Consume(<<Ev("Reset")>>)
    BY <1>15, Zenon DEF OnSafeDerived, Handling
  <2>4. /\ db' \subseteq db \cup {Head(queue).ref}
        /\ faults' = faults \/ (faults < MaxFaults /\ faults' = faults + 1)
        /\ UNCHANGED <<step, engineVars, resetBase, l1HeadBuf>>
    BY <1>15, Zenon DEF OnSafeDerived, CanFail, Fail
  <2>5. queue' \in Seq(Event)
    BY <1>a, <1>d, <2>3, ConsumeType, Zenon
  <2> QED
    BY <2>2, <2>4, <2>5
<1>16. CASE OnStepReq
  BY <1>16, <1>c DEF OnStepReq, Handling, Consume, engineVars
<1>17. CASE OnStepAttempt
  BY <1>17, <1>a, <1>c DEF OnStepAttempt, Handling, Consume, engineVars
<1>18. CASE OnResetStepBackoff
  BY <1>18, <1>c DEF OnResetStepBackoff, Handling, Consume, engineVars
<1>19. CASE OnTryBackupUnsafeReorg
  BY <1>19, <1>c DEF OnTryBackupUnsafeReorg, Handling, Consume, engineVars
<1>20. CASE OnTryUpdateEngine
  <2>1. /\ queue /= << >>
        /\ \/ Consume(<< >>)
           \/ Consume(<<Ev("EngineTemporaryError")>>)
           \/ Consume(<<Ev("Reset")>>)
    BY <1>20, Zenon DEF OnTryUpdateEngine, Handling
  <2>2. /\ faults' = faults \/ (faults < MaxFaults /\ faults' = faults + 1)
        /\ UNCHANGED <<step, unsafe, safe, finalized, db, resetBase, l1HeadBuf>>
    BY <1>20, Zenon DEF OnTryUpdateEngine, CanFail, Fail
  <2>3. queue' \in Seq(Event)
    BY <1>a, <1>d, <2>1, ConsumeType, Zenon
  <2> QED
    BY <2>2, <2>3
<1>21. CASE OnPendingSafeRequest
  <2>1. safe < MaxL2 => EvRef("SafeDerived", safe + 1) \in Event
    BY DEF EvRef, Event, Kinds
  <2>2. /\ queue /= << >>
        /\ \/ safe < MaxL2
              /\ Consume(<<EvRef("SafeDerived", safe + 1), Ev("StepReq")>>)
           \/ Consume(<<Ev("Reset")>>)
           \/ Consume(<<Ev("DeriverIdle")>>)
           \/ Consume(<<Ev("ProvideL1Traversal")>>)
           \/ Consume(<<Ev("L1TemporaryError")>>)
           \/ Consume(<<Ev("EngineTemporaryError")>>)
    BY <1>21, Zenon DEF OnPendingSafeRequest, Handling
  <2>3. /\ \/ /\ safe < MaxL2
              /\ safe' = safe + 1 /\ unsafe' = MaxOf(unsafe, safe + 1)
           \/ UNCHANGED <<unsafe, safe>>
        /\ faults' = faults \/ (faults < MaxFaults /\ faults' = faults + 1)
        /\ UNCHANGED <<step, finalized, db, resetBase, l1HeadBuf>>
    BY <1>21, Zenon DEF OnPendingSafeRequest, CanFail, Fail
  <2>4. queue' \in Seq(Event)
    BY <1>a, <1>d, <2>1, <2>2, ConsumeType, Zenon
  <2> QED
    BY <2>3, <2>4 DEF MaxOf
<1>22. CASE OnResetEngineRequest
  <2>1. \A x \in 0 .. MaxL2 : EvRef("EngineResetConfirmed", x) \in Event
    BY DEF EvRef, Event, Kinds
  <2> QED
    BY <1>22, <1>c, <2>1 DEF OnResetEngineRequest, Handling, Consume
<1>23. CASE OnConfirmPipelineReset
  BY <1>23, <1>c DEF OnConfirmPipelineReset, Handling, Consume, engineVars
<1>24. CASE OnFinalizeL1
  BY <1>24, <1>c DEF OnFinalizeL1, Handling, Consume
<1>25. CASE OnReceivedUnsafePayload
  <2>1. Head(queue) \in Event
    BY <1>25 DEF OnReceivedUnsafePayload, Handling
  <2>2. Head(queue).ref \in Blocks
    BY <2>1 DEF Event
  <2> QED
    BY <1>25, <1>c, <2>2 DEF OnReceivedUnsafePayload, Handling, Consume
<1>26. CASE UNCHANGED vars
  BY <1>26 DEF vars
<1> QED
  BY <1>1, <1>2, <1>3, <1>4, <1>5, <1>6, <1>7, <1>8, <1>9, <1>10, <1>11,
     <1>12, <1>13, <1>14, <1>15, <1>16, <1>17, <1>18, <1>19, <1>20, <1>21,
     <1>22, <1>23, <1>24, <1>25, <1>26
  DEF Next, Handle, Loop
-----------------------------------------------------------------------------
(* The type invariant holds in every reachable state of the driver.        *)
THEOREM TypeCorrect == Spec => []TypeOK
<1>1. Init => Data /\ Flags
  BY InitType
<1>2. Data /\ Flags /\ [Next]_vars => (Data /\ Flags)'
  BY FlagsStep, DataStep
<1>3. Data /\ Flags => TypeOK
  BY TypeSplit
<1> QED
  BY <1>1, <1>2, <1>3, PTL DEF Spec

-----------------------------------------------------------------------------
(* The engine's heads.  No step moves the unsafe head down except an      *)
(* engine reset, which never takes it below the new safe head; the safe   *)
(* head moves up only with the unsafe head and down only to a block at or *)
(* above the finalized head; the finalized head never passes the safe    *)
(* head.                                                                   *)

(* The steps that do not touch the engine's heads.                       *)
HeadsFixed ==
  \/ OnStep \/ OnReset \/ OnRetry \/ OnDeriverIdle
  \/ OnEngineConfirmedReset \/ OnSafeDerived \/ OnStepReq
  \/ OnStepAttempt \/ OnResetStepBackoff \/ OnTryBackupUnsafeReorg
  \/ OnTryUpdateEngine \/ OnConfirmPipelineReset \/ SyncStepResume
  \/ LoopSchedStep \/ LoopStateReq \/ LoopForceReset
  \/ OnL1Head \/ SupervisorReset

(* They leave the unsafe, safe and finalized heads alone.                 *)
LEMMA HeadsFixedKeep == HeadsFixed => UNCHANGED <<unsafe, safe, finalized>>
<1> SUFFICES ASSUME HeadsFixed PROVE UNCHANGED <<unsafe, safe, finalized>>
  OBVIOUS
<1>1. CASE OnStep
  BY <1>1 DEF OnStep, engineVars
<1>2. CASE OnReset
  BY <1>2 DEF OnReset, engineVars
<1>3. CASE OnRetry
  BY <1>3 DEF OnRetry, engineVars
<1>4. CASE OnDeriverIdle
  BY <1>4 DEF OnDeriverIdle, engineVars
<1>5. CASE OnEngineConfirmedReset
  BY <1>5 DEF OnEngineConfirmedReset, engineVars
<1>6. CASE OnSafeDerived
  BY <1>6 DEF OnSafeDerived, engineVars
<1>7. CASE OnStepReq
  BY <1>7 DEF OnStepReq, engineVars
<1>8. CASE OnStepAttempt
  BY <1>8 DEF OnStepAttempt, engineVars
<1>9. CASE OnResetStepBackoff
  BY <1>9 DEF OnResetStepBackoff, engineVars
<1>10. CASE OnTryBackupUnsafeReorg
  BY <1>10 DEF OnTryBackupUnsafeReorg, engineVars
<1>11. CASE OnTryUpdateEngine
  BY <1>11 DEF OnTryUpdateEngine, engineVars
<1>12. CASE OnConfirmPipelineReset
  BY <1>12 DEF OnConfirmPipelineReset, engineVars
<1>13. CASE SyncStepResume
  BY <1>13 DEF SyncStepResume, engineVars
<1>14. CASE LoopSchedStep
  BY <1>14 DEF LoopSchedStep, engineVars
<1>15. CASE LoopStateReq
  BY <1>15 DEF LoopStateReq, engineVars
<1>16. CASE LoopForceReset
  BY <1>16 DEF LoopForceReset, engineVars
<1>17. CASE OnL1Head
  BY <1>17 DEF OnL1Head, engineVars
<1>18. CASE SupervisorReset
  BY <1>18 DEF SupervisorReset, engineVars
<1> QED
  BY <1>1, <1>2, <1>3, <1>4, <1>5, <1>6, <1>7, <1>8, <1>9, <1>10,
     <1>11, <1>12, <1>13, <1>14, <1>15, <1>16, <1>17, <1>18 DEF HeadsFixed

(* Every step keeps the heads ordered.                                     *)
LEMMA HeadsStep ==
  TypeOK /\ HeadsOrdered /\ [Next]_vars => HeadsOrdered'
<1> SUFFICES ASSUME TypeOK, HeadsOrdered, [Next]_vars PROVE HeadsOrdered'
  OBVIOUS
<1> USE DEF TypeOK, HeadsOrdered, Blocks
<1>1. CASE StartSyncTick
  <2> DEFINE startH == unsafe + 1
             endH   == Clamp(startH, ELLatest, MaxBatch)
  <2>1. endH \in Int
    BY ClampInt
  <2> QED
    BY <1>1, <2>1 DEF StartSyncTick, InsertRange, LastFetched, MinOf
<1>2. CASE LoopAltSyncTick
  <2> DEFINE startH == unsafe + 1
             endH   == Clamp(startH, ELLatest, MaxBatch)
  <2>1. endH \in Int
    BY ClampInt
  <2> QED
    BY <1>2, <2>1 DEF LoopAltSyncTick, InsertRange, LastFetched, MinOf, MaxOf
<1>3. CASE LoopUnsafePayload
  BY <1>3 DEF LoopUnsafePayload
<1>4. CASE OnPendingSafeRequest
  BY <1>4 DEF OnPendingSafeRequest, MaxOf
<1>5. CASE OnResetEngineRequest
  BY <1>5 DEF OnResetEngineRequest
<1>6. CASE OnFinalizeL1
  BY <1>6 DEF OnFinalizeL1
<1>7. CASE OnReceivedUnsafePayload
  BY <1>7 DEF OnReceivedUnsafePayload
<1>8. CASE HeadsFixed
  BY <1>8, HeadsFixedKeep
<1>10. CASE UNCHANGED vars
  BY <1>10 DEF vars
<1> QED
  BY <1>1, <1>2, <1>3, <1>4, <1>5, <1>6, <1>7, <1>8, <1>10
  DEF Next, Handle, Loop, HeadsFixed

(* I1 of the spec, finalized <= safe <= unsafe, holds in every reachable  *)
(* state for every bound: the engine reset of the reset protocol          *)
(* (onResetEvent, state.go 410-420) walks the safe head back no further   *)
(* than the finalized head and the unsafe head no further than the new    *)
(* safe head, and the EL-sync paths of Driver.Start and the loop          *)
(* (syncUnsafeBlocks 565-604, checkSyncUnsafeBlocks 606-645 and the       *)
(* payload case 270) only insert blocks above the unsafe head.  This is   *)
(* HeadsOrdered, which el_heads checks.                                    *)
THEOREM HeadsSafety == Spec => []HeadsOrdered
<1>1. Init => HeadsOrdered
  BY DEF Init, HeadsOrdered, Genesis, Blocks
<1>2. TypeOK /\ HeadsOrdered /\ [Next]_vars => HeadsOrdered'
  BY HeadsStep
<1> QED
  BY <1>1, <1>2, TypeCorrect, PTL DEF Spec

(* A step that is not an engine reset never lowers the unsafe head.      *)
LEMMA UnsafeStep ==
  TypeOK /\ [Next]_vars => (unsafe' < unsafe => Handling("ResetEngineRequest"))
<1> SUFFICES ASSUME TypeOK, [Next]_vars, unsafe' < unsafe
             PROVE  Handling("ResetEngineRequest")
  OBVIOUS
<1> USE DEF TypeOK, Blocks
<1>1. CASE StartSyncTick
  <2> DEFINE startH == unsafe + 1
             endH   == Clamp(startH, ELLatest, MaxBatch)
  <2>1. endH \in Int
    BY ClampInt
  <2> QED
    BY <1>1, <2>1 DEF StartSyncTick, InsertRange, LastFetched, MinOf
<1>2. CASE LoopAltSyncTick
  <2> DEFINE startH == unsafe + 1
             endH   == Clamp(startH, ELLatest, MaxBatch)
  <2>1. endH \in Int
    BY ClampInt
  <2> QED
    BY <1>2, <2>1 DEF LoopAltSyncTick, InsertRange, LastFetched, MinOf, MaxOf
<1>3. CASE LoopUnsafePayload
  BY <1>3 DEF LoopUnsafePayload
<1>4. CASE OnPendingSafeRequest
  BY <1>4 DEF OnPendingSafeRequest, MaxOf
<1>5. CASE OnResetEngineRequest
  BY <1>5 DEF OnResetEngineRequest
<1>6. CASE OnReceivedUnsafePayload
  BY <1>6 DEF OnReceivedUnsafePayload
<1>7. CASE OnFinalizeL1
  BY <1>7 DEF OnFinalizeL1
<1>8. CASE HeadsFixed
  BY <1>8, HeadsFixedKeep
<1>9. CASE UNCHANGED vars
  BY <1>9 DEF vars
<1> QED
  BY <1>1, <1>2, <1>3, <1>4, <1>5, <1>6, <1>7, <1>8, <1>9
  DEF Next, Handle, Loop, HeadsFixed

(* Only the engine reset of the reset protocol moves the unsafe head      *)
(* back: the EL-sync insertions of Driver.Start and the loop              *)
(* (syncUnsafeBlocks, checkSyncUnsafeBlocks, the payload case at 270) and *)
(* CL-sync's payload insertion never lower it, for every bound.  This is  *)
(* UnsafeRewindsOnlyInReset, which el_heads checks.                        *)
THEOREM UnsafeRewindSafety == Spec => UnsafeRewindsOnlyInReset
<1>1. TypeOK /\ [Next]_vars
        => [unsafe' < unsafe => Handling("ResetEngineRequest")]_vars
  BY UnsafeStep
<1> QED
  BY <1>1, TypeCorrect, PTL DEF Spec, UnsafeRewindsOnlyInReset

-----------------------------------------------------------------------------
(* The event bus.  Handlers consume the head of the bus and append their  *)
(* events; the lemmas below say how that keeps or changes the chain facts *)
(* of IInv.                                                                *)

(* Tail of a non-empty bus: one shorter, shifted by one.                  *)
LEMMA TailShape ==
  ASSUME NEW q \in Seq(Event), q /= << >>
  PROVE  /\ Tail(q) \in Seq(Event)
         /\ Len(Tail(q)) = Len(q) - 1
         /\ \A i \in 1 .. Len(q) - 1 : Tail(q)[i] = q[i + 1]
BY HeadTailProperties

(* When the head of the bus is a chain event, the rest of the bus holds   *)
(* none (there is at most one).                                             *)
LEMMA HeadChainTailFree ==
  ASSUME NEW q \in Seq(Event), q /= << >>, AtMostOneChain(q),
         q[1].kind \in ChainKinds
  PROVE  ChainFree(Tail(q))
BY TailShape DEF AtMostOneChain, ChainFree

(* Consuming the head keeps the chain facts of the rest of the bus.        *)
LEMMA TailKeeps ==
  ASSUME NEW q \in Seq(Event), q /= << >>, NEW h
  PROVE  /\ AtMostOneChain(q) => AtMostOneChain(Tail(q))
         /\ ChainFree(q) => ChainFree(Tail(q))
         /\ RefsAre(q, h) => RefsAre(Tail(q), h)
         /\ HasConfirm(Tail(q)) => HasConfirm(q)
<1>1. /\ Len(Tail(q)) = Len(q) - 1
      /\ \A i \in 1 .. Len(q) - 1 : Tail(q)[i] = q[i + 1]
  BY TailShape
<1>2. AtMostOneChain(q) => AtMostOneChain(Tail(q))
  BY <1>1 DEF AtMostOneChain
<1>3. ChainFree(q) => ChainFree(Tail(q))
  BY <1>1 DEF ChainFree
<1>4. RefsAre(q, h) => RefsAre(Tail(q), h)
  BY <1>1 DEF RefsAre
<1>5. HasConfirm(Tail(q)) => HasConfirm(q)
  BY <1>1 DEF HasConfirm
<1> QED
  BY <1>2, <1>3, <1>4, <1>5

(* Appending events: how the chain facts of the two parts combine.         *)
LEMMA CatKeeps ==
  ASSUME NEW a \in Seq(Event), NEW b \in Seq(Event), NEW h
  PROVE  /\ ChainFree(a) /\ AtMostOneChain(b) => AtMostOneChain(a \o b)
         /\ AtMostOneChain(a) /\ ChainFree(b) => AtMostOneChain(a \o b)
         /\ ChainFree(a) /\ ChainFree(b) => ChainFree(a \o b)
         /\ RefsAre(a, h) /\ RefsAre(b, h) => RefsAre(a \o b, h)
         /\ HasConfirm(a \o b) => HasConfirm(a) \/ HasConfirm(b)
<1>1. /\ Len(a \o b) = Len(a) + Len(b)
      /\ \A i \in 1 .. Len(a) + Len(b) : (a \o b)[i] =
                     IF i <= Len(a) THEN a[i] ELSE b[i - Len(a)]
  BY ConcatProperties
<1>2. ChainFree(a) /\ AtMostOneChain(b) => AtMostOneChain(a \o b)
  <2> SUFFICES ASSUME ChainFree(a), AtMostOneChain(b),
                      NEW i \in 1 .. Len(a \o b), NEW j \in 1 .. Len(a \o b),
                      (a \o b)[i].kind \in ChainKinds,
                      (a \o b)[j].kind \in ChainKinds
               PROVE  i = j
    BY DEF AtMostOneChain
  <2>1. i > Len(a) /\ j > Len(a)
    BY <1>1 DEF ChainFree
  <2>2. b[i - Len(a)].kind \in ChainKinds /\ b[j - Len(a)].kind \in ChainKinds
    BY <1>1, <2>1
  <2> QED
    BY <1>1, <2>1, <2>2 DEF AtMostOneChain
<1>3. AtMostOneChain(a) /\ ChainFree(b) => AtMostOneChain(a \o b)
  BY <1>1 DEF ChainFree, AtMostOneChain
<1>4. ChainFree(a) /\ ChainFree(b) => ChainFree(a \o b)
  BY <1>1 DEF ChainFree
<1>5. RefsAre(a, h) /\ RefsAre(b, h) => RefsAre(a \o b, h)
  BY <1>1 DEF RefsAre
<1>6. HasConfirm(a \o b) => HasConfirm(a) \/ HasConfirm(b)
  BY <1>1 DEF HasConfirm
<1> QED
  BY <1>2, <1>3, <1>4, <1>5, <1>6

(* A sequence without chain events trivially satisfies the chain facts.   *)
LEMMA FreeFacts ==
  ASSUME NEW s \in Seq(Event), ChainFree(s), NEW h
  PROVE  AtMostOneChain(s) /\ RefsAre(s, h) /\ ~HasConfirm(s)
BY DEF ChainFree, AtMostOneChain, RefsAre, HasConfirm, ChainKinds

(* A handler that appends no chain event keeps the chain facts of the bus. *)
LEMMA FreeStep ==
  ASSUME NEW q \in Seq(Event), q /= << >>, AtMostOneChain(q),
         NEW evs \in Seq(Event), ChainFree(evs), NEW h
  PROVE  /\ AtMostOneChain(Tail(q) \o evs)
         /\ RefsAre(q, h) => RefsAre(Tail(q) \o evs, h)
         /\ HasConfirm(Tail(q) \o evs) => HasConfirm(q)
<1>1. /\ Tail(q) \in Seq(Event)
      /\ AtMostOneChain(Tail(q))
      /\ RefsAre(q, h) => RefsAre(Tail(q), h)
      /\ HasConfirm(Tail(q)) => HasConfirm(q)
  BY TailShape, TailKeeps
<1>2. RefsAre(evs, h) /\ ~HasConfirm(evs)
  BY FreeFacts
<1> QED
  BY <1>1, <1>2, CatKeeps

(* A handler of a chain event leaves only the chain events it appends.     *)
LEMMA ChainStep ==
  ASSUME NEW q \in Seq(Event), q /= << >>, AtMostOneChain(q),
         q[1].kind \in ChainKinds,
         NEW evs \in Seq(Event), AtMostOneChain(evs), NEW h
  PROVE  /\ AtMostOneChain(Tail(q) \o evs)
         /\ RefsAre(evs, h) => RefsAre(Tail(q) \o evs, h)
         /\ HasConfirm(Tail(q) \o evs) => HasConfirm(evs)
<1>1. Tail(q) \in Seq(Event) /\ ChainFree(Tail(q))
  BY TailShape, HeadChainTailFree
<1>2. RefsAre(Tail(q), h) /\ ~HasConfirm(Tail(q))
  BY <1>1, FreeFacts
<1> QED
  BY <1>1, <1>2, CatKeeps
(* A handler that appends no chain event and touches neither the database *)
(* nor the safe head nor readiness keeps the chain part of IInv.            *)
LEMMA FreeHandler ==
  ASSUME IInv, queue /= << >>, NEW evs \in Seq(Event), ChainFree(evs),
         Consume(evs), UNCHANGED <<db, safe, ready>>
  PROVE  /\ AtMostOneChainEvent' /\ QueuedRefsAreSafe'
         /\ ConfirmAfterTruncate' /\ DBNotAhead'
<1>1. queue \in Seq(Event) /\ AtMostOneChain(queue) /\ RefsAre(queue, safe)
  BY DEF IInv, TypeOK, AtMostOneChainEvent, QueuedRefsAreSafe
<1>2. /\ AtMostOneChain(queue') /\ RefsAre(queue', safe')
      /\ HasConfirm(queue') => HasConfirm(queue)
  BY <1>1, FreeStep DEF Consume
<1>3. ConfirmAfterTruncate'
  BY <1>2 DEF IInv, ConfirmAfterTruncate, DBBelowSafe
<1>4. DBNotAhead'
  BY DEF IInv, DBNotAhead
<1> QED
  BY <1>2, <1>3, <1>4 DEF AtMostOneChainEvent, QueuedRefsAreSafe

(* A handler of a chain event that appends at most one chain event, whose *)
(* references are the new safe head, keeps the bus facts of IInv.          *)
LEMMA ChainHandler ==
  ASSUME IInv, queue /= << >>, Head(queue).kind \in ChainKinds,
         NEW evs \in Seq(Event), AtMostOneChain(evs), RefsAre(evs, safe'),
         Consume(evs)
  PROVE  /\ AtMostOneChainEvent' /\ QueuedRefsAreSafe'
         /\ HasConfirm(queue') => HasConfirm(evs)
<1>1. queue \in Seq(Event) /\ AtMostOneChain(queue) /\ queue[1].kind \in ChainKinds
  BY DEF IInv, TypeOK, AtMostOneChainEvent
<1> QED
  BY <1>1, ChainStep DEF Consume, AtMostOneChainEvent, QueuedRefsAreSafe

(* The loop, SyncStep and the supervisor emit onto an empty bus; with the *)
(* database and safe head untouched and no pipeline made ready, IInv's    *)
(* chain part holds after.                                                 *)
LEMMA EmptyStep ==
  ASSUME IInv, queue = << >>, NEW evs \in Seq(Event), AtMostOneChain(evs),
         RefsAre(evs, safe), ~HasConfirm(evs), queue' = evs,
         UNCHANGED <<db, safe>>, ready' => ready
  PROVE  /\ AtMostOneChainEvent' /\ QueuedRefsAreSafe'
         /\ ConfirmAfterTruncate' /\ DBNotAhead'
<1>1. DBNotAhead'
  BY DEF IInv, DBNotAhead
<1> QED
  BY <1>1 DEF AtMostOneChainEvent, QueuedRefsAreSafe, ConfirmAfterTruncate
-----------------------------------------------------------------------------
(* The events the handlers and the loop construct.                        *)

(* The events Ev(k) are events of kind k.                                  *)
LEMMA EvFacts ==
  ASSUME NEW k \in Kinds
  PROVE  Ev(k) \in Event /\ Ev(k).kind = k /\ Ev(k).ref = 0
BY DEF Ev, Event, Blocks

(* The events EvRef(k, n) are events of kind k naming block n.           *)
LEMMA EvRefFacts ==
  ASSUME NEW k \in Kinds, NEW n \in Blocks
  PROVE  EvRef(k, n) \in Event /\ EvRef(k, n).kind = k /\ EvRef(k, n).ref = n
BY DEF EvRef, Event

(* One event that is not a chain event.                                     *)
LEMMA SingleFree ==
  ASSUME NEW e \in Event, e.kind \notin ChainKinds
  PROVE  <<e>> \in Seq(Event) /\ ChainFree(<<e>>)
BY DEF ChainFree

(* One event is at most one chain event.                                   *)
LEMMA SingleChain ==
  ASSUME NEW e \in Event, NEW h,
         e.kind \in {"SafeDerived", "EngineResetConfirmed"} => e.ref = h
  PROVE  /\ <<e>> \in Seq(Event) /\ AtMostOneChain(<<e>>)
         /\ RefsAre(<<e>>, h)
         /\ HasConfirm(<<e>>) => e.kind = "ConfirmPipelineReset"
BY DEF AtMostOneChain, RefsAre, HasConfirm

(* Two events of which at most one is a chain event.                       *)
LEMMA PairChain ==
  ASSUME NEW e \in Event, NEW f \in Event, NEW h,
         e.kind \notin ChainKinds \/ f.kind \notin ChainKinds,
         e.kind \in {"SafeDerived", "EngineResetConfirmed"} => e.ref = h,
         f.kind \in {"SafeDerived", "EngineResetConfirmed"} => f.ref = h,
         e.kind /= "ConfirmPipelineReset", f.kind /= "ConfirmPipelineReset"
  PROVE  /\ <<e, f>> \in Seq(Event) /\ AtMostOneChain(<<e, f>>)
         /\ RefsAre(<<e, f>>, h) /\ ~HasConfirm(<<e, f>>)
BY DEF AtMostOneChain, RefsAre, HasConfirm

(* The empty sequence holds no chain event.                                *)
LEMMA EmptyFacts == << >> \in Seq(Event) /\ ChainFree(<< >>)
BY DEF ChainFree

(* FinalizeL1 and StepReq, emitted each CLSync loop iteration, are no     *)
(* chain events.                                                             *)
LEMMA LoopPreFree == LoopPre \in Seq(Event) /\ ChainFree(LoopPre)
<1>1. /\ Ev("FinalizeL1") \in Event /\ Ev("FinalizeL1").kind \notin ChainKinds
      /\ Ev("StepReq") \in Event /\ Ev("StepReq").kind \notin ChainKinds
  BY DEF Ev, Event, Kinds, Blocks, ChainKinds
<1> QED
  BY <1>1 DEF LoopPre, ChainFree
(* A single non-chain event Ev(k).                                         *)
LEMMA FreeEv ==
  ASSUME NEW k \in Kinds \ ChainKinds
  PROVE  <<Ev(k)>> \in Seq(Event) /\ ChainFree(<<Ev(k)>>)
<1>1. Ev(k) \in Event /\ Ev(k).kind \notin ChainKinds
  BY EvFacts
<1> QED
  BY <1>1, SingleFree

\* The part of IInv beyond TypeOK.
CInv ==
  AtMostOneChainEvent /\ QueuedRefsAreSafe /\ ConfirmAfterTruncate /\ DBNotAhead

(* The empty sequence satisfies every chain fact.                          *)
LEMMA EmptyChain ==
  ASSUME NEW h
  PROVE  /\ << >> \in Seq(Event) /\ AtMostOneChain(<< >>)
         /\ RefsAre(<< >>, h) /\ ~HasConfirm(<< >>)
BY EmptyFacts, FreeFacts

(* A step that leaves bus, database, safe head and readiness keeps IInv.  *)
LEMMA Frozen ==
  ASSUME IInv, UNCHANGED <<queue, db, safe, ready>>
  PROVE  CInv'
BY DEF IInv, CInv, AtMostOneChainEvent, QueuedRefsAreSafe,
       ConfirmAfterTruncate, DBNotAhead, DBBelowSafe

(* The loop emits only non-chain events onto an empty bus.                 *)
LEMMA EmptyFree ==
  ASSUME IInv, queue = << >>, NEW evs \in Seq(Event), ChainFree(evs),
         queue' = evs, UNCHANGED <<db, safe>>, ready' => ready
  PROVE  CInv'
BY FreeFacts, EmptyStep DEF CInv

(* A chain handler that emits no confirmation and leaves the database,    *)
(* safe head and readiness alone keeps the chain part of IInv.             *)
LEMMA ChainQuiet ==
  ASSUME IInv, queue /= << >>, Head(queue).kind \in ChainKinds,
         NEW evs \in Seq(Event), AtMostOneChain(evs), RefsAre(evs, safe),
         ~HasConfirm(evs), Consume(evs), UNCHANGED <<db, safe, ready>>
  PROVE  CInv'
<1>1. /\ AtMostOneChainEvent' /\ QueuedRefsAreSafe'
      /\ HasConfirm(queue') => HasConfirm(evs)
  BY ChainHandler
<1> QED
  BY <1>1 DEF CInv, ConfirmAfterTruncate, IInv, DBNotAhead

(* Every step of the driver keeps the chain part of IInv: the heart of the *)
(* proof that the safe-head database is never ahead once derivation runs. *)
LEMMA CStep == IInv /\ [Next]_vars => CInv'
<1> SUFFICES ASSUME IInv, [Next]_vars PROVE CInv'
  OBVIOUS
<1> USE DEF CInv
<1>t. TypeOK
  BY DEF IInv
<1>1. CASE OnStep
  <2>1. queue /= << >> /\ Consume(<< >>) /\ UNCHANGED <<db, safe, ready>>
    BY <1>1, Zenon DEF OnStep, Handling, engineVars
  <2> QED
    BY <2>1, EmptyFacts, FreeHandler
<1>2. CASE OnRetry
  <2>1. queue /= << >> /\ Consume(<<Ev("StepReq")>>) /\ UNCHANGED <<db, safe, ready>>
    BY <1>2, Zenon DEF OnRetry, Handling, engineVars
  <2>2. <<Ev("StepReq")>> \in Seq(Event) /\ ChainFree(<<Ev("StepReq")>>)
    BY FreeEv DEF Kinds, ChainKinds
  <2> QED
    BY <2>1, <2>2, FreeHandler
<1>3. CASE OnDeriverIdle
  <2>1. queue /= << >> /\ Consume(<<Ev("ResetStepBackoff")>>) /\ UNCHANGED <<db, safe, ready>>
    BY <1>3, Zenon DEF OnDeriverIdle, Handling, engineVars
  <2>2. <<Ev("ResetStepBackoff")>> \in Seq(Event) /\ ChainFree(<<Ev("ResetStepBackoff")>>)
    BY FreeEv DEF Kinds, ChainKinds
  <2> QED
    BY <2>1, <2>2, FreeHandler
<1>4. CASE OnStepReq
  <2>1. queue /= << >> /\ Consume(<< >>) /\ UNCHANGED <<db, safe, ready>>
    BY <1>4, Zenon DEF OnStepReq, Handling, engineVars
  <2> QED
    BY <2>1, EmptyFacts, FreeHandler
<1>5. CASE OnStepAttempt
  <2>1. queue /= << >> /\ Consume(<<Ev("Step")>>) /\ UNCHANGED <<db, safe, ready>>
    BY <1>5, Zenon DEF OnStepAttempt, Handling, engineVars
  <2>2. <<Ev("Step")>> \in Seq(Event) /\ ChainFree(<<Ev("Step")>>)
    BY FreeEv DEF Kinds, ChainKinds
  <2> QED
    BY <2>1, <2>2, FreeHandler
<1>6. CASE OnResetStepBackoff
  <2>1. queue /= << >> /\ Consume(<< >>) /\ UNCHANGED <<db, safe, ready>>
    BY <1>6, Zenon DEF OnResetStepBackoff, Handling, engineVars
  <2> QED
    BY <2>1, EmptyFacts, FreeHandler
<1>7. CASE OnTryBackupUnsafeReorg
  <2>1. queue /= << >> /\ Consume(<< >>) /\ UNCHANGED <<db, safe, ready>>
    BY <1>7, Zenon DEF OnTryBackupUnsafeReorg, Handling, engineVars
  <2> QED
    BY <2>1, EmptyFacts, FreeHandler
<1>8. CASE OnFinalizeL1
  <2>1. queue /= << >> /\ Consume(<< >>) /\ UNCHANGED <<db, safe, ready>>
    BY <1>8, Zenon DEF OnFinalizeL1, Handling, engineVars
  <2> QED
    BY <2>1, EmptyFacts, FreeHandler
<1>9. CASE OnReceivedUnsafePayload
  <2>1. queue /= << >> /\ Consume(<< >>) /\ UNCHANGED <<db, safe, ready>>
    BY <1>9, Zenon DEF OnReceivedUnsafePayload, Handling, engineVars
  <2> QED
    BY <2>1, EmptyFacts, FreeHandler
<1>10. CASE OnReset
  <2>1. /\ queue /= << >> /\ Head(queue).kind \in ChainKinds
        /\ Consume(<< >>) \/ Consume(<<Ev("StepReq"), Ev("ResetEngineRequest")>>)
        /\ UNCHANGED <<db, safe, ready>>
    BY <1>10, Zenon DEF OnReset, Handling, engineVars, ChainKinds
  <2>2. LET p == <<Ev("StepReq"), Ev("ResetEngineRequest")>>
        IN  /\ p \in Seq(Event) /\ AtMostOneChain(p)
            /\ RefsAre(p, safe) /\ ~HasConfirm(p)
    <3>1. /\ Ev("StepReq") \in Event /\ Ev("StepReq").kind = "StepReq"
          /\ Ev("ResetEngineRequest") \in Event
          /\ Ev("ResetEngineRequest").kind = "ResetEngineRequest"
      BY EvFacts DEF Kinds
    <3> QED
      BY <3>1, PairChain DEF ChainKinds
  <2> QED
    BY <2>1, <2>2, EmptyChain, ChainQuiet
<1>11. CASE OnTryUpdateEngine
  <2>1. /\ queue /= << >> /\ Head(queue).kind \in ChainKinds
        /\ \/ Consume(<< >>)
           \/ Consume(<<Ev("EngineTemporaryError")>>)
           \/ Consume(<<Ev("Reset")>>)
        /\ UNCHANGED <<db, safe, ready>>
    BY <1>11, Zenon DEF OnTryUpdateEngine, Handling, ChainKinds
  <2>2. /\ <<Ev("EngineTemporaryError")>> \in Seq(Event)
        /\ AtMostOneChain(<<Ev("EngineTemporaryError")>>)
        /\ RefsAre(<<Ev("EngineTemporaryError")>>, safe)
        /\ ~HasConfirm(<<Ev("EngineTemporaryError")>>)
    BY FreeEv, FreeFacts DEF Kinds, ChainKinds
  <2>3. /\ <<Ev("Reset")>> \in Seq(Event)
        /\ AtMostOneChain(<<Ev("Reset")>>)
        /\ RefsAre(<<Ev("Reset")>>, safe)
        /\ ~HasConfirm(<<Ev("Reset")>>)
    <3>1. Ev("Reset") \in Event /\ Ev("Reset").kind = "Reset"
      BY EvFacts DEF Kinds
    <3> QED
      BY <3>1, SingleChain
  <2> QED
    BY <2>1, <2>2, <2>3, EmptyChain, ChainQuiet
<1>12. CASE OnEngineConfirmedReset
  <2>1. /\ queue /= << >> /\ Head(queue).kind = "EngineResetConfirmed"
        /\ UNCHANGED <<safe, ready>>
        /\ \/ Consume(<< >>) /\ db' \subseteq db
           \/ /\ Consume(<<Ev("ConfirmPipelineReset")>>)
              /\ db' \subseteq {n \in db : n <= Head(queue).ref} \cup {Genesis}
    BY <1>12, Zenon DEF OnEngineConfirmedReset, Handling, engineVars
  <2>2. Head(queue).ref = safe
    BY <1>t, <2>1 DEF IInv, QueuedRefsAreSafe, RefsAre, TypeOK
  <2>3. Head(queue).kind \in ChainKinds
    BY <2>1 DEF ChainKinds
  <2>4. CASE Consume(<< >>) /\ db' \subseteq db
    <3>1. /\ AtMostOneChainEvent' /\ QueuedRefsAreSafe'
          /\ HasConfirm(queue') => HasConfirm(<< >>)
      BY <2>1, <2>3, <2>4, EmptyChain, ChainHandler
    <3> QED
      BY <2>1, <2>4, <3>1, EmptyChain
      DEF ConfirmAfterTruncate, IInv, DBNotAhead
  <2>5. CASE /\ Consume(<<Ev("ConfirmPipelineReset")>>)
             /\ db' \subseteq {n \in db : n <= Head(queue).ref} \cup {Genesis}
    <3>1. /\ <<Ev("ConfirmPipelineReset")>> \in Seq(Event)
          /\ AtMostOneChain(<<Ev("ConfirmPipelineReset")>>)
          /\ RefsAre(<<Ev("ConfirmPipelineReset")>>, safe)
      <4>1. Ev("ConfirmPipelineReset") \in Event
            /\ Ev("ConfirmPipelineReset").kind = "ConfirmPipelineReset"
        BY EvFacts DEF Kinds
      <4> QED
        BY <4>1, SingleChain
    <3>2. AtMostOneChainEvent' /\ QueuedRefsAreSafe'
      BY <2>1, <2>3, <2>5, <3>1, ChainHandler
    <3>3. DBBelowSafe'
      BY <1>t, <2>1, <2>2, <2>5 DEF TypeOK, DBBelowSafe, Genesis, Blocks
    <3> QED
      BY <3>2, <3>3 DEF ConfirmAfterTruncate, DBNotAhead, DBBelowSafe
  <2> QED
    BY <2>1, <2>4, <2>5
<1>13. CASE OnSafeDerived
  <2>1. /\ queue /= << >> /\ Head(queue).kind = "SafeDerived"
        /\ UNCHANGED <<safe, ready>>
        /\ Consume(<< >>) \/ Consume(<<Ev("Reset")>>)
        /\ db' \subseteq db \cup {Head(queue).ref}
    BY <1>13, Zenon DEF OnSafeDerived, Handling, engineVars
  <2>2. Head(queue).ref = safe
    BY <1>t, <2>1 DEF IInv, QueuedRefsAreSafe, RefsAre, TypeOK
  <2>3. Head(queue).kind \in ChainKinds
    BY <2>1 DEF ChainKinds
  <2>4. /\ <<Ev("Reset")>> \in Seq(Event)
        /\ AtMostOneChain(<<Ev("Reset")>>)
        /\ RefsAre(<<Ev("Reset")>>, safe)
        /\ ~HasConfirm(<<Ev("Reset")>>)
    <3>1. Ev("Reset") \in Event /\ Ev("Reset").kind = "Reset"
      BY EvFacts DEF Kinds
    <3> QED
      BY <3>1, SingleChain
  <2>5. /\ AtMostOneChainEvent' /\ QueuedRefsAreSafe'
        /\ ~HasConfirm(queue')
    BY <2>1, <2>3, <2>4, EmptyChain, ChainHandler
  <2>6. DBNotAhead'
    <3> SUFFICES ASSUME ready' PROVE \A n \in db' : n <= safe'
      BY DEF DBNotAhead
    <3>1. \A n \in db : n <= safe
      BY <2>1 DEF IInv, DBNotAhead
    <3> QED
      BY <1>t, <2>1, <2>2, <3>1 DEF TypeOK, Blocks
  <2> QED
    BY <2>5, <2>6 DEF ConfirmAfterTruncate
<1>14. CASE OnPendingSafeRequest
  <2>1. /\ queue /= << >> /\ Head(queue).kind \in ChainKinds
        /\ UNCHANGED <<db, ready>>
        /\ \/ /\ safe < MaxL2 /\ safe' = safe + 1
              /\ Consume(<<EvRef("SafeDerived", safe + 1), Ev("StepReq")>>)
           \/ /\ safe' = safe
              /\ \E k \in {"Reset", "DeriverIdle", "ProvideL1Traversal",
                            "L1TemporaryError", "EngineTemporaryError"} :
                   Consume(<<Ev(k)>>)
    BY <1>14, Zenon DEF OnPendingSafeRequest, Handling, ChainKinds
  <2>2. CASE /\ safe < MaxL2 /\ safe' = safe + 1
             /\ Consume(<<EvRef("SafeDerived", safe + 1), Ev("StepReq")>>)
    <3> DEFINE p == <<EvRef("SafeDerived", safe + 1), Ev("StepReq")>>
    <3>1. /\ EvRef("SafeDerived", safe + 1) \in Event
          /\ EvRef("SafeDerived", safe + 1).kind = "SafeDerived"
          /\ EvRef("SafeDerived", safe + 1).ref = safe + 1
          /\ Ev("StepReq") \in Event /\ Ev("StepReq").kind = "StepReq"
      BY <1>t, <2>2, EvFacts, EvRefFacts DEF Kinds, TypeOK, Blocks
    <3>2. /\ p \in Seq(Event) /\ AtMostOneChain(p)
          /\ RefsAre(p, safe') /\ ~HasConfirm(p)
      BY <2>2, <3>1, PairChain DEF ChainKinds
    <3>3. /\ AtMostOneChainEvent' /\ QueuedRefsAreSafe'
          /\ ~HasConfirm(queue')
      BY <2>1, <2>2, <3>2, ChainHandler
    <3>4. DBNotAhead'
      BY <2>1, <2>2, <1>t DEF IInv, DBNotAhead, TypeOK, Blocks
    <3> QED
      BY <3>3, <3>4 DEF ConfirmAfterTruncate
  <2>3. CASE /\ safe' = safe
             /\ \E k \in {"Reset", "DeriverIdle", "ProvideL1Traversal",
                           "L1TemporaryError", "EngineTemporaryError"} :
                  Consume(<<Ev(k)>>)
    <3>1. PICK k \in {"Reset", "DeriverIdle", "ProvideL1Traversal",
                      "L1TemporaryError", "EngineTemporaryError"} :
                 Consume(<<Ev(k)>>)
      BY <2>3
    <3>2. Ev(k) \in Event /\ Ev(k).kind = k
      BY EvFacts DEF Kinds
    <3>3. /\ <<Ev(k)>> \in Seq(Event) /\ AtMostOneChain(<<Ev(k)>>)
          /\ RefsAre(<<Ev(k)>>, safe) /\ ~HasConfirm(<<Ev(k)>>)
      BY <3>2, SingleChain
    <3> QED
      BY <2>1, <2>3, <3>1, <3>3, ChainQuiet
  <2> QED
    BY <2>1, <2>2, <2>3
<1>15. CASE OnResetEngineRequest
  <2>1. /\ queue /= << >> /\ Head(queue).kind \in ChainKinds
        /\ ready' = FALSE
    BY <1>15, Zenon DEF OnResetEngineRequest, Handling, ChainKinds
  <2>2. PICK x \in IF safe > finalized THEN finalized .. safe - 1 ELSE {safe} :
               /\ safe' = x
               /\ Consume(<<EvRef("EngineResetConfirmed", x)>>)
    BY <1>15, Zenon DEF OnResetEngineRequest
  <2>3. x \in Blocks
    BY <1>t, <2>2 DEF TypeOK, Blocks
  <2>4. /\ EvRef("EngineResetConfirmed", x) \in Event
        /\ EvRef("EngineResetConfirmed", x).kind = "EngineResetConfirmed"
        /\ EvRef("EngineResetConfirmed", x).ref = x
    BY <2>3, EvRefFacts DEF Kinds
  <2>5. /\ <<EvRef("EngineResetConfirmed", x)>> \in Seq(Event)
        /\ AtMostOneChain(<<EvRef("EngineResetConfirmed", x)>>)
        /\ RefsAre(<<EvRef("EngineResetConfirmed", x)>>, safe')
        /\ HasConfirm(<<EvRef("EngineResetConfirmed", x)>>) => FALSE
    BY <2>2, <2>4, SingleChain
  <2>6. /\ AtMostOneChainEvent' /\ QueuedRefsAreSafe'
        /\ ~HasConfirm(queue')
    BY <2>1, <2>2, <2>5, ChainHandler
  <2>7. DBNotAhead'
    BY <2>1, Zenon DEF DBNotAhead
  <2> QED
    BY <2>6, <2>7 DEF ConfirmAfterTruncate
<1>16. CASE OnConfirmPipelineReset
  <2>1. /\ queue /= << >> /\ Head(queue).kind = "ConfirmPipelineReset"
        /\ Consume(<< >>) /\ UNCHANGED <<db, safe>>
    BY <1>16, Zenon DEF OnConfirmPipelineReset, Handling, engineVars
  <2>2. DBBelowSafe
    <3>1. HasConfirm(queue)
      BY <1>t, <2>1 DEF HasConfirm, TypeOK
    <3> QED
      BY <3>1 DEF IInv, ConfirmAfterTruncate
  <2>3. /\ AtMostOneChainEvent' /\ QueuedRefsAreSafe'
        /\ ~HasConfirm(queue')
    BY <2>1, EmptyChain, ChainHandler DEF ChainKinds
  <2>4. DBNotAhead'
    BY <2>1, <2>2 DEF DBNotAhead, DBBelowSafe
  <2> QED
    BY <2>3, <2>4 DEF ConfirmAfterTruncate
<1>17. CASE LoopSchedStep
  <2>1. /\ queue = << >> /\ queue' = LoopPre \o <<Ev("StepAttempt")>>
        /\ UNCHANGED <<db, safe, ready>>
    BY <1>17, Zenon DEF LoopSchedStep, Quiescent, engineVars
  <2>2. /\ LoopPre \o <<Ev("StepAttempt")>> \in Seq(Event)
        /\ ChainFree(LoopPre \o <<Ev("StepAttempt")>>)
    <3>1. <<Ev("StepAttempt")>> \in Seq(Event)
          /\ ChainFree(<<Ev("StepAttempt")>>)
      BY FreeEv DEF Kinds, ChainKinds
    <3> QED
      BY <3>1, LoopPreFree, CatKeeps, ConcatProperties
  <2> QED
    BY <2>1, <2>2, EmptyFree
<1>18. CASE LoopAltSyncTick
  <2>1. queue = << >> /\ queue' = LoopPre /\ UNCHANGED <<db, safe, ready>>
    BY <1>18, Zenon DEF LoopAltSyncTick, Quiescent
  <2> QED
    BY <2>1, LoopPreFree, EmptyFree
<1>19. CASE LoopStateReq
  <2>1. queue = << >> /\ queue' = LoopPre /\ UNCHANGED <<db, safe, ready>>
    BY <1>19, Zenon DEF LoopStateReq, Quiescent, engineVars
  <2> QED
    BY <2>1, LoopPreFree, EmptyFree
<1>20. CASE LoopForceReset
  <2>1. /\ queue = << >> /\ queue' = LoopPre /\ UNCHANGED <<db, safe>>
        /\ ready' => ready
    BY <1>20, Zenon DEF LoopForceReset, Quiescent, engineVars
  <2> QED
    BY <2>1, LoopPreFree, EmptyFree
<1>21. CASE LoopUnsafePayload
  <2>1. /\ queue = << >> /\ UNCHANGED <<db, safe, ready>>
        /\ \/ queue' = LoopPre
           \/ \E n \in 1 .. MaxL2 :
                queue' = LoopPre \o <<EvRef("ReceivedUnsafePayload", n),
                                      Ev("StepReq")>>
    BY <1>21, Zenon DEF LoopUnsafePayload, Quiescent
  <2>2. ASSUME NEW n \in 1 .. MaxL2
        PROVE  LET p == LoopPre \o <<EvRef("ReceivedUnsafePayload", n),
                                      Ev("StepReq")>>
               IN  p \in Seq(Event) /\ ChainFree(p)
    <3>1. /\ EvRef("ReceivedUnsafePayload", n) \in Event
          /\ EvRef("ReceivedUnsafePayload", n).kind = "ReceivedUnsafePayload"
          /\ Ev("StepReq") \in Event /\ Ev("StepReq").kind = "StepReq"
      BY EvFacts, EvRefFacts DEF Kinds, Blocks
    <3>2. /\ <<EvRef("ReceivedUnsafePayload", n), Ev("StepReq")>> \in Seq(Event)
          /\ ChainFree(<<EvRef("ReceivedUnsafePayload", n), Ev("StepReq")>>)
      BY <3>1 DEF ChainFree, ChainKinds
    <3> QED
      BY <3>2, LoopPreFree, CatKeeps, ConcatProperties
  <2> QED
    BY <2>1, <2>2, LoopPreFree, EmptyFree
<1>22. CASE SyncStepResume
  <2>1. /\ queue = << >> /\ UNCHANGED <<db, safe, ready>>
        /\ step \in 1 .. 3
    BY <1>22, Zenon DEF SyncStepResume, engineVars
  <2>0. step = 1 \/ step = 2 \/ step = 3
    BY <2>1
  <2>2. \E k \in {"TryBackupUnsafeReorg", "TryUpdateEngine",
                  "ResetStepBackoff", "PendingSafeRequest"} :
          queue' = <<Ev(k)>>
    BY <1>22, <2>0, Zenon DEF SyncStepResume
  <2>3. PICK k \in {"TryBackupUnsafeReorg", "TryUpdateEngine",
                    "ResetStepBackoff", "PendingSafeRequest"} :
          queue' = <<Ev(k)>>
    BY <2>2
  <2>4. Ev(k) \in Event /\ Ev(k).kind = k
    BY EvFacts DEF Kinds
  <2>5. /\ <<Ev(k)>> \in Seq(Event) /\ AtMostOneChain(<<Ev(k)>>)
        /\ RefsAre(<<Ev(k)>>, safe) /\ ~HasConfirm(<<Ev(k)>>)
    BY <2>4, SingleChain
  <2> QED
    BY <2>1, <2>3, <2>5, EmptyStep
<1>23. CASE SupervisorReset
  <2>1. /\ queue = << >> /\ UNCHANGED <<db, safe, ready>>
        /\ queue' = Append(queue, Ev("ResetEngineRequest"))
    BY <1>23, Zenon DEF SupervisorReset, Quiescent, engineVars
  <2>2. Ev("ResetEngineRequest") \in Event
        /\ Ev("ResetEngineRequest").kind = "ResetEngineRequest"
    BY EvFacts DEF Kinds
  <2>3. /\ <<Ev("ResetEngineRequest")>> \in Seq(Event)
        /\ AtMostOneChain(<<Ev("ResetEngineRequest")>>)
        /\ RefsAre(<<Ev("ResetEngineRequest")>>, safe)
        /\ ~HasConfirm(<<Ev("ResetEngineRequest")>>)
    BY <2>2, SingleChain
  <2>4. queue' = <<Ev("ResetEngineRequest")>>
    BY <2>1
  <2> QED
    BY <2>1, <2>3, <2>4, EmptyStep
<1>24. CASE StartSyncTick \/ OnL1Head \/ UNCHANGED vars
  <2>1. UNCHANGED <<queue, db, safe, ready>>
    BY <1>24, Zenon DEF StartSyncTick, OnL1Head, vars, engineVars
  <2> QED
    BY <2>1, Frozen
<1> QED
  BY <1>1, <1>2, <1>3, <1>4, <1>5, <1>6, <1>7, <1>8, <1>9, <1>10, <1>11,
     <1>12, <1>13, <1>14, <1>15, <1>16, <1>17, <1>18, <1>19, <1>20, <1>21,
     <1>22, <1>23, <1>24
  DEF Next, Handle, Loop
-----------------------------------------------------------------------------
(* IInv holds initially: a restarted node may find the database ahead of  *)
(* the engine's safe head, but the pipeline is not ready yet.            *)
LEMMA InitIInv == Init => IInv
<1> SUFFICES ASSUME Init PROVE IInv
  OBVIOUS
<1>1. TypeOK
  BY InitType, TypeSplit
<1>2. /\ Ev("StepReq") \in Event /\ Ev("StepReq").kind = "StepReq"
  BY EvFacts DEF Kinds
<1>3. /\ AtMostOneChain(<<Ev("StepReq")>>) /\ RefsAre(<<Ev("StepReq")>>, safe)
      /\ ~HasConfirm(<<Ev("StepReq")>>)
  BY <1>2, SingleChain
<1>4. AtMostOneChainEvent /\ QueuedRefsAreSafe /\ ConfirmAfterTruncate
  BY <1>3 DEF Init, AtMostOneChainEvent, QueuedRefsAreSafe,
     ConfirmAfterTruncate
<1>5. DBNotAhead
  BY Zenon DEF Init, DBNotAhead
<1> QED
  BY <1>1, <1>4, <1>5 DEF IInv

(* IInv is inductive.                                                      *)
LEMMA IInvStep == IInv /\ [Next]_vars => IInv'
<1> SUFFICES ASSUME IInv, [Next]_vars PROVE IInv'
  OBVIOUS
<1>1. TypeOK'
  <2>1. Data /\ Flags
    BY TypeSplit DEF IInv
  <2>2. Data' /\ Flags'
    BY <2>1, FlagsStep, DataStep
  <2> QED
    BY <2>2, Zenon DEF TypeOK, Data, Flags
<1>2. CInv'
  BY CStep
<1> QED
  BY <1>1, <1>2 DEF IInv, CInv

(* The inductive invariant of the derivation pipeline holds in every      *)
(* reachable state, for every bound: the bus carries at most one event of *)
(* the reset-and-derive chain (the synchronous deriver, state.go 350-420, *)
(* never has two in flight), every queued SafeDerived and                  *)
(* EngineResetConfirmed names the current safe head, a queued              *)
(* ConfirmPipelineReset finds the database already truncated to the safe  *)
(* head, and while ready the database records nothing above it.  This is *)
(* IInv, which cl_db_safety and managed_db_safety check.                   *)
THEOREM PipelineInvariant == Spec => []IInv
<1>1. Init => IInv
  BY InitIInv
<1>2. IInv /\ [Next]_vars => IInv'
  BY IInvStep
<1> QED
  BY <1>1, <1>2, PTL DEF Spec

(* Whenever the derivation pipeline is ready, the safe-head database      *)
(* records no block above the engine's safe head: onEngineConfirmedReset  *)
(* (state.go 385-408) confirms a reset only after SafeHeadReset truncated *)
(* the database, and onSafeDerivedBlock records only the block the engine *)
(* just made safe.                                                         *)
THEOREM DBSafety == Spec => []DBNotAhead
<1>1. Init => IInv
  BY InitIInv
<1>2. IInv /\ [Next]_vars => IInv'
  BY IInvStep
<1>3. IInv => DBNotAhead
  BY DEF IInv
<1> QED
  BY <1>1, <1>2, <1>3, PTL DEF Spec
-----------------------------------------------------------------------------
(* Refinement: SyncDeriver implements SafeHeadProtocol, the promise of the *)
(* safe-head database with the bus and the engine abstracted away.  Every *)
(* handler that moves the safe head, the database or the ready flag is    *)
(* one abstract step; every other step leaves all three alone.            *)

\* A step that leaves the safe head, the database and the ready flag alone
\* is an abstract stutter.
LEMMA AbsStutter ==
  UNCHANGED <<db, safe, ready>> => [Abs!AbsNext]_Abs!absVars
BY DEF Abs!absVars

(* Each step of the driver is an abstract step or a stutter.               *)
LEMMA RefStep == IInv /\ [Next]_vars => [Abs!AbsNext]_Abs!absVars
<1> SUFFICES ASSUME IInv, [Next]_vars PROVE [Abs!AbsNext]_Abs!absVars
  OBVIOUS
<1>t. TypeOK
  BY DEF IInv
<1>s. safe \in Nat
  BY <1>t DEF TypeOK, Blocks
<1>1. CASE OnStep
  BY <1>1, AbsStutter, Zenon DEF OnStep, engineVars
<1>2. CASE OnRetry
  BY <1>2, AbsStutter, Zenon DEF OnRetry, engineVars
<1>3. CASE OnDeriverIdle
  BY <1>3, AbsStutter, Zenon DEF OnDeriverIdle, engineVars
<1>4. CASE OnStepReq
  BY <1>4, AbsStutter, Zenon DEF OnStepReq, engineVars
<1>5. CASE OnStepAttempt
  BY <1>5, AbsStutter, Zenon DEF OnStepAttempt, engineVars
<1>6. CASE OnResetStepBackoff
  BY <1>6, AbsStutter, Zenon DEF OnResetStepBackoff, engineVars
<1>7. CASE OnTryBackupUnsafeReorg
  BY <1>7, AbsStutter, Zenon DEF OnTryBackupUnsafeReorg, engineVars
<1>8. CASE OnFinalizeL1
  BY <1>8, AbsStutter, Zenon DEF OnFinalizeL1, engineVars
<1>9. CASE OnReceivedUnsafePayload
  BY <1>9, AbsStutter, Zenon DEF OnReceivedUnsafePayload, engineVars
<1>10. CASE OnReset
  BY <1>10, AbsStutter, Zenon DEF OnReset, engineVars
<1>11. CASE OnTryUpdateEngine
  BY <1>11, AbsStutter, Zenon DEF OnTryUpdateEngine
<1>12. CASE OnEngineConfirmedReset
  <2> DEFINE x == Head(queue).ref
             trunc == {n \in db : n <= x}
  <2>1. /\ queue /= << >> /\ Head(queue).kind = "EngineResetConfirmed"
        /\ UNCHANGED <<safe, ready>>
        /\ \/ UNCHANGED db
           \/ db' = trunc
           \/ db' = trunc \cup {Genesis} /\ x = Genesis
    BY <1>12, Zenon DEF OnEngineConfirmedReset, Handling, engineVars
  <2>2. x = safe
    BY <1>t, <2>1 DEF IInv, QueuedRefsAreSafe, RefsAre, TypeOK
  <2>3. CASE UNCHANGED db
    BY <2>1, <2>3, AbsStutter
  <2>4. CASE db' = trunc
    <3>1. db' = {n \in db : n <= safe} \cup {}
      BY <2>2, <2>4
    <3>2. Abs!Truncate
      BY <2>1, <3>1, Zenon DEF Abs!Truncate
    <3> QED
      BY <3>2 DEF Abs!AbsNext
  <2>5. CASE db' = trunc \cup {Genesis} /\ x = Genesis
    <3>1. db' = {n \in db : n <= safe} \cup {safe}
      BY <2>2, <2>5
    <3>2. Abs!Truncate
      BY <2>1, <3>1, Zenon DEF Abs!Truncate
    <3> QED
      BY <3>2 DEF Abs!AbsNext
  <2> QED
    BY <2>1, <2>3, <2>4, <2>5
<1>13. CASE OnSafeDerived
  <2>1. /\ queue /= << >> /\ Head(queue).kind = "SafeDerived"
        /\ UNCHANGED <<safe, ready>>
        /\ \/ UNCHANGED db
           \/ db' = db \cup {Head(queue).ref}
    BY <1>13, Zenon DEF OnSafeDerived, Handling, engineVars
  <2>2. Head(queue).ref = safe
    BY <1>t, <2>1 DEF IInv, QueuedRefsAreSafe, RefsAre, TypeOK
  <2>3. CASE UNCHANGED db
    BY <2>1, <2>3, AbsStutter
  <2>4. CASE db' = db \cup {Head(queue).ref}
    <3>1. Abs!Record
      BY <2>1, <2>2, <2>4 DEF Abs!Record
    <3> QED
      BY <3>1 DEF Abs!AbsNext
  <2> QED
    BY <2>1, <2>3, <2>4
<1>14. CASE OnPendingSafeRequest
  <2>1. /\ UNCHANGED <<db, ready>>
        /\ \/ safe' = safe
           \/ ready /\ safe' = safe + 1
    BY <1>14, Zenon DEF OnPendingSafeRequest
  <2>2. CASE safe' = safe
    BY <2>1, <2>2, AbsStutter
  <2>3. CASE ready /\ safe' = safe + 1
    <3>1. Abs!Advance
      BY <2>1, <2>3 DEF Abs!Advance
    <3> QED
      BY <3>1 DEF Abs!AbsNext
  <2> QED
    BY <2>1, <2>2, <2>3
<1>15. CASE OnResetEngineRequest
  <2>1. /\ ready' = FALSE /\ UNCHANGED db
        /\ safe' \in IF safe > finalized THEN finalized .. safe - 1 ELSE {safe}
    BY <1>15, Zenon DEF OnResetEngineRequest
  <2>2. safe' \in 0 .. safe
    BY <1>t, <2>1 DEF TypeOK, Blocks
  <2>3. Abs!Rollback
    BY <2>1, <2>2 DEF Abs!Rollback
  <2> QED
    BY <2>3 DEF Abs!AbsNext
<1>16. CASE OnConfirmPipelineReset
  <2>1. /\ queue /= << >> /\ Head(queue).kind = "ConfirmPipelineReset"
        /\ ready' = TRUE /\ UNCHANGED <<db, safe>>
    BY <1>16, Zenon DEF OnConfirmPipelineReset, Handling, engineVars
  <2>2. HasConfirm(queue)
    BY <1>t, <2>1 DEF HasConfirm, TypeOK
  <2>3. \A n \in db : n <= safe
    BY <2>2 DEF IInv, ConfirmAfterTruncate, DBBelowSafe
  <2>4. Abs!Confirm
    BY <2>1, <2>3 DEF Abs!Confirm
  <2> QED
    BY <2>4 DEF Abs!AbsNext
<1>17. CASE LoopSchedStep
  BY <1>17, AbsStutter, Zenon DEF LoopSchedStep, engineVars
<1>18. CASE LoopAltSyncTick
  BY <1>18, AbsStutter, Zenon DEF LoopAltSyncTick
<1>19. CASE LoopStateReq
  BY <1>19, AbsStutter, Zenon DEF LoopStateReq, engineVars
<1>20. CASE LoopForceReset
  <2>1. ready' = FALSE /\ UNCHANGED <<db, safe>>
    BY <1>20, Zenon DEF LoopForceReset, engineVars
  <2>2. Abs!Rollback
    BY <1>s, <2>1 DEF Abs!Rollback
  <2> QED
    BY <2>2 DEF Abs!AbsNext
<1>21. CASE LoopUnsafePayload
  BY <1>21, AbsStutter, Zenon DEF LoopUnsafePayload
<1>22. CASE SyncStepResume
  BY <1>22, AbsStutter, Zenon DEF SyncStepResume, engineVars
<1>23. CASE SupervisorReset
  BY <1>23, AbsStutter, Zenon DEF SupervisorReset, engineVars
<1>24. CASE StartSyncTick \/ OnL1Head \/ UNCHANGED vars
  BY <1>24, AbsStutter, Zenon DEF StartSyncTick, OnL1Head, vars, engineVars
<1> QED
  BY <1>1, <1>2, <1>3, <1>4, <1>5, <1>6, <1>7, <1>8, <1>9, <1>10, <1>11,
     <1>12, <1>13, <1>14, <1>15, <1>16, <1>17, <1>18, <1>19, <1>20, <1>21,
     <1>22, <1>23, <1>24
  DEF Next, Handle, Loop

(* SyncDeriver refines SafeHeadProtocol: every behaviour of the driver,   *)
(* read through its safe head, its safe-head database and DerivationReady,*)
(* is a behaviour of the abstract protocol (advance while ready, record   *)
(* the safe head, roll back, truncate, confirm only with nothing above    *)
(* the safe head).  This is the property AbsSpec the runs check.         *)
THEOREM Refinement == Spec => AbsSpec
<1>1. Init => Abs!AbsInit
  <2> SUFFICES ASSUME Init PROVE Abs!AbsInit
    OBVIOUS
  <2>1. safe \in Nat /\ ready = FALSE
    BY DEF Init, Blocks
  <2>2. db \subseteq Nat
    BY DEF Init
  <2> QED
    BY <2>1, <2>2 DEF Abs!AbsInit
<1>2. Init => IInv
  BY InitIInv
<1>3. IInv /\ [Next]_vars => IInv'
  BY IInvStep
<1>4. IInv /\ [Next]_vars => [Abs!AbsNext]_Abs!absVars
  BY RefStep
<1> QED
  BY <1>1, <1>2, <1>3, <1>4, PTL DEF Spec, AbsSpec, Abs!AbsSpec
=============================================================================
