----------------------------- MODULE SyncDeriver -----------------------------
(***************************************************************************)
(* The rollup driver core of cp-node (src/cp-node/rollup/driver/state.go): *)
(* the single event loop (Driver.eventLoop), the synchronous event bus it  *)
(* drains, and the SyncDeriver handlers that run the reset protocol and    *)
(* keep the safe-head database in step with the engine's safe head.        *)
(*                                                                         *)
(* The event bus is a FIFO queue; one handler invocation is one step.      *)
(* SyncStep drains the bus re-entrantly between its emissions; that is     *)
(* the variable step (its program counter).  Engine controller, engine     *)
(* reset deriver, derivation pipeline, finalizer, CL-sync and step         *)
(* scheduler are not in the repository's sources: their handlers are      *)
(* modelled from the spec (see PROJECT.json, spec_modelled) and kept as    *)
(* coarse as the properties allow.  Block references are their numbers.   *)
(***************************************************************************)
EXTENDS Integers, Sequences, FiniteSets, GoInt

CONSTANTS
  MaxL2,          \* highest core block number of the model
  MaxFaults,      \* bound on injected failures (listener, RPC, reset-required)
  ManagedMode,    \* SyncDeriver.ManagedMode: resets directed by a supervisor
  SafeDBEnabled,  \* SafeHeadNotifs.Enabled(): safe-head database configured
  SyncMode,       \* SyncCfg.SyncMode
  ELLatest,       \* latest block number of the EL sync source (ELClient)
  MaxBatch,       \* Driver.maxBatchSize (MaxRequestsPerBatch)
  L1SigCap        \* capacity of the l1HeadSig channel (10 in NewDriver)

ASSUME ConstAssumption ==
  /\ MaxL2 \in Nat
  /\ MaxFaults \in Nat
  /\ ManagedMode \in BOOLEAN
  /\ SafeDBEnabled \in BOOLEAN
  /\ SyncMode \in {"CLSync", "ELSync"}
  /\ ELLatest \in 0 .. MaxL2
  /\ MaxBatch \in Nat
  /\ L1SigCap \in Nat

Genesis == 0          \* Config.Genesis.L2
Blocks  == 0 .. MaxL2

Kinds == {"StepReq", "StepAttempt", "Step", "ResetStepBackoff", "Reset",
          "L1TemporaryError", "EngineTemporaryError", "EngineResetConfirmed",
          "DeriverIdle", "SafeDerived", "ProvideL1Traversal",
          "TryBackupUnsafeReorg", "TryUpdateEngine", "PendingSafeRequest",
          "ResetEngineRequest", "ConfirmPipelineReset", "FinalizeL1",
          "ReceivedUnsafePayload"}

Event == [kind : Kinds, ref : Blocks]
Ev(k)        == [kind |-> k, ref |-> 0]
EvRef(k, n)  == [kind |-> k, ref |-> n]

VARIABLES
  queue,      \* pending events of the bus, in emission order
  step,       \* SyncStep program counter: 0 = not running, 1..3 = drains
  sched,      \* step scheduler holds a scheduled attempt
  unsafe,     \* engine unsafe head
  safe,       \* engine safe head
  finalized,  \* engine finalized head
  syncing,    \* Engine.IsEngineSyncing()
  ready,      \* Derivation.DerivationReady()
  db,         \* safe-head database: core blocks recorded as safe
  resetBase,  \* history: cross-safe head of the last confirmed reset
  faults,     \* injected failures so far
  started,    \* Driver.Start returned and the loop runs
  l1HeadBuf,  \* signals buffered in l1HeadSig
  l1Dropped   \* history: an OnL1Head call timed out on a full channel

engineVars == <<unsafe, safe, finalized, syncing>>
vars == <<queue, step, sched, unsafe, safe, finalized, syncing, ready, db,
          resetBase, faults, started, l1HeadBuf, l1Dropped>>

-----------------------------------------------------------------------------
(* Helpers.                                                                *)

MaxOf(a, b) == IF a >= b THEN a ELSE b

\* The event at the head of the bus is handled and evs appended.
Consume(evs) == queue' = Tail(queue) \o evs

Handling(k) == queue /= <<>> /\ Head(queue).kind = k

\* Bus empty and no SyncStep running: the loop is at its select.
Quiescent == queue = <<>> /\ step = 0 /\ started

CanFail == faults < MaxFaults
Fail    == faults' = faults + 1

\* The events the loop emits before its select (state.go 237-240).
LoopPre == IF SyncMode = "CLSync"
             THEN <<Ev("FinalizeL1"), Ev("StepReq")>>
             ELSE <<>>

MinOf(a, b) == IF a <= b THEN a ELSE b

\* PayloadsByRange(startH, endH) returns the source's blocks of that range
\* (none beyond ELLatest); each is inserted in order and the engine
\* (EL-syncing) accepts it.  startH is always unsafe + 1.
LastFetched(endH) == MinOf(endH, ELLatest)

InsertRange(startH, endH) ==
  unsafe' = IF LastFetched(endH) >= startH THEN LastFetched(endH) ELSE unsafe

-----------------------------------------------------------------------------
Init ==
  /\ queue = <<Ev("StepReq")>>          \* reqStep() at loop start
  /\ step = 0
  /\ sched = FALSE
  /\ finalized = Genesis
  /\ safe \in Blocks
  /\ unsafe \in safe .. MaxL2
  /\ syncing \in IF SyncMode = "ELSync" THEN BOOLEAN ELSE {FALSE}
  /\ ready = FALSE
  /\ db \in {0 .. k : k \in -1 .. MaxL2}  \* a restart may find it ahead
  /\ resetBase = safe
  /\ faults = 0
  /\ started = (SyncMode = "CLSync")
  /\ l1HeadBuf = 0
  /\ l1Dropped = FALSE

-----------------------------------------------------------------------------
(* Driver.Start under ELSync: one tick of syncUnsafeBlocks (565-604).      *)
StartSyncTick ==
  /\ ~started
  /\ LET startH == unsafe + 1
         endH   == Clamp(startH, ELLatest, MaxBatch)
     IN IF startH >= endH
          THEN started' = TRUE /\ UNCHANGED unsafe
          ELSE InsertRange(startH, endH) /\ UNCHANGED started
  /\ UNCHANGED <<queue, step, sched, safe, finalized, syncing, ready, db,
                 resetBase, faults, l1HeadBuf, l1Dropped>>

-----------------------------------------------------------------------------
(* The loop's select cases (state.go 242-297), taken at quiescence.        *)

LoopSchedStep ==
  /\ Quiescent /\ sched
  /\ queue' = LoopPre \o <<Ev("StepAttempt")>>
  /\ UNCHANGED <<step, sched, engineVars, ready, db, resetBase, faults,
                 started, l1HeadBuf, l1Dropped>>

\* checkForGapInUnsafeQueue only signals the alt-sync source (CLSync);
\* checkSyncUnsafeBlocks fetches and inserts a batch (ELSync, 606-645).
LoopAltSyncTick ==
  /\ Quiescent
  /\ queue' = LoopPre
  /\ IF SyncMode = "ELSync" /\ unsafe < U64(ELLatest - 5)
       THEN LET startH == unsafe + 1
                endH   == Clamp(startH, ELLatest, MaxBatch)
            IN \/ InsertRange(startH, endH) /\ UNCHANGED faults
               \/ CanFail /\ Fail
                  /\ \E k \in unsafe .. MaxOf(unsafe, LastFetched(endH)) : unsafe' = k
       ELSE UNCHANGED <<unsafe, faults>>
  /\ UNCHANGED <<step, sched, safe, finalized, syncing, ready, db,
                 resetBase, started, l1HeadBuf, l1Dropped>>

\* Mutant: the EL-sync payload path drops the ref.Number <= unsafe check.
LoopUnsafePayload_noHeadCheck ==
  /\ Quiescent
  /\ \E n \in 1 .. MaxL2 :
       IF SyncMode = "CLSync" \/ ~syncing
         THEN /\ queue' = LoopPre \o <<EvRef("ReceivedUnsafePayload", n),
                                       Ev("StepReq")>>
              /\ UNCHANGED unsafe
         ELSE /\ queue' = LoopPre
              /\ unsafe' = n
  /\ UNCHANGED <<step, sched, safe, finalized, syncing, ready, db,
                 resetBase, faults, started, l1HeadBuf, l1Dropped>>

LoopUnsafePayload ==
  /\ Quiescent
  /\ \E n \in 1 .. MaxL2 :
       IF SyncMode = "CLSync" \/ ~syncing
         THEN /\ queue' = LoopPre \o <<EvRef("ReceivedUnsafePayload", n),
                                       Ev("StepReq")>>
              /\ UNCHANGED unsafe
         ELSE /\ queue' = LoopPre
              /\ unsafe' = IF n <= unsafe THEN unsafe ELSE n
  /\ UNCHANGED <<step, sched, safe, finalized, syncing, ready, db,
                 resetBase, faults, started, l1HeadBuf, l1Dropped>>

LoopStateReq ==
  /\ Quiescent
  /\ queue' = LoopPre
  /\ UNCHANGED <<step, sched, engineVars, ready, db, resetBase, faults,
                 started, l1HeadBuf, l1Dropped>>

LoopForceReset ==
  /\ Quiescent
  /\ queue' = LoopPre
  /\ ready' = FALSE
  /\ UNCHANGED <<step, sched, engineVars, db, resetBase, faults, started,
                 l1HeadBuf, l1Dropped>>

\* Mutant: the send does not wait for room in l1HeadSig.
OnL1Head_noCap ==
  /\ l1HeadBuf' = l1HeadBuf + 1
  /\ UNCHANGED <<queue, step, sched, engineVars, ready, db, resetBase,
                 faults, started, l1Dropped>>

(* OnL1Head (118-127), called from the L1 head subscription with a 10 s  *)
(* context (node.go 391): it waits for room in l1HeadSig or times out.    *)
OnL1Head ==
  /\ IF l1HeadBuf < L1SigCap
       THEN l1HeadBuf' = l1HeadBuf + 1 /\ UNCHANGED l1Dropped
       ELSE l1Dropped' = TRUE /\ UNCHANGED l1HeadBuf
  /\ UNCHANGED <<queue, step, sched, engineVars, ready, db, resetBase,
                 faults, started>>

-----------------------------------------------------------------------------
(* SyncDeriver.OnEvent (340-372) and its handlers.                         *)

\* StepEvent: SyncStep (424-477) starts with a drain.
OnStep ==
  /\ Handling("Step") /\ step = 0
  /\ Consume(<<>>)
  /\ step' = 1
  /\ UNCHANGED <<sched, engineVars, ready, db, resetBase, faults, started,
                 l1HeadBuf, l1Dropped>>

\* SyncStep resumes when its nested Drain() has emptied the bus.
SyncStepResume ==
  /\ queue = <<>> /\ step \in 1 .. 3
  /\ CASE step = 1 -> queue' = <<Ev("TryBackupUnsafeReorg")>> /\ step' = 2
       [] step = 2 -> queue' = <<Ev("TryUpdateEngine")>> /\ step' = 3
       [] step = 3 -> /\ queue' = IF syncing THEN <<Ev("ResetStepBackoff")>>
                                 ELSE <<Ev("PendingSafeRequest")>>
                      /\ step' = 0
  /\ UNCHANGED <<sched, engineVars, ready, db, resetBase, faults, started,
                 l1HeadBuf, l1Dropped>>

\* Mutant: onResetEvent requests a step but no engine reset.
OnReset_noEngineReset ==
  /\ Handling("Reset")
  /\ Consume(IF ManagedMode THEN <<>> ELSE <<Ev("StepReq")>>)
  /\ UNCHANGED <<step, sched, engineVars, ready, db, resetBase, faults,
                 started, l1HeadBuf, l1Dropped>>

\* ResetEvent: onResetEvent (410-420).
OnReset ==
  /\ Handling("Reset")
  /\ Consume(IF ManagedMode THEN <<>>
             ELSE <<Ev("StepReq"), Ev("ResetEngineRequest")>>)
  /\ UNCHANGED <<step, sched, engineVars, ready, db, resetBase, faults,
                 started, l1HeadBuf, l1Dropped>>

\* Temporary errors and L1 traversal ask for another step.
OnRetry ==
  /\ \/ Handling("L1TemporaryError")
     \/ Handling("EngineTemporaryError")
     \/ Handling("ProvideL1Traversal")
  /\ Consume(<<Ev("StepReq")>>)
  /\ UNCHANGED <<step, sched, engineVars, ready, db, resetBase, faults,
                 started, l1HeadBuf, l1Dropped>>

OnDeriverIdle ==
  /\ Handling("DeriverIdle")
  /\ Consume(<<Ev("ResetStepBackoff")>>)
  /\ UNCHANGED <<step, sched, engineVars, ready, db, resetBase, faults,
                 started, l1HeadBuf, l1Dropped>>

\* Mutant: no return after a failed SafeHeadReset; the reset is confirmed.
OnEngineConfirmedReset_confirmOnFailure ==
  /\ Handling("EngineResetConfirmed")
  /\ LET x       == Head(queue).ref
         trunc   == {n \in db : n <= x}
         genesis == SafeDBEnabled /\ x = Genesis
     IN \/ /\ SafeDBEnabled /\ CanFail /\ Fail
           /\ Consume(<<Ev("ConfirmPipelineReset")>>)
           /\ UNCHANGED <<db, resetBase>>
        \/ /\ Consume(<<Ev("ConfirmPipelineReset")>>)
           /\ db' = IF genesis THEN trunc \cup {Genesis} ELSE trunc
           /\ resetBase' = x
           /\ UNCHANGED faults
  /\ UNCHANGED <<step, sched, engineVars, ready, started, l1HeadBuf,
                 l1Dropped>>

\* EngineResetConfirmedEvent: onEngineConfirmedReset (385-408).  Either
\* listener call may fail; then the reset is not confirmed.
OnEngineConfirmedReset ==
  /\ Handling("EngineResetConfirmed")
  /\ LET x       == Head(queue).ref
         trunc   == {n \in db : n <= x}
         genesis == SafeDBEnabled /\ x = Genesis
     IN \/ /\ SafeDBEnabled /\ CanFail /\ Fail
           /\ Consume(<<>>)
           /\ UNCHANGED <<db, resetBase>>
        \/ /\ genesis /\ CanFail /\ Fail
           /\ Consume(<<>>)
           /\ db' = trunc
           /\ UNCHANGED resetBase
        \/ /\ Consume(<<Ev("ConfirmPipelineReset")>>)
           /\ db' = IF genesis THEN trunc \cup {Genesis} ELSE trunc
           /\ resetBase' = x
           /\ UNCHANGED faults
  /\ UNCHANGED <<step, sched, engineVars, ready, started, l1HeadBuf,
                 l1Dropped>>

\* Mutant: a failed SafeHeadUpdated is only logged, no reset is emitted.
OnSafeDerived_noReset ==
  /\ Handling("SafeDerived")
  /\ LET s == Head(queue).ref
     IN \/ ~SafeDBEnabled /\ Consume(<<>>) /\ UNCHANGED <<db, faults>>
        \/ SafeDBEnabled /\ Consume(<<>>) /\ db' = db \cup {s}
           /\ UNCHANGED faults
        \/ SafeDBEnabled /\ CanFail /\ Fail /\ Consume(<<>>)
           /\ UNCHANGED db
  /\ UNCHANGED <<step, sched, engineVars, ready, resetBase, started,
                 l1HeadBuf, l1Dropped>>

\* SafeDerivedEvent: onSafeDerivedBlock (374-383).
OnSafeDerived ==
  /\ Handling("SafeDerived")
  /\ LET s == Head(queue).ref
     IN \/ ~SafeDBEnabled /\ Consume(<<>>) /\ UNCHANGED <<db, faults>>
        \/ SafeDBEnabled /\ Consume(<<>>) /\ db' = db \cup {s}
           /\ UNCHANGED faults
        \/ SafeDBEnabled /\ CanFail /\ Fail /\ Consume(<<Ev("Reset")>>)
           /\ UNCHANGED db
  /\ UNCHANGED <<step, sched, engineVars, ready, resetBase, started,
                 l1HeadBuf, l1Dropped>>

-----------------------------------------------------------------------------
(* Handlers of components outside src/, modelled from the spec.           *)

\* Step scheduler: requests collapse into one scheduled attempt; backoff
\* delays are not observable here.
OnStepReq ==
  /\ Handling("StepReq")
  /\ Consume(<<>>) /\ sched' = TRUE
  /\ UNCHANGED <<step, engineVars, ready, db, resetBase, faults, started,
                 l1HeadBuf, l1Dropped>>

OnStepAttempt ==
  /\ Handling("StepAttempt")
  /\ Consume(<<Ev("Step")>>) /\ sched' = FALSE
  /\ UNCHANGED <<step, engineVars, ready, db, resetBase, faults, started,
                 l1HeadBuf, l1Dropped>>

OnResetStepBackoff ==
  /\ Handling("ResetStepBackoff")
  /\ Consume(<<>>)
  /\ UNCHANGED <<step, sched, engineVars, ready, db, resetBase, faults,
                 started, l1HeadBuf, l1Dropped>>

\* Engine: the backup unsafe head is not modelled.
OnTryBackupUnsafeReorg ==
  /\ Handling("TryBackupUnsafeReorg")
  /\ Consume(<<>>)
  /\ UNCHANGED <<step, sched, engineVars, ready, db, resetBase, faults,
                 started, l1HeadBuf, l1Dropped>>

\* Engine: forkchoice update; may end EL sync, fail temporarily, or be
\* rejected as invalid (reset).
OnTryUpdateEngine ==
  /\ Handling("TryUpdateEngine")
  /\ \/ Consume(<<>>) /\ syncing' \in {syncing, FALSE} /\ UNCHANGED faults
     \/ CanFail /\ Fail /\ UNCHANGED syncing
        /\ \E e \in {"EngineTemporaryError", "Reset"} : Consume(<<Ev(e)>>)
  /\ UNCHANGED <<step, sched, unsafe, safe, finalized, ready, db, resetBase,
                 started, l1HeadBuf, l1Dropped>>

\* Engine pending-safe signal, attributes handler and one pipeline step.
OnPendingSafeRequest ==
  /\ Handling("PendingSafeRequest")
  /\ IF ~ready
       THEN Consume(<<Ev("Reset")>>) /\ UNCHANGED <<unsafe, safe, faults>>
       ELSE \/ /\ safe < MaxL2
               /\ safe' = safe + 1 /\ unsafe' = MaxOf(unsafe, safe + 1)
               /\ Consume(<<EvRef("SafeDerived", safe + 1), Ev("StepReq")>>)
               /\ UNCHANGED faults
            \/ /\ \E e \in {"DeriverIdle", "ProvideL1Traversal"} :
                    Consume(<<Ev(e)>>)
               /\ UNCHANGED <<unsafe, safe, faults>>
            \/ /\ CanFail /\ Fail /\ UNCHANGED <<unsafe, safe>>
               /\ \E e \in {"L1TemporaryError", "EngineTemporaryError",
                            "Reset"} : Consume(<<Ev(e)>>)
  /\ UNCHANGED <<step, sched, finalized, syncing, ready, db, resetBase,
                 started, l1HeadBuf, l1Dropped>>

\* Engine reset deriver: walk the heads back (the safe head at least one
\* block, never below finalized), reset the pipeline, confirm.
OnResetEngineRequest ==
  /\ Handling("ResetEngineRequest")
  /\ \E x \in IF safe > finalized THEN finalized .. safe - 1 ELSE {safe} :
       /\ safe' = x
       /\ unsafe' \in x .. unsafe
       /\ Consume(<<EvRef("EngineResetConfirmed", x)>>)
  /\ ready' = FALSE
  /\ UNCHANGED <<step, sched, finalized, syncing, db, resetBase, faults,
                 started, l1HeadBuf, l1Dropped>>

OnConfirmPipelineReset ==
  /\ Handling("ConfirmPipelineReset")
  /\ Consume(<<>>) /\ ready' = TRUE
  /\ UNCHANGED <<step, sched, engineVars, db, resetBase, faults, started,
                 l1HeadBuf, l1Dropped>>

\* Finalizer: finalize up to a safe head derived from finalized L1 data.
OnFinalizeL1 ==
  /\ Handling("FinalizeL1")
  /\ Consume(<<>>) /\ finalized' \in finalized .. safe
  /\ UNCHANGED <<step, sched, unsafe, safe, syncing, ready, db, resetBase,
                 faults, started, l1HeadBuf, l1Dropped>>

\* CL-sync: the payload that extends the unsafe head is inserted; the
\* queue of payloads ahead of it is not modelled.
OnReceivedUnsafePayload ==
  /\ Handling("ReceivedUnsafePayload")
  /\ Consume(<<>>)
  /\ unsafe' = IF Head(queue).ref = unsafe + 1 THEN unsafe + 1 ELSE unsafe
  /\ UNCHANGED <<step, sched, safe, finalized, syncing, ready, db,
                 resetBase, faults, started, l1HeadBuf, l1Dropped>>

\* Managed mode: the supervisor orders an engine reset over its RPC.
SupervisorReset ==
  /\ ManagedMode /\ Quiescent
  /\ queue' = Append(queue, Ev("ResetEngineRequest"))
  /\ UNCHANGED <<step, sched, engineVars, ready, db, resetBase, faults,
                 started, l1HeadBuf, l1Dropped>>

-----------------------------------------------------------------------------
Handle ==
  \/ OnStep \/ OnReset \/ OnRetry \/ OnDeriverIdle \/ OnEngineConfirmedReset
  \/ OnSafeDerived \/ OnStepReq \/ OnStepAttempt \/ OnResetStepBackoff
  \/ OnTryBackupUnsafeReorg \/ OnTryUpdateEngine \/ OnPendingSafeRequest
  \/ OnResetEngineRequest \/ OnConfirmPipelineReset \/ OnFinalizeL1
  \/ OnReceivedUnsafePayload

Loop ==
  \/ LoopSchedStep \/ LoopAltSyncTick \/ LoopUnsafePayload
  \/ LoopStateReq \/ LoopForceReset

Next ==
  \/ StartSyncTick \/ Handle \/ SyncStepResume \/ Loop
  \/ OnL1Head \/ SupervisorReset

\* The loop and the bus run continuously: the drain and SyncStep proceed
\* whenever they can.  The step timer and the alt-sync ticker are ready at
\* every select they reach after firing time, and Go's select picks among
\* ready cases uniformly at random: a case ready at infinitely many
\* selects is taken (strong fairness).
Fairness ==
  /\ WF_vars(StartSyncTick)
  /\ WF_vars(Handle)
  /\ WF_vars(SyncStepResume)
  /\ SF_vars(LoopSchedStep)
  /\ SF_vars(LoopAltSyncTick)

Spec == Init /\ [][Next]_vars /\ Fairness

\* SyncDeriver refines SafeHeadProtocol: its safe, db and ready are the
\* protocol's variables of the same names.
Abs == INSTANCE SafeHeadProtocol WITH safe <- safe, db <- db, ready <- ready

\* SyncDeriver refines ForkChoiceProtocol: its three heads are the
\* protocol's heads.
Heads == INSTANCE ForkChoiceProtocol
           WITH unsafe <- unsafe, safe <- safe, finalized <- finalized

-----------------------------------------------------------------------------
(* Properties.                                                             *)

TypeOK ==
  /\ queue \in Seq(Event)
  /\ step \in 0 .. 3
  /\ sched \in BOOLEAN
  /\ unsafe \in Blocks /\ safe \in Blocks /\ finalized \in Blocks
  /\ syncing \in BOOLEAN /\ ready \in BOOLEAN
  /\ db \subseteq Blocks
  /\ resetBase \in Blocks
  /\ faults \in 0 .. MaxFaults
  /\ started \in BOOLEAN
  /\ l1HeadBuf \in 0 .. L1SigCap /\ l1Dropped \in BOOLEAN

(* I1 of the spec: finalized <= safe <= unsafe.  The EL-sync paths of the  *)
(* loop (payload insertion, checkSyncUnsafeBlocks) must never move the     *)
(* unsafe head below the safe head.                                        *)
HeadsOrdered == finalized <= safe /\ safe <= unsafe

(* Only an engine reset moves the unsafe head back.  The EL-sync paths    *)
(* (syncUnsafeBlocks, checkSyncUnsafeBlocks, the payload case at 270) and *)
(* CL-sync insertion only extend it; a rewind in any other step would     *)
(* orphan unsafe blocks the node has already gossiped.                    *)
UnsafeRewindsOnlyInReset ==
  [][unsafe' < unsafe => Handling("ResetEngineRequest")]_vars

(* Every step of the driver is a step of the safe-head protocol or leaves *)
(* safe, db and ready alone: derivation advances only while ready,        *)
(* SafeHeadUpdated records the current safe head, an engine reset rolls   *)
(* back, SafeHeadReset truncates, and ConfirmPipelineReset comes only     *)
(* after the truncation (onEngineConfirmedReset, onSafeDerivedBlock).     *)
AbsSpec == Abs!AbsSpec

(* Every step of the driver moves its heads as the fork-choice protocol   *)
(* allows or leaves them alone: EL-sync insertion (syncUnsafeBlocks,      *)
(* checkSyncUnsafeBlocks, the payload case at 270) and CL-sync insertion  *)
(* only extend the unsafe head, derivation moves the safe head one block, *)
(* an engine reset walks back no further than the finalized head, and    *)
(* the finalizer moves the finalized head forward, never back.            *)
HeadsSpec == Heads!HSpec

(* Once derivation runs again (the pipeline is ready), the safe-head       *)
(* database records no block above the engine's safe head: a reset that   *)
(* rolled the engine back is confirmed only after SafeHeadReset truncated  *)
(* the database (onEngineConfirmedReset).                                  *)
DBNotAhead == ready => \A n \in db : n <= safe

(* At every quiescent point with the pipeline ready, each block derived    *)
(* since the last confirmed reset is recorded in the database: a failed    *)
(* SafeHeadUpdated forces a reset that rolls back below the missing entry  *)
(* (onSafeDerivedBlock).  Managed mode waits for the supervisor instead.   *)
DBComplete ==
  (~ManagedMode /\ SafeDBEnabled /\ Quiescent /\ ready)
    => (resetBase + 1) .. safe \subseteq db

(* A pipeline that is not ready (at start, after a forced or engine reset) *)
(* becomes ready again: the reset protocol of onResetEvent and             *)
(* onEngineConfirmedReset completes once failures stop.                    *)
ResetCompletes == ~ready ~> ready

(* Every L1 head signal buffered by OnL1Head is taken by the event loop.   *)
L1HeadSignalsConsumed == l1HeadBuf > 0 ~> l1HeadBuf = 0

(* When Driver.Start returns under ELSync, syncUnsafeBlocks has brought    *)
(* the unsafe head up to the EL source's latest block (its log says       *)
(* "successfully synchronized all old blocks").                            *)
SyncedAfterStart == (SyncMode = "ELSync" /\ started) => unsafe >= ELLatest

-----------------------------------------------------------------------------
(* The strengthening of DBNotAhead used by its proof.  The bus carries at  *)
(* most one event of the reset/derivation chain at a time (each handler of *)
(* one emits at most one, and SyncStep and the loop start a chain only on *)
(* an empty bus); a queued SafeDerived or EngineResetConfirmed names the   *)
(* current safe head, and a queued ConfirmPipelineReset finds the database *)
(* already truncated.                                                      *)

ChainKinds == {"Reset", "ResetEngineRequest", "EngineResetConfirmed",
               "ConfirmPipelineReset", "SafeDerived", "PendingSafeRequest",
               "TryUpdateEngine"}

DBBelowSafe == \A n \in db : n <= safe

\* Sequence s of events holds no event of the chain.
ChainFree(s) == \A i \in 1 .. Len(s) : s[i].kind \notin ChainKinds

\* Sequence s of events holds at most one event of the chain.
AtMostOneChain(s) ==
  \A i, j \in 1 .. Len(s) :
    (s[i].kind \in ChainKinds /\ s[j].kind \in ChainKinds) => i = j

\* Every SafeDerived and EngineResetConfirmed event of s refers to block h.
RefsAre(s, h) ==
  \A i \in 1 .. Len(s) :
    s[i].kind \in {"SafeDerived", "EngineResetConfirmed"} => s[i].ref = h

HasConfirm(s) == \E i \in 1 .. Len(s) : s[i].kind = "ConfirmPipelineReset"

AtMostOneChainEvent == AtMostOneChain(queue)

QueuedRefsAreSafe == RefsAre(queue, safe)

ConfirmAfterTruncate == HasConfirm(queue) => DBBelowSafe

(* Inductive invariant: DBNotAhead with the facts above.                   *)
IInv ==
  /\ TypeOK
  /\ AtMostOneChainEvent
  /\ QueuedRefsAreSafe
  /\ ConfirmAfterTruncate
  /\ DBNotAhead

-----------------------------------------------------------------------------
(* The strengthening of DBComplete.  Without a supervisor, a block the     *)
(* pipeline derives while ready is recorded before the bus empties, unless *)
(* its SafeHeadUpdated failed: then the Reset emitted by onSafeDerivedBlock *)
(* (state.go 380) is on the bus, and the engine reset it leads to clears   *)
(* ready.  A queued ConfirmPipelineReset comes from a reset confirmed at   *)
(* the current safe head, and while an EngineResetConfirmed is queued the *)
(* pipeline is not ready.                                                  *)

RecordKinds == {"SafeDerived", "Reset", "ResetEngineRequest"}

\* Sequence s of events holds an event of a kind in K.
HasKind(s, K) == \E i \in 1 .. Len(s) : s[i].kind \in K

ConfirmAtBase == HasConfirm(queue) => resetBase = safe

ConfirmedResetNotReady == HasKind(queue, {"EngineResetConfirmed"}) => ~ready

RecordedSinceReset ==
  (~ManagedMode /\ SafeDBEnabled /\ ready) =>
    /\ resetBase <= safe
    /\ (resetBase + 1) .. (safe - 1) \subseteq db
    /\ \/ safe \in db \/ safe = resetBase
       \/ HasKind(queue, RecordKinds)

(* Inductive invariant of DBComplete, with IInv.                           *)
RecordInv ==
  /\ IInv
  /\ ConfirmAtBase
  /\ ConfirmedResetNotReady
  /\ RecordedSinceReset
=============================================================================
