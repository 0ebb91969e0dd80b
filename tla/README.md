# TLA+ verification of the cp-node rollup driver

This directory models three parts of the repository in TLA+:

- the rollup driver of cp-node (`src/cp-node/rollup/driver/state.go`);
- the node's lifecycle (`src/cp-node/node/node.go`);
- the `RewardManager` contract.

The models are checked with TLC on small instances. TLAPS proves these
for every value of the constants:

- the driver's database safety;
- that the driver implements an abstract safe-head protocol;
- the node's resource cleanup.

## The system

The driver is one goroutine, `Driver.eventLoop` (state.go 159-299).

- **Start of each iteration.** The loop drains a synchronous FIFO event
  bus. Each event is handed to the registered derivers.
- **Pre-select emissions.** Under CL sync it then emits `FinalizeL1` and
  `StepReq` (236-240).
- **The select** (242-297) waits on these cases:
  - the step scheduler's timer;
  - the alt-sync ticker;
  - gossiped unsafe payloads;
  - state requests (`BlockRefWithStatus`);
  - forced resets;
  - the sequencer.

`SyncDeriver.OnEvent` (340-372) handles steps, retries, resets, idle
notifications and safe-head notifications. `SyncStep` (424-477) emits the
engine's events and **re-enters the bus drain** between them: other handlers
run in the middle of a step.

The reset protocol runs as a chain of events:

1. `ResetEvent` (onResetEvent, 410-420);
2. `ResetEngineRequest`;
3. `EngineResetConfirmed` (onEngineConfirmedReset, 385-408);
4. `ConfirmPipelineReset`.

Step 3 truncates the safe-head database to the new safe head before it
confirms. In managed mode step 1 only waits, and a supervisor issues the
engine reset.

Under EL sync, `Driver.Start` first copies blocks from an EL source in
batches (`syncUnsafeBlocks`, 565-604). The alt-sync ticker keeps doing so
while the node is more than 5 blocks behind (`checkSyncUnsafeBlocks`,
606-645). Both size their batches with `clamp` (647-657).

The base-layer callbacks `OnL1Head`, `OnL1Safe` and `OnL1Finalized`
(120-147) send on channels buffered to 10. The node
(`src/cp-node/node/node.go`) calls them with a 10 s timeout (node.go 391).

## Modules

| Module | Models |
|---|---|
| `GoInt` | The uint64/int64 conversions and `clamp`. `Word` is the modulus of uint64; models use 256. |
| `SyncDeriver` | Event loop, event bus, SyncDeriver handlers, `SyncStep`, the start-up EL sync, and `OnL1Head`. |
| `MC_SyncDeriver` | The module TLC runs. It extends `SyncDeriver`; constants are given in the `.cfg` files. |
| `SyncDeriver_proofs` | The TLAPS theorems about `SyncDeriver` and `SafeHeadProtocol`, and their lemmas. |
| `SyncDeriverDB_proofs` | The TLAPS proof of `DBComplete` through its strengthening `RecordInv`. |
| `SyncDeriverHeads_proofs` | The TLAPS proof that `SyncDeriver` implements `ForkChoiceProtocol`. |
| `ForkChoiceProtocol` | The abstract promise about the unsafe, safe and finalized heads. `SyncDeriver` implements it (`Heads == INSTANCE ForkChoiceProtocol WITH ...`, the identity on the three heads). |
| `SafeHeadProtocol` | The abstract promise of the safe-head database. `SyncDeriver` implements it (`Abs == INSTANCE SafeHeadProtocol WITH safe <- safe, db <- db, ready <- ready`). |
| `NodeLifecycle` | The node's lifecycle in `node.go`: `New` and its init steps, `Start`, the critical-error handler, every step of `Stop`, `Driver.Close`, and the two threads that use the p2p node. |
| `MC_NodeLifecycle` | The module TLC runs for `NodeLifecycle`. |
| `NodeLifecycle_proofs` | The TLAPS proofs of `LeakInv`, `NoSilentLeak`, the refinement of `ResourceLifecycle` and its corollary `NoAcquireAfterInit`. |
| `ResourceLifecycle` | The abstract promise of a node about its resources. `NodeLifecycle` implements it (`Life == INSTANCE ResourceLifecycle WITH ...`). |
| `RewardManager` | The fee and claim accounting of `RewardManager.sol`. |
| `MC_RewardManager` | Share tables for TLC. |
| `RewardManager_proofs` | The TLAPS proof of `OperatorPaidNotAboveEarned`. |

### How SyncDeriver maps to the code

Block references are block numbers.

State:

- `queue` is the bus, in emission order.
- `step` is SyncStep's program counter: which of its drains is running.
- `unsafe`, `safe`, `finalized` and `syncing` are the engine's heads and
  its EL-syncing flag.
- `ready` is `DerivationReady()`.
- `db` is the set of blocks recorded in the safe-head database.
- `l1HeadBuf` is the fill level of `l1HeadSig`.
- `started` says `Start` has returned.
- History variables: `resetBase`, the base of the last reset; `l1Dropped`,
  an `OnL1Head` call timed out.
- `faults` counts injected failures and is bounded by `MaxFaults`. The
  failures are listener errors, RPC errors and "reset required" results.

Actions:

- **Handlers.** One action per handler, in `Handle`. Each takes the head of
  the bus and appends what the handler emits, so a handler is atomic, as in
  the code.
- **Select cases.** One action per case, in `Loop`. A case is enabled only
  when the bus is empty and no SyncStep is running. Each includes the
  pre-select emissions `LoopPre`.
- **SyncStep.** `OnStep` starts it and `SyncStepResume` continues it after
  each nested drain.
- **Sources outside `src/`.** The engine controller, engine reset deriver,
  derivation pipeline, finalizer, CL-sync and step scheduler are not under
  `src/`. Their handlers are modelled coarsely from `spec.md`; PROJECT.json
  marks them `spec_modelled`.
- **Initial state.** `Init` is a state after any restart: the engine heads
  are arbitrary, and the persisted database may lie **ahead** of the safe
  head.

### How SafeHeadProtocol relates to SyncDeriver

`SafeHeadProtocol` has the variables `safe`, `db` and `ready` and five
steps:

- `Advance`: while ready, the safe head moves up one block.
- `Record`: the safe head is added to the database.
- `Rollback`: ready becomes false and the safe head may move back.
- `Truncate`: entries above the safe head are dropped; the safe head
  itself may be added (the genesis entry).
- `Confirm`: ready becomes true, only if no entry is above the safe head.

The refinement mapping is the identity on these three variables. Each
driver handler maps to one step:

| Driver action | Abstract step |
|---|---|
| `OnPendingSafeRequest`, ready branch | `Advance` |
| `OnSafeDerived`, listener success | `Record` (the queued block is the safe head, by `QueuedRefsAreSafe`) |
| `OnResetEngineRequest`, `LoopForceReset` | `Rollback` |
| `OnEngineConfirmedReset`, truncation | `Truncate` |
| `OnConfirmPipelineReset` | `Confirm` (the database is already truncated, by `ConfirmAfterTruncate`) |
| every other action | stutter |

### How ForkChoiceProtocol relates to SyncDeriver

`ForkChoiceProtocol` has the variables `unsafe`, `safe` and `finalized`
and four steps:

- `Extend`: the unsafe head moves to any block at or above it.
- `Derive`: the safe head moves up one block, and the unsafe head up to
  it if it was behind.
- `Reset`: the safe head moves back within `finalized .. safe`, the
  unsafe head back within `safe' .. unsafe`; finalized is unchanged.
- `Finalize`: the finalized head moves forward, up to the safe head.

The refinement mapping is the identity on the three heads:

| Driver action | Abstract step |
|---|---|
| `StartSyncTick`, `LoopAltSyncTick`, `LoopUnsafePayload`, `OnReceivedUnsafePayload` | `Extend` (or a stutter) |
| `OnPendingSafeRequest`, advance branch | `Derive` |
| `OnResetEngineRequest` | `Reset` |
| `OnFinalizeL1` | `Finalize` |
| every other action | stutter (lemma `HeadsFixedKeep`) |

The reset of the code picks its new safe head from `finalized .. safe - 1`
(or keeps it at finalized). This is inside the protocol's range only
because `finalized <= safe` holds before the step. So the step proof
needs `HeadsOrdered`.

### How NodeLifecycle maps to node.go

- `opc` is the owner's place: init, start, running, stop, failed
  (New returned an error) or stopped.
- `built` holds the resources whose field is set; `open` those not yet
  closed.
- `result` holds the closes of the current Stop that returned an error.
- `closed` is `n.closed`; `p2pField` says `n.p2pNode` is set.
- `drv` is the driver's event loop; `upc` and `handle` are the two users
  of the p2p node (the driver loop's alt-sync requests and the gossip
  handler).
- `InitStep` runs the next step of `init` (`InitSteps`). A failing step
  leaves what it already assigned (`FailBuilds`): `initL2` can fail after
  the engine client or after the safe-head DB, and `initPProf` after the
  service is assigned. New then calls Stop.
- `Stop` is a sequence of steps (`StopSeq`), in the code's order. A close
  is skipped when its field is nil. A close may fail; the error is
  collected, and the resource may or may not be released. The p2p close
  runs under `p2pMu` and sets the field to nil whatever it returns.
  `StopMark` is `closed.Store(true)` when no error was collected.
- `Driver.Close` is two steps: `StopDriverCancel` cancels the driver
  context, and `StopDriverWait` waits for the loop (`LoopExit`).
- `Acquire` is `getP2PNodeIfEnabled`, which holds `p2pMu` only for the
  read. `UseHandle` is the use of the result after the unlock.

### How ResourceLifecycle relates to NodeLifecycle

`ResourceLifecycle` states what the node promises about its resources:

- it acquires them only while it is constructed (`Acquire`, or `Abort`
  when a construction step fails);
- it releases them only while closing (`Close(r)`, which either releases
  r or reports it);
- it is marked closed only while no close has failed (`Mark`);
- its close returns only when every resource still held is reported
  (`Finish`).

The mapping (`NodeLifecycle.Life`) is not the identity:

- `phase` is `Phase`, computed from the owner's `opc`;
- `held` is `open`;
- `reported` is `Reported`: the errors of the Stop in progress, empty
  before the first Stop;
- `marked` is `closed`.

Init steps map to `Acquire` or `Abort`. `AppStop` and a cancelling
`CriticalError` map to `BeginClose`. Each close of Stop is a `Close`, and
`StopMark` is `Mark` when no error was collected. `StopReturn` is
`Finish`. Every other step is a stutter. The refinement holds under CL
sync and a single Stop. Without those premises `Finish` is not enabled
when Stop returns: that is findings 3 and 4.

### How RewardManager maps to the contract

Each external function is one atomic step. A failing `require`, or a
checked underflow (Solidity 0.8), reverts the transaction: the step is
disabled. The value transfer of a claim is a low-level call. When it fails
the claim returns false and does not revert; `ok` chooses the outcome.
A re-entrant claim from the recipient runs after the state update, so it
equals a later claim and is not a separate step. History variables
(`earned`, `paid`, `credited`, `entitled`, `received`) record what was
credited and paid.

## Runs

| Run | cfg | Checks | Result |
|---|---|---|---|
| cl_db_safety | `SyncDeriver_CL.cfg` | TypeOK, DBNotAhead, IInv, DBComplete, RecordInv, ResetCompletes, AbsSpec | pass, 175,650 states |
| el_heads | `SyncDeriver_EL.cfg` | HeadsOrdered, UnsafeRewindsOnlyInReset, HeadsSpec | pass, 71,511 states |
| managed_db_safety | `SyncDeriver_Managed.cfg` | DBNotAhead, IInv, AbsSpec | pass, 265,872 states |
| l1_head_signals | `SyncDeriver_L1Sig.cfg` | L1HeadSignalsConsumed | violated (finding) |
| el_start_sync | `SyncDeriver_ELStart.cfg` | SyncedAfterStart | violated (finding) |
| node_cl | `Node_CL.cfg` | NoSilentLeak, LeakInv, StopReturns, ImplementsLifecycle | pass, 1,616 states |
| node_el_leak | `Node_ELLeak.cfg` | NoSilentLeak | violated (finding) |
| node_retry | `Node_Retry.cfg` | NoSilentLeak | violated (finding) |
| node_p2p_race | `Node_P2PRace.cfg` | NoP2PUseAfterClose | violated (finding) |
| reward | `Reward.cfg` | OperatorPaidNotAboveEarned, StakersPaidNotAboveCredited | pass, 43,319 states |
| reward_overwrite | `Reward_Overwrite.cfg` | OperatorPaidInFull | violated (finding) |
| reward_reclaim | `Reward_Reclaim.cfg` | StakerFairShare | violated (finding) |

What the properties say:

- **DBNotAhead.** While derivation is ready, no database entry is above the
  engine's safe head. This is the invariant the reset protocol exists to
  establish.
- **DBComplete.** At quiescence, every block derived since the last reset
  is recorded.
- **RecordInv.** This is the inductive strengthening of DBComplete,
  described under the proofs of `SyncDeriverDB_proofs`.
- **ResetCompletes.** Leaving the ready state is always followed by
  returning to it.
- **HeadsOrdered.** finalized <= safe <= unsafe holds through EL-sync
  insertions.
- **UnsafeRewindsOnlyInReset** (action property). Only an engine reset
  moves the unsafe head back. The EL-sync paths and CL-sync insertion
  only extend it.
- **AbsSpec.** The driver implements `SafeHeadProtocol`.
- **HeadsSpec.** The driver implements `ForkChoiceProtocol`. It is
  checked under EL sync (`el_heads`), where the insertions of
  `state.go` move the heads. Under CL sync every head change is in a
  handler modelled from the spec (the engine, the finalizer, CL sync), so
  a run there would only restate those definitions. `TypeOK` is checked
  in `cl_db_safety` only: the other driver runs would repeat it.
- **NoSilentLeak.** Once New or Stop has returned, every resource the
  node built is closed, or its close failed and the error was returned.
  `LeakInv` is its inductive strengthening.
- **StopReturns.** Stop always returns: the driver loop it waits for exits.
- **ImplementsLifecycle.** The node implements `ResourceLifecycle`.
- **NoP2PUseAfterClose.** No thread uses a p2p handle after the node was
  closed.
- **OperatorPaidNotAboveEarned.** No operator is paid more than it was
  credited.
- **StakersPaidNotAboveCredited.** The stakers together never receive more
  than the stake fees credited.
- **OperatorPaidInFull.** Every operator fee credited is paid or still
  claimable.
- **StakerFairShare.** No staker receives more than its share of the
  stake fees.

Every property of a passing run has a mutant in PROJECT.json. Each mutant
is a plausible bug:

- a dropped head check;
- a missing channel bound;
- a reset that skips the engine;
- confirming after a failed truncation;
- a failed notification with no reset;
- Stop not closing the safe-head DB;
- init building the EL client in every sync mode;
- `Driver.Close` waiting without cancelling;
- a claim that does not reset the operator's reward;
- a staker claim that does not deduct from the pool;
- a mark of the node as closed that ignores collected errors.

TLC finds each mutant violating its property.

Bounds:

- `MaxL2 = 3` gives four blocks, which is enough for a database entry to
  lie strictly between the safe and unsafe heads.
- `MaxFaults = 2` allows one failure during a reset and another after it.
- `MaxBatch = 2` makes a range need more than one batch.
- Node: `MaxFaults = 2` lets one init step fail and then a close of the
  Stop it triggers fail too. Both users of the p2p node are present.
  `MaxStops = 1` in the passing run; `Node_Retry.cfg` uses 2.
- Reward: two operators and two stakers with unequal shares, two fees, two
  stake percents, and `MaxTx = 6` transactions. That is enough for two fees,
  a deposit and claims by both kinds of claimant.
- `Word = 256` exceeds twice the block numbers plus the constants the code
  subtracts. Every wrapped comparison therefore comes out as it would with
  2^64: `ELLatest - 5` still wraps when `ELLatest < 5`.

### Findings

1. **Base-layer signals are never read** (state.go 242, spec §4.I).
   - The select has no case for `l1HeadSig`, `l1SafeSig` or
     `l1FinalizedSig`.
   - After 10 heads, `OnL1Head` blocks.
   - Each later call times out after 10 s in node.go.
   - `L1HeadSignalsConsumed` is violated.
2. **Start-up EL sync stops one block short** (state.go 580).
   - Suppose the EL source is exactly one block ahead.
   - `clamp(unsafe+1, latest, size)` returns `unsafe+1`.
   - `startHeight >= endHeight` treats the one-block range as done.
   - `checkSyncUnsafeBlocks` only fetches when more than 5 blocks behind,
     so the gap stays.
   - `SyncedAfterStart` is violated. Spec scenario S6 expects the head to
     reach the EL latest block.

3. **Stop never closes the EL client** (node.go 490).
   - Under EL sync, `initElClient` sets `n.elClient`.
   - `Stop` has no close for it and returns nil, although its doc comment
     says it closes all resources.
   - `NoSilentLeak` is violated in `node_el_leak`.
4. **A retried Stop reports success with the p2p node unclosed**
   (node.go 584).
   - Stop sets `n.p2pNode = nil` even when its close fails.
   - It marks the node closed only when no error was collected.
   - A second Stop skips the p2p node, succeeds and stores `closed`.
5. **The p2p mutex guards only the read** (node.go 653).
   - `getP2PNodeIfEnabled` returns the handle and unlocks.
   - `RequestL2Range` and `OnUnsafeL2Payload` use it afterwards, so Stop
     can close it in between.
   - Spec section 4 ("P2P mutex") presents the mutex as protection against
     concurrent teardown.
6. **A critical error with no cancel function panics** (node.go 378).
   - The field comment says `cancel` may be nil, and `onEvent` calls it
     unchecked. Spec section 7 says handlers never panic.
   - `CriticalError` models this as the flag `panicked`. No run checks it;
     PROJECT.json lists it as a hazard.
7. **payFee overwrites unclaimed rewards** (RewardManager.sol 54, 58).
   - It assigns with `=` instead of `+=`.
   - A second fee before a claim discards the first.
8. **Stakers can claim repeatedly** (RewardManager.sol 101).
   - The claim is recomputed from the shared pool.
   - Nothing records what a staker already received.

## Fairness

The drain and SyncStep run whenever they can, so they are weakly fair
(`WF`). The step timer and the alt-sync ticker are strongly fair (`SF`).
Once they have fired, they stay ready at every select, and Go picks
uniformly at random among ready cases.

Nothing is fair for these events, because they are external:

- gossip;
- state requests;
- forced resets;
- base-layer heads;
- the supervisor.

In `NodeLifecycle`, the owner's init and stop steps, the loop's exit and
each user's use of its handle are weakly fair: each is a goroutine that
runs when it can. `AppStop` and `CriticalError` are not fair: the
application decides when to stop, and critical errors come from outside.

## Proofs (`SyncDeriver_proofs`)

The theorems assume `ConstAssumption` and `WordAssumption` and hold for
any number of blocks, faults and batch size, in either sync mode and
either managed setting.

- **`TypeCorrect`: `Spec => []TypeOK`.** The proof splits TypeOK into its
  Boolean flags (proved with Zenon) and its data (proved with SMT).
- **`DBSafety`: `Spec => []DBNotAhead`.** DBNotAhead alone is not
  inductive: a queued `ConfirmPipelineReset` could set `ready` while the
  database is still ahead. The proof uses the strengthening
  `IInv = TypeOK /\ AtMostOneChainEvent /\ QueuedRefsAreSafe /\
  ConfirmAfterTruncate /\ DBNotAhead`:
  - the bus holds at most one event of the reset chain;
  - queued `SafeDerived` and `EngineResetConfirmed` events carry the
    current safe head;
  - a queued confirmation implies the database is already truncated.

  TLC checks `IInv` as an invariant in two runs. The proof shows three
  facts: `Init => IInv`, `IInv` is preserved by every action (one case
  per action), and `IInv => DBNotAhead`. The lemmas about the bus are
  stated once, using `SequenceTheorems`. They say how `Tail` and `\o`
  preserve "chain-free" and "at most one chain event".
- **`PipelineInvariant`: `Spec => []IInv`.** The same three facts state
  the strengthening itself, which `cl_db_safety` and `managed_db_safety`
  check.
- **`HeadsSafety`: `Spec => []HeadsOrdered`.** HeadsOrdered is inductive
  once TypeOK holds, so the proof uses `TypeCorrect` and no further
  strengthening. The step lemma `HeadsStep` has one case per action that
  moves a head:
  - the EL-sync insertions (`StartSyncTick`, `LoopAltSyncTick`) only raise
    the unsafe head, because `InsertRange` writes the last fetched block
    only when it is at least `unsafe + 1`; `ClampInt` makes the batch end
    an integer whatever the uint64 wrapping does;
  - the payload case keeps the larger of the two heads;
  - derivation raises the unsafe head with the safe head;
  - the engine reset picks the new safe head between the finalized head
    and the old safe head, and the new unsafe head between the new safe
    head and the old unsafe head;
  - the finalizer never finalizes above the safe head.
- **`UnsafeRewindSafety`: `Spec => UnsafeRewindsOnlyInReset`.** This is an
  action property. The step lemma `UnsafeStep` shows that every action
  other than the engine reset leaves `unsafe' >= unsafe`. The temporal
  step then combines it with `[]TypeOK`.

- **`Refinement`: `Spec => AbsSpec`.** The initial states map to
  `AbsInit`: the database may be ahead, but the pipeline is not ready. The
  step lemma `RefStep` shows `IInv /\ [Next]_vars` implies an abstract
  step or a stutter, one case per action. It needs `IInv`:
  - `Record` needs the queued `SafeDerived` block to be the safe head
    (`QueuedRefsAreSafe`);
  - `Confirm` needs the database truncated (`ConfirmAfterTruncate`).

## Proofs (`SyncDeriverDB_proofs`)

This module extends `SyncDeriver_proofs` and reuses its lemmas about the
bus. It makes the same assumptions on the constants.

- **`DBCompleteness`: `Spec => []DBComplete`.** DBComplete is not
  inductive. Between `onSafeDerivedBlock` and the next quiescent point,
  the safe head runs ahead of the database. The strengthening is
  `RecordInv = IInv /\ ConfirmAtBase /\ ConfirmedResetNotReady /\
  RecordedSinceReset`:
  - `ConfirmAtBase`: a queued `ConfirmPipelineReset` comes from a reset
    confirmed at the current safe head, so `resetBase = safe`;
  - `ConfirmedResetNotReady`: while an `EngineResetConfirmed` is queued,
    the pipeline is not ready;
  - `RecordedSinceReset`: without a supervisor, with the database
    enabled and the pipeline ready, every block from `resetBase + 1` to
    `safe - 1` is recorded, and so is `safe`, unless it is `resetBase`
    or a `SafeDerived`, `Reset` or `ResetEngineRequest` is on the bus.
    Those three events are the ways the block still gets recorded or
    rolled back: its own record; the Reset that a failed
    `SafeHeadUpdated` emits (state.go 380); and the engine reset that
    this Reset leads to, which clears ready.
- **`RecordInvariant`: `Spec => []RecordInv`.** This is the
  strengthening itself, which `cl_db_safety` checks.
- The step lemma `RStep` has one case per action:
  - Handlers of events that are neither recording events nor watched
    events go through `QuietRecord`. Loop, SyncStep and supervisor steps
    on an empty bus go through `EmptyRecord`. The reset handlers and
    derivation (`OnPendingSafeRequest`) are argued directly.
  - Derivation advances the safe head only when the bus holds no
    recording event. `IInv` gives this: its head is the one chain event.
    So the old safe head is recorded or is the reset base, and the
    `SafeDerived` it queues covers the new one.
  - The lemmas `KindTail`, `KindCat`, `KindOne` and `KindPair` say how
    `HasKind` behaves under `Tail` and `\o`.
  - `TailFreeKinds` says a handler of a chain event leaves on the bus
    only the chain events it appends. It follows from `IInv`'s
    at-most-one-chain-event fact.

## Proofs (`SyncDeriverHeads_proofs`)

This module extends `SyncDeriver_proofs` and makes the same assumptions
on the constants.

- **`HeadsRefinement`: `Spec => HeadsSpec`.** The initial state maps to
  `HInit`. The step lemma `HeadsRefStep` has one case per action that
  moves a head, and `HeadsFixedKeep` covers the rest. It assumes
  `TypeOK /\ TypeOK' /\ HeadsOrdered`:
  - `TypeOK'` makes an inserted unsafe head a natural;
  - `HeadsOrdered` places the engine reset's new safe head in
    `finalized .. safe`.
  `TypeCorrect` and `HeadsSafety` supply both for every reachable state.
- Not stated: that the driver's finalized head never moves back. Only
  `OnFinalizeL1` changes it, and that handler is modelled from the spec
  (the finalizer is not under `src/`), so such a theorem would hold
  whatever the code does.

## Proofs (`NodeLifecycle_proofs`)

- **`NoLeak`.** Assume CL sync and a single Stop (`OneStopCL`). Then
  `Spec => []NoSilentLeak`, for any fault budget, users and cancel
  setting.
- The inductive invariant is `LeakInv`. It says:
  - no EL client is built;
  - before Stop nothing is closed or marked;
  - until Stop passes the p2p close, `n.p2pNode` is set exactly when the
    p2p node was built;
  - every close Stop has passed left its resource closed or reported.
- At `StopReturn`, every built resource lies in `StopSeq` (`StopCovers`).
  So the last conjunct gives `NoSilentLeak`.
- The premises are necessary. `node_el_leak` and `node_retry` show the
  property fails without either one.
- The Boolean part of the type invariant (`BoolOK`) is proved with Zenon.
  The rest (`DataOK`, `LeakRest`) is proved with SMT.
- **`StopAccounting`.** Under `OneStopCL`, `Spec => []LeakInv`. This is
  the invariant `node_cl` checks, and `NoLeak` is its corollary.
- **`LifecycleRefinement`.** Under `OneStopCL`, `Spec => ImplementsLifecycle`:
  - the initial state maps to `LifeInit`;
  - the step lemma `LifeStep` shows that `LeakInv /\ LeakInv' /\
    [Next]_vars` implies a `ResourceLifecycle` step or a stutter, one case
    per action;
  - `LeakInv` gives `stops = 1` inside Stop, so `Reported` is `result`
    there; and before `StopBegin`, `stops = 0` and `closed` is false;
  - `LeakInv'` gives `Finish` its guard at `StopReturn`.
- **`NoAcquireAfterInit`.** Under `OneStopCL`, no resource of the node is
  opened once New's init sequence is over. It follows from
  `LifecycleRefinement` and the lemma `LifeAcquireSafety` (in the
  protocol only construction adds resources).
- Whether Stop marks the node closed only when every closed resource was
  released is not stated: with one Stop it is `StopMark`'s `result == nil`
  guard, and the retried Stop where it fails is finding `node_retry`.

## Proofs (`RewardManager_proofs`)

- **`OperatorPaymentSafety`: `Spec => []OperatorPaidNotAboveEarned`.**
  It holds for all chain bases, operators, stakers, share tables, fees,
  percentages and call outcomes that satisfy `RewardAssumption`.
- The inductive invariant is `CreditCovers`:
  `paid[o] + operatorRewards[o] <= earned[o]`, with the types of those
  variables.
  - `payFee` adds to `earned` exactly what it assigns to the reward. The
    overwrite of finding 7 only loses credit, so the inequality survives.
  - A claim zeroes the reward and pays at most that amount. A failed
    value call pays nothing.
- `OperatorPaidInFull`, the equality, does not hold (finding 7 and failed
  calls). That is why the invariant is an inequality.
- Lemma `FeeSplit` shows that the fee split of `payFee` yields a natural
  when the transaction is not reverted.

What only TLC checks:

- The liveness properties (`ResetCompletes`, `L1HeadSignalsConsumed`),
  and anything involving `ENABLED`. These are beyond the TLAPS backends.
- `StopReturns` is liveness.
- `StakersPaidNotAboveCredited` compares two sums over functions
  (`SumFunction`, a fold). Any lemma about how a fold changes under
  `EXCEPT` needs induction over finite sets. The library's induction
  theorems take the induction predicate as an operator parameter, and
  the installed provers cannot instantiate it. So this property stays
  with TLC.

## Not modelled

- **The sequencer.** Its select case is not in the model. In the node it
  is disabled, so `StopSequencer` returns `ErrSequencerNotEnabled`, which
  Stop ignores.
- **`l1Safe`/`l1Finalized` signals.** `OnL1Safe` and `OnL1Finalized` block
  exactly as `OnL1Head` does, so modelling them would add nothing.
- **The CL-sync payload queue and `checkForGapInUnsafeQueue`.** The gap
  check only sends a signal. In `NodeLifecycle` it only decides when the
  loop uses the p2p node (`Active`).
- **The halt idle in Stop** (node.go 588-597). `n.halted` is never stored
  anywhere in `node.go`, so the 5-minute idle of spec section 7 never
  happens.
- **The interop subsystem.** It is off, because `InteropTime` is nil.
- **The L1 subscriptions, `PublishL2Payload` and the runtime-config
  reloader.** The L1 subscriptions' unsubscribe and `resourcesClose`
  cannot fail.
- **RPC block verification** (`src/unnamed/part_005`), deployer tooling,
  build files and tests. None of these has concurrent state; they are
  pure computation or I/O.
