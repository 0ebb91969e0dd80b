---------------------------- MODULE NodeLifecycle ----------------------------
(***************************************************************************)
(* The lifecycle of the rollup node (src/cp-node/node/node.go): New runs  *)
(* the init steps in order and calls Stop when one fails; Start starts the *)
(* driver; Stop closes the node's resources one after the other and marks *)
(* the node closed only when every close before the mark succeeded.       *)
(*                                                                         *)
(* Two other threads use the p2p node through getP2PNodeIfEnabled, which   *)
(* reads n.p2pNode under p2pMu and returns it: the driver's event loop     *)
(* (alt-sync RequestL2Range, CL sync only) and the p2p gossip handler      *)
(* (OnUnsafeL2Payload).  Every section that holds p2pMu (initP2P, the p2p  *)
(* part of Stop, the read in getP2PNodeIfEnabled) is one atomic step; the *)
(* use of the returned handle happens after the unlock, a step of its own. *)
(* A resource is a name; "open" holds the resources still to be closed.   *)
(***************************************************************************)
EXTENDS Naturals, Sequences, FiniteSets

CONSTANTS
  ELSyncMode,   \* cfg.Sync.SyncMode = sync.ELSync
  CancelSet,    \* cfg.Cancel /= nil
  MaxFaults,    \* bound on failing init steps and failing closes
  MaxStops,     \* how many times the owner calls Stop
  Users         \* threads that use the p2p node: "loop", "gossip"

ASSUME NodeAssumption ==
  /\ ELSyncMode \in BOOLEAN /\ CancelSet \in BOOLEAN
  /\ MaxFaults \in Nat /\ MaxStops \in Nat \ {0}
  /\ Users \subseteq {"loop", "gossip"}

\* The steps of init (node.go 128-164), in order.
InitSteps == <<"tracer", "eventSys", "elClient", "l2", "runtimeConfig",
               "signer", "p2p", "server", "metrics", "pprof">>

\* Mutant: Stop forgets to close the safe-head database.
StopSeq_noSafeDB == <<"server", "p2p", "signer", "driver", "l2Source",
                      "markClosed", "pprof", "metrics">>

\* Stop (490-612): the closes in order; "markClosed" is closed.Store(true)
\* when no error was collected (584-586).  The sequencer is disabled
\* (StopSequencer returns ErrSequencerNotEnabled, ignored), and the L1
\* subscriptions, resourcesClose and eventSys.Stop cannot fail.
StopSeq == <<"server", "p2p", "signer", "driver", "safeDB", "l2Source",
             "markClosed", "pprof", "metrics">>

\* Closes that return an error Stop collects.
Fallible == {"server", "p2p", "signer", "safeDB", "pprof", "metrics"}

\* Mutant: init runs initElClient whatever the sync mode.
Builds_noELGuard(s) ==
  IF s = "l2" THEN {"l2Source", "safeDB", "driver"}
  ELSE IF s \in {"elClient", "signer", "p2p", "server", "metrics", "pprof"}
       THEN {s} ELSE {}

\* What a successful init step constructs.
Builds(s) ==
  IF s = "l2" THEN {"l2Source", "safeDB", "driver"}
  ELSE IF \/ s = "elClient" /\ ELSyncMode
          \/ s \in {"signer", "p2p", "server", "metrics", "pprof"}
       THEN {s} ELSE {}

\* What a failing init step leaves constructed: initL2 fails after the
\* engine client or after the safe-head DB (ValidateL2Config, NewSafeDB,
\* ChainOpConfig nil); initPProf assigns n.pprofService before Start fails.
FailBuilds(s) ==
  IF s = "l2" THEN {{}, {"l2Source"}, {"l2Source", "safeDB"}}
  ELSE IF s = "pprof" THEN {{"pprof"}} ELSE {{}}

\* initTracer and initEventSystem cannot fail; initElClient only runs
\* under EL sync.
CanFailStep(s) == s \notin {"tracer", "eventSys"} /\ (s = "elClient" => ELSyncMode)

Resources == {"elClient", "l2Source", "safeDB", "driver", "signer", "p2p",
              "server", "metrics", "pprof"}

VARIABLES
  opc,         \* owner: "init", "start", "running", "stop", "failed", "stopped"
  initIdx,     \* next init step
  stopIdx,     \* next element of StopSeq
  caller,      \* who runs Stop: "new" (failed init) or "app"
  built,       \* resources whose field is set
  open,        \* resources not yet closed
  result,      \* closes of the current (or last) Stop that returned an error
  closed,      \* n.closed
  stops,       \* Stop calls so far
  p2pClosed,   \* p2pNode.Close() has been called
  p2pField,    \* n.p2pNode /= nil
  drv,         \* driver: "none", "new", "running", "cancelled", "exited"
  upc,         \* p2p users: "idle" or "acquired"
  handle,      \* the handle a user got from getP2PNodeIfEnabled is non-nil
  faults,
  panicked     \* a goroutine panicked

vars == <<opc, initIdx, stopIdx, caller, built, open, result, closed, stops,
          p2pClosed, p2pField, drv, upc, handle, faults, panicked>>
userVars == <<upc, handle>>

CanFail == faults < MaxFaults

-----------------------------------------------------------------------------
Init ==
  /\ opc = "init" /\ initIdx = 1 /\ stopIdx = 1 /\ caller = "new"
  /\ built = {} /\ open = {} /\ result = {} /\ closed = FALSE
  /\ stops = 0 /\ p2pClosed = FALSE
  /\ p2pField = FALSE /\ drv = "none"
  /\ upc = [u \in Users |-> "idle"] /\ handle = [u \in Users |-> FALSE]
  /\ faults = 0 /\ panicked = FALSE


Construct(S) ==
  /\ built' = built \cup S /\ open' = open \cup S
  /\ p2pField' = (p2pField \/ "p2p" \in S)
  /\ drv' = IF "driver" \in S THEN "new" ELSE drv

\* One step of init; when it fails New calls Stop (New, 100-126).
InitStep ==
  /\ opc = "init"
  /\ LET s == InitSteps[initIdx] IN
       \/ /\ Construct(Builds(s)) /\ UNCHANGED faults
          /\ IF initIdx = Len(InitSteps)
               THEN opc' = "start" /\ UNCHANGED <<initIdx, stopIdx>>
               ELSE initIdx' = initIdx + 1 /\ UNCHANGED <<opc, stopIdx>>
       \/ /\ CanFailStep(s) /\ CanFail /\ faults' = faults + 1
          /\ \E S \in FailBuilds(s) : Construct(S)
          /\ opc' = "stop" /\ stopIdx' = 0
          /\ UNCHANGED initIdx
  /\ UNCHANGED <<caller, result, closed, stops, p2pClosed, userVars, panicked>>

\* Node.Start (353-368): the driver's event loop starts (interop is off and
\* the sequencer disabled, so Driver.Start cannot fail).
Start ==
  /\ opc = "start"
  /\ opc' = "running" /\ drv' = "running"
  /\ UNCHANGED <<initIdx, stopIdx, caller, built, open, result, closed, stops,
                 p2pClosed, p2pField, userVars, faults, panicked>>

\* The application calls Stop on shutdown, and may call it again after a
\* Stop that returned, up to MaxStops calls.  A failed New returns no node.
AppStop ==
  /\ \/ opc = "running"
     \/ opc = "stopped" /\ stops < MaxStops
  /\ opc' = "stop" /\ stopIdx' = 0 /\ caller' = "app"
  /\ UNCHANGED <<initIdx, built, open, result, closed, stops, p2pClosed,
                 p2pField, drv, userVars, faults, panicked>>

\* onEvent (373-382): a CriticalErrorEvent calls n.cancel, which ends the
\* application (it then calls Stop); n.cancel may be nil.
CriticalError ==
  /\ opc = "running" /\ drv = "running"
  /\ IF CancelSet
       THEN opc' = "stop" /\ stopIdx' = 0 /\ caller' = "app"
            /\ UNCHANGED panicked
       ELSE panicked' = TRUE /\ UNCHANGED <<opc, stopIdx, caller>>
  /\ UNCHANGED <<initIdx, built, open, result, closed, stops, p2pClosed,
                 p2pField, drv, userVars, faults>>

-----------------------------------------------------------------------------
(* Stop (490-612).                                                         *)

StopVars == <<initIdx, caller, built, userVars, panicked>>

\* if n.closed.Load() { return ErrAlreadyClosed } (491-493).
StopBegin ==
  /\ opc = "stop" /\ stopIdx = 0
  /\ stops' = stops + 1
  /\ IF closed
       THEN /\ opc' = IF caller = "new" THEN "failed" ELSE "stopped"
            /\ UNCHANGED stopIdx
       ELSE stopIdx' = 1 /\ UNCHANGED opc
  /\ result' = IF closed THEN result ELSE {}
  /\ UNCHANGED <<StopVars, open, closed, p2pClosed, p2pField, drv, faults>>

\* The field of r is nil: never set, or n.p2pNode reset by an earlier Stop.
NilField(r) == r \notin built \/ (r = "p2p" /\ ~p2pField)

\* The close of one resource r, skipped when its field is nil.  The p2p
\* close runs under p2pMu and sets n.p2pNode = nil whatever it returns
\* (517-525).  An error is collected in result; the resource may or may
\* not have been released.
StopClose ==
  /\ opc = "stop" /\ stopIdx \in 1 .. Len(StopSeq)
  /\ LET r == StopSeq[stopIdx] IN
       /\ r \notin {"driver", "markClosed"}
       /\ IF NilField(r)
            THEN UNCHANGED <<open, result, faults, p2pClosed, p2pField>>
            ELSE /\ \/ open' = open \ {r} /\ UNCHANGED <<result, faults>>
                    \/ /\ r \in Fallible /\ CanFail /\ faults' = faults + 1
                       /\ result' = result \cup {r}
                       /\ open' \in {open, open \ {r}}
                 /\ p2pClosed' = (p2pClosed \/ r = "p2p")
                 /\ p2pField' = (p2pField /\ r /= "p2p")
  /\ stopIdx' = stopIdx + 1
  /\ UNCHANGED <<StopVars, opc, closed, stops, drv>>

\* l2Driver.Close (state.go 111-115): cancel the driver context, wait for
\* the event loop to return (wg.Wait), close the sequencer; it returns nil.
\* Mutant: Close waits for the loop without cancelling driverCtx first.
StopDriverCancel_noCancel ==
  /\ opc = "stop" /\ stopIdx \in 1 .. Len(StopSeq)
  /\ StopSeq[stopIdx] = "driver" /\ "driver" \in built
  /\ drv \in {"new", "running"}
  /\ UNCHANGED vars

StopDriverCancel ==
  /\ opc = "stop" /\ stopIdx \in 1 .. Len(StopSeq)
  /\ StopSeq[stopIdx] = "driver" /\ "driver" \in built
  /\ drv \in {"new", "running"}
  /\ drv' = IF drv = "new" THEN "exited" ELSE "cancelled"
  /\ UNCHANGED <<StopVars, opc, stopIdx, open, result, closed, stops,
                 p2pClosed, p2pField, faults>>

StopDriverWait ==
  /\ opc = "stop" /\ stopIdx \in 1 .. Len(StopSeq)
  /\ StopSeq[stopIdx] = "driver"
  /\ "driver" \in built => drv = "exited"
  /\ open' = open \ {"driver"} /\ stopIdx' = stopIdx + 1
  /\ UNCHANGED <<StopVars, opc, result, closed, stops, p2pClosed, p2pField,
                 drv, faults>>

\* Mutant: the node is marked closed whether or not a close failed.
StopMark_ignoreResult ==
  /\ opc = "stop" /\ stopIdx \in 1 .. Len(StopSeq)
  /\ StopSeq[stopIdx] = "markClosed"
  /\ closed' = TRUE
  /\ stopIdx' = stopIdx + 1
  /\ UNCHANGED <<StopVars, opc, open, result, stops, p2pClosed, p2pField,
                 drv, faults>>

\* if result == nil { n.closed.Store(true) } (584-586).
StopMark ==
  /\ opc = "stop" /\ stopIdx \in 1 .. Len(StopSeq)
  /\ StopSeq[stopIdx] = "markClosed"
  /\ closed' = (closed \/ result = {})
  /\ stopIdx' = stopIdx + 1
  /\ UNCHANGED <<StopVars, opc, open, result, stops, p2pClosed, p2pField,
                 drv, faults>>

\* return result.ErrorOrNil(); New returns its init error.
StopReturn ==
  /\ opc = "stop" /\ stopIdx = Len(StopSeq) + 1
  /\ opc' = IF caller = "new" THEN "failed" ELSE "stopped"
  /\ UNCHANGED <<StopVars, stopIdx, open, result, closed, stops, p2pClosed,
                 p2pField, drv, faults>>

-----------------------------------------------------------------------------
(* Users of the p2p node.                                                  *)

\* The driver loop requests alt-sync ranges while it runs (CL sync,
\* state.go 551-563); the gossip handler runs while the p2p node is up.
Active(u) ==
  IF u = "loop" THEN ~ELSyncMode /\ drv = "running"
  ELSE p2pField /\ ~p2pClosed

\* getP2PNodeIfEnabled (645-653): read n.p2pNode under p2pMu.
Acquire(u) ==
  /\ upc[u] = "idle" /\ Active(u)
  /\ upc' = [upc EXCEPT ![u] = "acquired"]
  /\ handle' = [handle EXCEPT ![u] = p2pField]
  /\ UNCHANGED <<opc, initIdx, stopIdx, caller, built, open, result, closed,
                 stops, p2pClosed, p2pField, drv, faults, panicked>>

\* The caller uses what it got after the unlock: RequestL2Range (459-473)
\* calls AltSyncEnabled and RequestL2Range on it, OnUnsafeL2Payload
\* (437-457) its Host().ID(); a nil handle is not used.
UseHandle(u) ==
  /\ upc[u] = "acquired"
  /\ upc' = [upc EXCEPT ![u] = "idle"]
  /\ handle' = [handle EXCEPT ![u] = FALSE]
  /\ UNCHANGED <<opc, initIdx, stopIdx, caller, built, open, result, closed,
                 stops, p2pClosed, p2pField, drv, faults, panicked>>

\* The event loop sees the cancelled context at its select and returns.
LoopExit ==
  /\ drv = "cancelled"
  /\ "loop" \in Users => upc["loop"] = "idle"
  /\ drv' = "exited"
  /\ UNCHANGED <<opc, initIdx, stopIdx, caller, built, open, result, closed,
                 stops, p2pClosed, p2pField, userVars, faults, panicked>>

-----------------------------------------------------------------------------
Owner ==
  \/ InitStep \/ Start \/ AppStop \/ CriticalError
  \/ StopBegin \/ StopClose \/ StopDriverCancel \/ StopDriverWait
  \/ StopMark \/ StopReturn

\* (A panic ends the process; the model keeps it as the flag panicked.)
Next ==
  \/ Owner \/ LoopExit
  \/ \E u \in Users : Acquire(u) \/ UseHandle(u)

\* Every goroutine that can proceed eventually does.  The application
\* chooses when to stop (AppStop) and errors are external (CriticalError):
\* neither is fair.
Fairness ==
  /\ WF_vars(InitStep \/ Start \/ StopBegin \/ StopClose \/ StopDriverCancel
             \/ StopDriverWait \/ StopMark \/ StopReturn)
  /\ WF_vars(LoopExit)
  /\ \A u \in Users : WF_vars(UseHandle(u))

Spec == Init /\ [][Next]_vars /\ Fairness

\* The refinement mapping to ResourceLifecycle: the owner's program counter
\* gives the phase, the resources not yet closed are the ones held, the
\* errors collected by the Stop in progress (none before the first Stop)
\* are the ones reported, and n.closed is the mark.
Phase ==
  CASE opc = "init" -> "opening"
    [] opc \in {"start", "running"} -> "open"
    [] opc = "stop" -> "closing"
    [] opc \in {"failed", "stopped"} -> "done"

Reported == IF stops = 0 THEN {} ELSE result

Life == INSTANCE ResourceLifecycle
          WITH phase <- Phase, held <- open, reported <- Reported,
               marked <- closed

-----------------------------------------------------------------------------
(* Properties.                                                             *)

TypeOK ==
  /\ opc \in {"init", "start", "running", "stop", "failed", "stopped"}
  /\ initIdx \in 1 .. Len(InitSteps) /\ stopIdx \in 0 .. Len(StopSeq) + 1
  /\ caller \in {"new", "app"}
  /\ built \subseteq Resources /\ open \subseteq built
  /\ result \subseteq Fallible
  /\ closed \in BOOLEAN /\ stops \in 0 .. MaxStops
  /\ p2pClosed \in BOOLEAN /\ p2pField \in BOOLEAN
  /\ drv \in {"none", "new", "running", "cancelled", "exited"}
  /\ upc \in [Users -> {"idle", "acquired"}] /\ handle \in [Users -> BOOLEAN]
  /\ faults \in 0 .. MaxFaults /\ panicked \in BOOLEAN

(* Stop's doc comment: "Stop stops the node and closes all resources".    *)
(* Whenever New or Stop has returned, every resource the node constructed *)
(* is closed, or its close failed and the error was returned.             *)
NoSilentLeak == opc \in {"failed", "stopped"} => open \subseteq result

(* Inductive strengthening of NoSilentLeak for one Stop under CL sync:     *)
(* the elClient is never constructed; before Stop nothing is closed or    *)
(* marked; until Stop passes the p2p close, n.p2pNode is set exactly when *)
(* the p2p node was built; and every close Stop has passed left its       *)
(* resource closed or reported.                                            *)
LeakInv ==
  /\ TypeOK
  /\ "elClient" \notin built
  /\ opc \in {"init", "start", "running"} => stopIdx = 1 /\ stops = 0 /\ ~closed
  /\ opc = "stop" /\ stopIdx = 0 => stops = 0 /\ ~closed
  /\ opc = "stop" /\ stopIdx >= 1 => stops = 1
  /\ opc \in {"failed", "stopped"} => stops = 1 /\ open \subseteq result
  /\ stopIdx <= 2 => (p2pField <=> "p2p" \in built)
  /\ opc = "stop" =>
       \A i \in 1 .. stopIdx - 1 : StopSeq[i] \in open => StopSeq[i] \in result

(* New, Start and Stop keep the node's resource promise: resources are    *)
(* acquired only by init, released only by Stop, the node is marked       *)
(* closed only while no close has failed, and New or Stop returns only     *)
(* when every resource still open is in the returned error.                *)
ImplementsLifecycle == Life!LifeSpec

(* Stop always returns: the driver's event loop it waits for exits.       *)
StopReturns == (opc = "stop") ~> (opc \in {"failed", "stopped"})

(* A thread never uses a p2p node handle after the node was closed: the   *)
(* mutex p2pMu is meant to keep the p2p teardown in Stop from racing its   *)
(* users (spec section 4.I, "P2P mutex").                                 *)
NoP2PUseAfterClose ==
  \A u \in Users : upc[u] = "acquired" /\ handle[u] => ~p2pClosed

=============================================================================
