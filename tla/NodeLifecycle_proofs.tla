------------------------- MODULE NodeLifecycle_proofs -------------------------
(***************************************************************************)
(* Proofs about NodeLifecycle.  NoSilentLeak holds for every number of    *)
(* faults, any set of p2p users and either cancel setting, provided the   *)
(* node runs CL sync (no EL client is built) and Stop is called once: the *)
(* runs node_el_leak and node_retry show it fails without either premise. *)
(***************************************************************************)
EXTENDS NodeLifecycle, TLAPS

USE NodeAssumption

\* The configuration the theorem is about.
OneStopCL == ~ELSyncMode /\ MaxStops = 1

\* Stop's sequence: its length, and which index closes which resource.
LEMMA StopSeqFacts ==
  /\ Len(StopSeq) = 9
  /\ StopSeq[1] = "server" /\ StopSeq[2] = "p2p" /\ StopSeq[3] = "signer"
  /\ StopSeq[4] = "driver" /\ StopSeq[5] = "safeDB" /\ StopSeq[6] = "l2Source"
  /\ StopSeq[7] = "markClosed" /\ StopSeq[8] = "pprof" /\ StopSeq[9] = "metrics"
BY DEF StopSeq

\* Every resource but the EL client is closed by some step of Stop.
LEMMA StopCovers ==
  ASSUME NEW r \in Resources \ {"elClient"}
  PROVE  \E i \in 1 .. 9 : StopSeq[i] = r
<1>1. r \in {"server", "p2p", "signer", "driver", "safeDB", "l2Source",
             "pprof", "metrics"}
  BY DEF Resources
<1> QED
  BY <1>1, StopSeqFacts

\* The mark step of Stop names no resource.
LEMMA MarkNotResource == "markClosed" \notin Resources
BY DEF Resources

\* What init builds, successful or not, lies within Resources; under CL
\* sync it never holds the EL client.
LEMMA BuildsFacts ==
  ASSUME ~ELSyncMode, NEW s
  PROVE  /\ Builds(s) \subseteq Resources \ {"elClient"}
         /\ \A S \in FailBuilds(s) : S \subseteq Resources \ {"elClient"}
BY DEF Builds, FailBuilds, Resources

-----------------------------------------------------------------------------
(* LeakInv in three parts: the Boolean flags of TypeOK (whose steps Zenon *)
(* proves), the rest of TypeOK, and the facts about Stop (proved by SMT). *)

BoolOK ==
  /\ closed \in BOOLEAN /\ p2pClosed \in BOOLEAN /\ p2pField \in BOOLEAN
  /\ panicked \in BOOLEAN

DataOK ==
  /\ opc \in {"init", "start", "running", "stop", "failed", "stopped"}
  /\ initIdx \in 1 .. Len(InitSteps) /\ stopIdx \in 0 .. Len(StopSeq) + 1
  /\ caller \in {"new", "app"}
  /\ built \subseteq Resources /\ open \subseteq built
  /\ result \subseteq Fallible
  /\ stops \in 0 .. MaxStops
  /\ drv \in {"none", "new", "running", "cancelled", "exited"}
  /\ upc \in [Users -> {"idle", "acquired"}] /\ handle \in [Users -> BOOLEAN]
  /\ faults \in 0 .. MaxFaults

LeakRest ==
  /\ "elClient" \notin built
  /\ opc \in {"init", "start", "running"} => stopIdx = 1 /\ stops = 0 /\ ~closed
  /\ opc = "stop" /\ stopIdx = 0 => stops = 0 /\ ~closed
  /\ opc = "stop" /\ stopIdx >= 1 => stops = 1
  /\ opc \in {"failed", "stopped"} => stops = 1 /\ open \subseteq result
  /\ stopIdx <= 2 => (p2pField <=> "p2p" \in built)
  /\ opc = "stop" =>
       \A i \in 1 .. stopIdx - 1 : StopSeq[i] \in open => StopSeq[i] \in result

LEMMA LeakSplit == LeakInv <=> BoolOK /\ DataOK /\ LeakRest
BY Zenon DEF LeakInv, TypeOK, BoolOK, DataOK, LeakRest

\* Construct keeps the resource sets and n.p2pNode consistent.
LEMMA ConstructKeeps ==
  ASSUME NEW S, S \subseteq Resources \ {"elClient"}, Construct(S),
         built \subseteq Resources, open \subseteq built,
         "elClient" \notin built, p2pField \in BOOLEAN,
         p2pField <=> "p2p" \in built,
         drv \in {"none", "new", "running", "cancelled", "exited"}
  PROVE  /\ built' \subseteq Resources /\ open' \subseteq built'
         /\ "elClient" \notin built'
         /\ (p2pField' <=> "p2p" \in built')
         /\ drv' \in {"none", "new", "running", "cancelled", "exited"}
<1>1. built' = built \cup S /\ open' = open \cup S
  BY DEF Construct
<1>2. /\ built' \subseteq Resources /\ open' \subseteq built'
      /\ "elClient" \notin built'
  BY <1>1
<1>3. p2pField' <=> "p2p" \in built'
  BY <1>1, Zenon DEF Construct
<1>4. drv' \in {"none", "new", "running", "cancelled", "exited"}
  BY Zenon DEF Construct
<1> QED
  BY <1>2, <1>3, <1>4

LEMMA InitLeakInv == Init => LeakInv
<1> SUFFICES ASSUME Init PROVE LeakInv
  OBVIOUS
<1>1. BoolOK
  BY Zenon DEF Init, BoolOK
<1>2. Len(InitSteps) = 10
  BY DEF InitSteps
<1>3. DataOK /\ LeakRest
  BY <1>1, <1>2, StopSeqFacts DEF Init, DataOK, LeakRest, BoolOK
<1> QED
  BY <1>1, <1>3, LeakSplit

\* Every action keeps the flags Boolean.
LEMMA BoolStep == BoolOK /\ [Next]_vars => BoolOK'
<1> SUFFICES ASSUME BoolOK, [Next]_vars PROVE BoolOK'
  OBVIOUS
<1>1. CASE InitStep
  BY <1>1, Zenon DEF InitStep, Construct, BoolOK, userVars
<1>2. CASE Start \/ AppStop \/ CriticalError \/ StopBegin
  BY <1>2, Zenon DEF Start, AppStop, CriticalError, StopBegin, StopVars,
     BoolOK, userVars
<1>3. CASE StopClose
  BY <1>3, Zenon DEF StopClose, StopVars, BoolOK
<1>4. CASE StopDriverCancel \/ StopDriverWait \/ StopMark \/ StopReturn
  BY <1>4, Zenon DEF StopDriverCancel, StopDriverWait, StopMark, StopReturn,
     StopVars, BoolOK
<1>5. CASE LoopExit \/ \E u \in Users : Acquire(u) \/ UseHandle(u)
  BY <1>5, Zenon DEF LoopExit, Acquire, UseHandle, BoolOK, userVars
<1>6. CASE UNCHANGED vars
  BY <1>6, Zenon DEF vars, BoolOK
<1> QED
  BY <1>1, <1>2, <1>3, <1>4, <1>5, <1>6 DEF Next, Owner

(* DataOK and LeakRest are preserved: one step per action.                 *)
LEMMA RestStep ==
  ASSUME OneStopCL
  PROVE  BoolOK /\ DataOK /\ LeakRest /\ BoolOK' /\ [Next]_vars
           => DataOK' /\ LeakRest'
<1> SUFFICES ASSUME BoolOK, DataOK, LeakRest, BoolOK', [Next]_vars
             PROVE  DataOK' /\ LeakRest'
  OBVIOUS
<1> USE StopSeqFacts DEF BoolOK
<1>c. ~ELSyncMode /\ MaxStops = 1
  BY DEF OneStopCL
<1>n. Len(InitSteps) = 10
  BY DEF InitSteps
<1>1. CASE InitStep
  <2> DEFINE s == InitSteps[initIdx]
  <2>1. opc = "init" /\ stopIdx = 1 /\ stops = 0 /\ ~closed
    BY <1>1 DEF InitStep, LeakRest
  <2>3. CASE /\ Construct(Builds(s)) /\ UNCHANGED faults
             /\ IF initIdx = Len(InitSteps)
                  THEN opc' = "start" /\ UNCHANGED <<initIdx, stopIdx>>
                  ELSE initIdx' = initIdx + 1 /\ UNCHANGED <<opc, stopIdx>>
             /\ UNCHANGED <<caller, result, closed, stops, p2pClosed, userVars,
                            panicked>>
    <3>1. Builds(s) \subseteq Resources \ {"elClient"}
      BY <1>c, BuildsFacts
    <3>2. /\ built' \subseteq Resources /\ open' \subseteq built'
          /\ "elClient" \notin built'
          /\ (p2pField' <=> "p2p" \in built')
          /\ drv' \in {"none", "new", "running", "cancelled", "exited"}
      BY <2>1, <2>3, <3>1, ConstructKeeps DEF DataOK, LeakRest
    <3>3. /\ opc' \in {"init", "start"} /\ initIdx' \in 1 .. 10
          /\ stopIdx' = 1
      <4>1. CASE initIdx = 10
        BY <1>n, <2>1, <2>3, <4>1 DEF DataOK
      <4>2. CASE initIdx /= 10
        BY <1>n, <2>1, <2>3, <4>2 DEF DataOK
      <4> QED
        BY <4>1, <4>2
    <3> QED
      BY <1>n, <2>1, <2>3, <3>2, <3>3 DEF DataOK, LeakRest, userVars
  <2>4. CASE /\ CanFailStep(s) /\ CanFail /\ faults' = faults + 1
             /\ \E S \in FailBuilds(s) : Construct(S)
             /\ opc' = "stop" /\ stopIdx' = 0
             /\ UNCHANGED initIdx
             /\ UNCHANGED <<caller, result, closed, stops, p2pClosed, userVars,
                            panicked>>
    <3>1. PICK S \in FailBuilds(s) : Construct(S)
      BY <2>4
    <3>2. S \subseteq Resources \ {"elClient"}
      BY <1>c, BuildsFacts
    <3>3. /\ built' \subseteq Resources /\ open' \subseteq built'
          /\ "elClient" \notin built'
          /\ (p2pField' <=> "p2p" \in built')
          /\ drv' \in {"none", "new", "running", "cancelled", "exited"}
      BY <2>1, <3>1, <3>2, ConstructKeeps DEF DataOK, LeakRest
    <3>4. faults' \in 0 .. MaxFaults
      BY <2>4 DEF DataOK, CanFail
    <3> QED
      BY <1>n, <2>1, <2>4, <3>3, <3>4 DEF DataOK, LeakRest, userVars
  <2> QED
    BY <1>1, <2>3, <2>4 DEF InitStep
<1>2. CASE Start
  BY <1>2 DEF Start, DataOK, LeakRest, userVars
<1>3. CASE AppStop
  <2>1. opc = "running"
    BY <1>3, <1>c DEF AppStop, LeakRest
  <2> QED
    BY <1>3, <2>1 DEF AppStop, DataOK, LeakRest, userVars
<1>4. CASE CriticalError
  BY <1>4 DEF CriticalError, DataOK, LeakRest, userVars
<1>5. CASE StopBegin
  <2>1. opc = "stop" /\ stopIdx = 0 /\ stops = 0 /\ ~closed
    BY <1>5 DEF StopBegin, LeakRest
  <2>2. stops' = 1 /\ stopIdx' = 1 /\ opc' = "stop" /\ result' = {}
    BY <1>5, <2>1 DEF StopBegin
  <2> QED
    BY <1>5, <1>c, <2>1, <2>2 DEF StopBegin, StopVars, DataOK, LeakRest,
       userVars
<1>6. CASE StopClose
  <2> DEFINE r == StopSeq[stopIdx]
  <2>1. /\ opc = "stop" /\ stopIdx \in 1 .. 9 /\ r \notin {"driver", "markClosed"}
        /\ stopIdx' = stopIdx + 1
        /\ UNCHANGED <<StopVars, opc, closed, stops, drv>>
    BY <1>6 DEF StopClose, DataOK
  <2>3. CASE NilField(r) /\ UNCHANGED <<open, result, faults, p2pClosed, p2pField>>
    <3>1. r \notin open
      BY <2>1, <2>3 DEF DataOK, LeakRest, NilField
    <3> QED
      BY <2>1, <2>3, <3>1 DEF DataOK, LeakRest, StopVars, userVars
  <2>4. CASE /\ ~NilField(r)
             /\ \/ open' = open \ {r} /\ UNCHANGED <<result, faults>>
                \/ /\ r \in Fallible /\ CanFail /\ faults' = faults + 1
                   /\ result' = result \cup {r}
                   /\ open' \in {open, open \ {r}}
             /\ p2pClosed' = (p2pClosed \/ r = "p2p")
             /\ p2pField' = (p2pField /\ r /= "p2p")
    <3>1. /\ open' \subseteq open /\ result \subseteq result'
          /\ result' \subseteq Fallible /\ faults' \in 0 .. MaxFaults
          /\ (r \in open' => r \in result')
      BY <2>4 DEF DataOK, CanFail
    <3>2. stopIdx' <= 2 => UNCHANGED p2pField
      BY <2>1, <2>4
    <3> QED
      BY <2>1, <2>4, <3>1, <3>2 DEF DataOK, LeakRest, StopVars, userVars
  <2> QED
    BY <1>6, <2>3, <2>4 DEF StopClose
<1>7. CASE StopDriverCancel
  BY <1>7 DEF StopDriverCancel, StopVars, DataOK, LeakRest, userVars
<1>8. CASE StopDriverWait
  <2>1. /\ opc = "stop" /\ stopIdx \in 1 .. 9 /\ StopSeq[stopIdx] = "driver"
        /\ open' = open \ {"driver"} /\ stopIdx' = stopIdx + 1
        /\ UNCHANGED <<StopVars, opc, result, closed, stops, p2pClosed,
                       p2pField, drv, faults>>
    BY <1>8 DEF StopDriverWait
  <2> QED
    BY <2>1 DEF DataOK, LeakRest, StopVars, userVars
<1>9. CASE StopMark
  <2>1. /\ opc = "stop" /\ stopIdx \in 1 .. 9 /\ StopSeq[stopIdx] = "markClosed"
        /\ stopIdx' = stopIdx + 1
        /\ UNCHANGED <<StopVars, opc, open, result, stops, p2pClosed, p2pField,
                       drv, faults>>
    BY <1>9 DEF StopMark
  <2>2. "markClosed" \notin open
    BY MarkNotResource DEF DataOK
  <2> QED
    BY <2>1, <2>2 DEF DataOK, LeakRest, StopVars, userVars
<1>10. CASE StopReturn
  <2>1. /\ opc = "stop" /\ stopIdx = 10
        /\ opc' \in {"failed", "stopped"}
        /\ UNCHANGED <<StopVars, stopIdx, open, result, closed, stops,
                       p2pClosed, p2pField, drv, faults>>
    BY <1>10 DEF StopReturn
  <2>2. open \subseteq result
    <3> SUFFICES ASSUME NEW r \in open PROVE r \in result
      OBVIOUS
    <3>1. r \in Resources \ {"elClient"}
      BY DEF DataOK, LeakRest
    <3>2. PICK i \in 1 .. 9 : StopSeq[i] = r
      BY <3>1, StopCovers
    <3> QED
      BY <2>1, <3>2 DEF LeakRest
  <2> QED
    BY <2>1, <2>2 DEF DataOK, LeakRest, StopVars, userVars
<1>11. CASE \E u \in Users : Acquire(u) \/ UseHandle(u)
  <2>1. PICK u \in Users : Acquire(u) \/ UseHandle(u)
    BY <1>11
  <2>2. /\ upc' \in [Users -> {"idle", "acquired"}]
        /\ handle' \in [Users -> BOOLEAN]
        /\ UNCHANGED <<opc, initIdx, stopIdx, caller, built, open, result,
                       closed, stops, p2pClosed, p2pField, drv, faults, panicked>>
    <3>1. CASE Acquire(u)
      <4>1. p2pField \in BOOLEAN
        BY DEF BoolOK
      <4> QED
        BY <3>1, <4>1 DEF Acquire, DataOK
    <3>2. CASE UseHandle(u)
      BY <3>2 DEF UseHandle, DataOK
    <3> QED
      BY <2>1, <3>1, <3>2
  <2> QED
    BY <2>2 DEF DataOK, LeakRest
<1>12. CASE LoopExit
  BY <1>12 DEF LoopExit, DataOK, LeakRest, userVars
<1>13. CASE UNCHANGED vars
  BY <1>13 DEF vars, DataOK, LeakRest
<1> QED
  BY <1>1, <1>2, <1>3, <1>4, <1>5, <1>6, <1>7, <1>8, <1>9, <1>10, <1>11,
     <1>12, <1>13 DEF Next, Owner

(* LeakInv is inductive for one Stop under CL sync.                        *)
LEMMA LeakInvStep ==
  ASSUME OneStopCL
  PROVE  LeakInv /\ [Next]_vars => LeakInv'
<1> SUFFICES ASSUME LeakInv, [Next]_vars PROVE LeakInv'
  OBVIOUS
<1>1. BoolOK /\ DataOK /\ LeakRest
  BY LeakSplit
<1>2. BoolOK'
  BY <1>1, BoolStep
<1>3. DataOK' /\ LeakRest'
  BY <1>1, <1>2, RestStep
<1> QED
  BY <1>2, <1>3, Zenon DEF LeakInv, TypeOK, BoolOK, DataOK, LeakRest

-----------------------------------------------------------------------------
(* The bookkeeping of New and Stop under CL sync and a single Stop: the   *)
(* EL client is never built; before Stop the close sequence has not begun *)
(* and the node is not marked closed; during Stop every resource already  *)
(* visited is closed or its error is in the result; once New or Stop has  *)
(* returned, every resource still open is in the returned error.  This is *)
(* LeakInv, which node_cl checks.                                          *)
THEOREM StopAccounting ==
  ASSUME OneStopCL
  PROVE  Spec => []LeakInv
<1>1. Init => LeakInv
  BY InitLeakInv
<1>2. LeakInv /\ [Next]_vars => LeakInv'
  BY LeakInvStep
<1> QED
  BY <1>1, <1>2, PTL DEF Spec

(* Stop's doc comment says it closes all resources.  Under CL sync and a  *)
(* single Stop (from a failed New, from the application, or after a       *)
(* critical error), for any number of failing init steps and closes: when *)
(* New or Stop has returned, every resource the node built is closed or   *)
(* its close error was returned.  This is NoSilentLeak, which node_cl     *)
(* checks.                                                                 *)
THEOREM NoLeak ==
  ASSUME OneStopCL
  PROVE  Spec => []NoSilentLeak
<1>1. Spec => []LeakInv
  BY StopAccounting
<1>2. LeakInv => NoSilentLeak
  BY DEF LeakInv, NoSilentLeak
<1> QED
  BY <1>1, <1>2, PTL
-----------------------------------------------------------------------------
(* Refinement: under CL sync and a single Stop, NodeLifecycle implements  *)
(* ResourceLifecycle through the mapping Phase, open, Reported, closed.   *)
(* Init steps are acquisitions (or an abort when one fails), the owner's *)
(* entry into Stop is BeginClose, each close of Stop is a Close, the mark *)
(* is Mark and the return is Finish; every other step is a stutter.      *)

(* The initial state is the promise's initial state.                      *)
LEMMA LifeInitStep == Init => Life!LifeInit
BY DEF Init, Life!LifeInit, Phase, Reported

(* Every step of the node is a step of the promise or leaves the mapped   *)
(* state alone.                                                            *)
LEMMA LifeStep ==
  ASSUME OneStopCL
  PROVE  LeakInv /\ LeakInv' /\ [Next]_vars => [Life!LifeNext]_Life!lifeVars
<1> SUFFICES ASSUME LeakInv, LeakInv', [Next]_vars
             PROVE  [Life!LifeNext]_Life!lifeVars
  OBVIOUS
<1>c. ~ELSyncMode /\ MaxStops = 1
  BY DEF OneStopCL
<1>d. BoolOK /\ DataOK /\ LeakRest
  BY LeakSplit
<1> USE StopSeqFacts
<1>1. CASE InitStep
  <2> DEFINE s == InitSteps[initIdx]
  <2>1. opc = "init" /\ stops = 0 /\ Phase = "opening"
    BY <1>1, <1>d DEF InitStep, LeakRest, DataOK, Phase
  <2>2. CASE /\ Construct(Builds(s)) /\ UNCHANGED faults
             /\ IF initIdx = Len(InitSteps)
                  THEN opc' = "start" /\ UNCHANGED <<initIdx, stopIdx>>
                  ELSE initIdx' = initIdx + 1 /\ UNCHANGED <<opc, stopIdx>>
             /\ UNCHANGED <<caller, result, closed, stops, p2pClosed, userVars,
                            panicked>>
    <3>1. Builds(s) \in SUBSET Resources
      BY <1>c, BuildsFacts
    <3>2. Phase' \in {"opening", "open"}
      BY <2>1, <2>2 DEF Phase
    <3>3. Life!Acquire(Builds(s))
      BY <2>1, <2>2, <3>2 DEF Life!Acquire, Construct, Reported
    <3> QED
      BY <3>1, <3>3 DEF Life!LifeNext
  <2>3. CASE /\ CanFailStep(s) /\ CanFail /\ faults' = faults + 1
             /\ \E S \in FailBuilds(s) : Construct(S)
             /\ opc' = "stop" /\ stopIdx' = 0
             /\ UNCHANGED initIdx
             /\ UNCHANGED <<caller, result, closed, stops, p2pClosed, userVars,
                            panicked>>
    <3>1. PICK S \in FailBuilds(s) : Construct(S)
      BY <2>3
    <3>2. S \in SUBSET Resources
      BY <1>c, BuildsFacts
    <3>3. Life!Abort(S)
      BY <2>1, <2>3, <3>1 DEF Life!Abort, Construct, Reported, Phase
    <3> QED
      BY <3>2, <3>3 DEF Life!LifeNext
  <2> QED
    BY <1>1, <2>2, <2>3 DEF InitStep
<1>2. CASE Start
  BY <1>2 DEF Start, Life!lifeVars, Phase, Reported
<1>3. CASE AppStop
  <2>1. opc = "running"
    BY <1>3, <1>c, <1>d DEF AppStop, LeakRest, DataOK
  <2>2. Life!BeginClose
    BY <1>3, <2>1 DEF AppStop, Life!BeginClose, Phase, Reported
  <2> QED
    BY <2>2 DEF Life!LifeNext
<1>4. CASE CriticalError
  <2>1. CASE CancelSet
    <3>1. Life!BeginClose
      BY <1>4, <2>1 DEF CriticalError, Life!BeginClose, Phase, Reported
    <3> QED
      BY <3>1 DEF Life!LifeNext
  <2>2. CASE ~CancelSet
    BY <1>4, <2>2 DEF CriticalError, Life!lifeVars, Phase, Reported
  <2> QED
    BY <2>1, <2>2
<1>5. CASE StopBegin
  <2>1. opc = "stop" /\ stopIdx = 0 /\ stops = 0 /\ ~closed
    BY <1>5, <1>d DEF StopBegin, LeakRest
  <2>2. opc' = opc /\ stops' = 1 /\ result' = {} /\ open' = open
        /\ closed' = closed
    BY <1>5, <2>1 DEF StopBegin
  <2> QED
    BY <2>1, <2>2 DEF Life!lifeVars, Phase, Reported
<1>6. CASE StopClose
  <2> DEFINE r == StopSeq[stopIdx]
  <2>1. opc = "stop" /\ stopIdx \in 1 .. 9 /\ stops = 1
    BY <1>6, <1>d DEF StopClose, LeakRest
  <2>2. r \in Resources
    BY <1>6, <2>1 DEF StopClose, Resources
  <2>3. Phase = "closing" /\ Phase' = "closing" /\ Reported = result
        /\ Reported' = result' /\ closed' = closed
    BY <1>6, <2>1 DEF StopClose, Phase, Reported
  <2>4. CASE NilField(r)
    BY <1>6, <2>3, <2>4 DEF StopClose, Life!lifeVars
  <2>5. CASE ~NilField(r)
    <3>1. \/ open' = open \ {r} /\ result' = result
          \/ result' = result \cup {r} /\ open' \in {open, open \ {r}}
      BY <1>6, <2>5 DEF StopClose
    <3>2. Life!Close(r)
      BY <2>3, <3>1 DEF Life!Close
    <3> QED
      BY <2>2, <3>2 DEF Life!LifeNext
  <2> QED
    BY <2>4, <2>5
<1>7. CASE StopDriverCancel
  BY <1>7 DEF StopDriverCancel, Life!lifeVars, Phase, Reported
<1>8. CASE StopDriverWait
  <2>1. Life!Close("driver")
    BY <1>8 DEF StopDriverWait, Life!Close, Phase, Reported
  <2> QED
    BY <2>1 DEF Life!LifeNext, Resources
<1>9. CASE StopMark
  <2>1. opc = "stop" /\ stopIdx \in 1 .. 9 /\ stops = 1
    BY <1>9, <1>d DEF StopMark, LeakRest
  <2>2. CASE result = {}
    <3>1. closed' = TRUE
      BY <1>9, <2>2, Zenon DEF StopMark
    <3>2. Life!Mark
      BY <1>9, <2>1, <2>2, <3>1 DEF StopMark, Life!Mark, Phase, Reported
    <3> QED
      BY <3>2 DEF Life!LifeNext
  <2>3. CASE result /= {}
    <3>1. closed' = closed
      BY <1>9, <2>3, <1>d, Zenon DEF StopMark, BoolOK
    <3> QED
      BY <1>9, <3>1 DEF StopMark, Life!lifeVars, Phase, Reported
  <2> QED
    BY <2>2, <2>3
<1>10. CASE StopReturn
  <2>1. opc' \in {"failed", "stopped"} /\ opc = "stop"
    BY <1>10 DEF StopReturn
  <2>2. stops' = 1 /\ open' \subseteq result'
    BY <2>1 DEF LeakInv
  <2>3. Life!Finish
    BY <1>10, <2>1, <2>2 DEF StopReturn, Life!Finish, Phase, Reported
  <2> QED
    BY <2>3 DEF Life!LifeNext
<1>11. CASE LoopExit \/ \E u \in Users : Acquire(u) \/ UseHandle(u)
  BY <1>11 DEF LoopExit, Acquire, UseHandle, Life!lifeVars, Phase, Reported
<1>12. CASE UNCHANGED vars
  BY <1>12 DEF vars, Life!lifeVars, Phase, Reported
<1> QED
  BY <1>1, <1>2, <1>3, <1>4, <1>5, <1>6, <1>7, <1>8, <1>9, <1>10, <1>11,
     <1>12 DEF Next, Owner

(* Under CL sync and a single Stop, New, Start and Stop implement the     *)
(* resource promise of ResourceLifecycle: acquisition only by init,       *)
(* release only by Stop, the closed mark (584-586) only while no close    *)
(* has failed, and a return of New or Stop only when every resource still *)
(* open is in the returned error.  This is ImplementsLifecycle, which     *)
(* node_cl checks.                                                         *)
THEOREM LifecycleRefinement ==
  ASSUME OneStopCL
  PROVE  Spec => ImplementsLifecycle
<1>1. Init => Life!LifeInit
  BY LifeInitStep
<1>2. LeakInv /\ LeakInv' /\ [Next]_vars => [Life!LifeNext]_Life!lifeVars
  BY LifeStep
<1>3. Spec => []LeakInv
  BY StopAccounting
<1> QED
  BY <1>1, <1>2, <1>3, PTL DEF Spec, ImplementsLifecycle, Life!LifeSpec

-----------------------------------------------------------------------------
(* The lifecycle protocol by itself.                                       *)

(* In ResourceLifecycle only construction acquires: a close releases at  *)
(* most its resource, and beginning, marking and finishing the close      *)
(* leave the held set alone.                                               *)
LEMMA LifeAcquireSafety == Life!LifeSpec => Life!AcquireOnlyOpening
<1>1. [Life!LifeNext]_Life!lifeVars
        => [Phase = "opening" \/ open' \subseteq open]_Life!lifeVars
  <2> SUFFICES ASSUME [Life!LifeNext]_Life!lifeVars
               PROVE  [Phase = "opening" \/ open' \subseteq open]_Life!lifeVars
    OBVIOUS
  <2>1. CASE \E S \in SUBSET Resources : Life!Acquire(S) \/ Life!Abort(S)
    BY <2>1 DEF Life!Acquire, Life!Abort
  <2>2. CASE Life!BeginClose \/ Life!Mark \/ Life!Finish
    BY <2>2 DEF Life!BeginClose, Life!Mark, Life!Finish
  <2>3. CASE \E r \in Resources : Life!Close(r)
    BY <2>3 DEF Life!Close
  <2>4. CASE UNCHANGED Life!lifeVars
    BY <2>4 DEF Life!lifeVars
  <2> QED
    BY <2>1, <2>2, <2>3, <2>4 DEF Life!LifeNext
<1> QED
  BY <1>1, PTL DEF Life!LifeSpec, Life!AcquireOnlyOpening

(* Under CL sync and a single Stop, no resource is opened once New's init *)
(* sequence is over: Start, the driver and Stop never construct anything  *)
(* (node.go), obtained through LifecycleRefinement.                       *)
THEOREM NoAcquireAfterInit ==
  ASSUME OneStopCL
  PROVE  Spec => Life!AcquireOnlyOpening
BY LifecycleRefinement, LifeAcquireSafety, PTL DEF ImplementsLifecycle
=============================================================================
