------------------------- MODULE SyncDeriverDB_proofs -------------------------
(***************************************************************************)
(* The proof of DBComplete: at every quiescent point with the pipeline     *)
(* ready and no supervisor, every block derived since the last confirmed   *)
(* reset is recorded in the safe-head database.  DBComplete is not         *)
(* inductive: between onSafeDerivedBlock and the next quiescent point the  *)
(* safe head runs ahead of the database.  RecordInv (SyncDeriver.tla)      *)
(* strengthens it: the one block not yet recorded is the safe head, and   *)
(* then a SafeDerived, Reset or ResetEngineRequest is still on the bus,   *)
(* each of which either records it or leads to an engine reset that       *)
(* clears ready.  The proof reuses the bus lemmas of SyncDeriver_proofs.  *)
(***************************************************************************)
EXTENDS SyncDeriver_proofs

USE ConstAssumption, WordAssumption

\* The event kinds whose presence on the bus ConfirmAtBase and
\* ConfirmedResetNotReady talk about.
Watch == {"EngineResetConfirmed", "ConfirmPipelineReset"}

\* The part of RecordInv beyond IInv.
RParts == ConfirmAtBase /\ ConfirmedResetNotReady /\ RecordedSinceReset

-----------------------------------------------------------------------------
(* HasKind on the sequences the handlers build.                            *)

(* Consuming the head of the bus loses only the head.                       *)
LEMMA KindTail ==
  ASSUME NEW q \in Seq(Event), q /= << >>, NEW K
  PROVE  /\ HasKind(Tail(q), K) => HasKind(q, K)
         /\ HasKind(q, K) /\ q[1].kind \notin K => HasKind(Tail(q), K)
<1>1. /\ Len(Tail(q)) = Len(q) - 1
      /\ \A i \in 1 .. Len(q) - 1 : Tail(q)[i] = q[i + 1]
  BY TailShape
<1>2. HasKind(Tail(q), K) => HasKind(q, K)
  BY <1>1 DEF HasKind
<1>3. ASSUME HasKind(q, K), q[1].kind \notin K PROVE HasKind(Tail(q), K)
  <2>1. PICK i \in 1 .. Len(q) : q[i].kind \in K
    BY <1>3 DEF HasKind
  <2>2. i # 1
    BY <1>3, <2>1, Zenon
  <2>3. i - 1 \in 1 .. Len(q) - 1
    BY <2>2
  <2>4. Tail(q)[i - 1] = q[i]
    BY <1>1, <2>3
  <2> QED
    BY <2>1, <2>3, <2>4, <1>1 DEF HasKind
<1> QED
  BY <1>2, <1>3

(* Appending: a kind occurs in a \o b when it occurs in a or in b.         *)
LEMMA KindCat ==
  ASSUME NEW a \in Seq(Event), NEW b \in Seq(Event), NEW K
  PROVE  HasKind(a \o b, K) <=> HasKind(a, K) \/ HasKind(b, K)
<1>1. /\ Len(a \o b) = Len(a) + Len(b)
      /\ \A i \in 1 .. Len(a) + Len(b) : (a \o b)[i] =
                     IF i <= Len(a) THEN a[i] ELSE b[i - Len(a)]
  BY ConcatProperties
<1>2. HasKind(a \o b, K) => HasKind(a, K) \/ HasKind(b, K)
  <2> SUFFICES ASSUME NEW i \in 1 .. Len(a \o b), (a \o b)[i].kind \in K
               PROVE  HasKind(a, K) \/ HasKind(b, K)
    BY DEF HasKind
  <2>1. CASE i <= Len(a)
    BY <1>1, <2>1 DEF HasKind
  <2>2. CASE i > Len(a)
    <3>1. i - Len(a) \in 1 .. Len(b) /\ b[i - Len(a)].kind \in K
      BY <1>1, <2>2
    <3> QED
      BY <3>1 DEF HasKind
  <2> QED
    BY <2>1, <2>2
<1>3. HasKind(a, K) => HasKind(a \o b, K)
  BY <1>1 DEF HasKind
<1>4. HasKind(b, K) => HasKind(a \o b, K)
  <2> SUFFICES ASSUME NEW j \in 1 .. Len(b), b[j].kind \in K
               PROVE  HasKind(a \o b, K)
    BY DEF HasKind
  <2>1. Len(a) + j \in 1 .. Len(a) + Len(b) /\ (a \o b)[Len(a) + j] = b[j]
    BY <1>1
  <2> QED
    BY <1>1, <2>1 DEF HasKind
<1> QED
  BY <1>2, <1>3, <1>4

(* A sequence without chain events holds no event of a chain kind.         *)
LEMMA KindFree ==
  ASSUME NEW s \in Seq(Event), ChainFree(s), NEW K, K \subseteq ChainKinds
  PROVE  ~HasKind(s, K)
BY DEF ChainFree, HasKind

(* A kind of K occurring is a kind of every superset of K occurring.       *)
LEMMA KindMono ==
  ASSUME NEW s, NEW K, NEW L, K \subseteq L, HasKind(s, K)
  PROVE  HasKind(s, L)
BY DEF HasKind

(* The empty sequence holds no kind.                                        *)
LEMMA KindEmpty ==
  ASSUME NEW K
  PROVE  ~HasKind(<< >>, K)
BY DEF HasKind

(* A one-event sequence holds the kind of its event.                       *)
LEMMA KindOne ==
  ASSUME NEW e, NEW K
  PROVE  HasKind(<<e>>, K) <=> e.kind \in K
<1>1. 1 .. Len(<<e>>) = {1} /\ <<e>>[1] = e
  OBVIOUS
<1> QED
  BY <1>1, Zenon DEF HasKind

(* A two-event sequence holds the kinds of its two events.                 *)
LEMMA KindPair ==
  ASSUME NEW e, NEW f, NEW K
  PROVE  HasKind(<<e, f>>, K) <=> e.kind \in K \/ f.kind \in K
<1>1. 1 .. Len(<<e, f>>) = {1, 2} /\ <<e, f>>[1] = e /\ <<e, f>>[2] = f
  OBVIOUS
<1> QED
  BY <1>1, Zenon DEF HasKind

(* HasConfirm is HasKind for the one kind ConfirmPipelineReset.            *)
LEMMA ConfirmIsKind ==
  ASSUME NEW s
  PROVE  HasConfirm(s) <=> HasKind(s, {"ConfirmPipelineReset"})
BY DEF HasConfirm, HasKind

(* A single Ev(k) of a kind outside Watch.                                 *)
LEMMA EvNoWatch ==
  ASSUME NEW k \in Kinds \ Watch
  PROVE  <<Ev(k)>> \in Seq(Event) /\ ~HasKind(<<Ev(k)>>, Watch)
<1>1. Ev(k) \in Event /\ Ev(k).kind = k
  BY EvFacts
<1> QED
  BY <1>1, KindOne DEF Watch

(* A sequence without chain events holds no event of Watch.                *)
LEMMA FreeNoWatch ==
  ASSUME NEW s \in Seq(Event), ChainFree(s)
  PROVE  ~HasKind(s, Watch)
BY KindFree DEF Watch, ChainKinds

-----------------------------------------------------------------------------
(* The bus with a chain event at its head.                                 *)

(* Behind a chain event the bus holds no other: what a handler of it      *)
(* leaves of a chain kind is what it appends.                              *)
LEMMA TailFreeKinds ==
  ASSUME IInv, queue /= << >>, Head(queue).kind \in ChainKinds,
         NEW evs \in Seq(Event), Consume(evs), NEW K, K \subseteq ChainKinds
  PROVE  HasKind(queue', K) <=> HasKind(evs, K)
<1>1. queue \in Seq(Event) /\ AtMostOneChain(queue)
  BY DEF IInv, TypeOK, AtMostOneChainEvent
<1>2. Tail(queue) \in Seq(Event) /\ ChainFree(Tail(queue))
  BY <1>1, TailShape, HeadChainTailFree
<1>3. ~HasKind(Tail(queue), K)
  BY <1>2, KindFree
<1> QED
  BY <1>2, <1>3, KindCat DEF Consume

(* The only chain event on the bus is its head.                           *)
LEMMA ChainHeadOnly ==
  ASSUME IInv, queue /= << >>, Head(queue).kind \in ChainKinds,
         NEW K, K \subseteq ChainKinds, Head(queue).kind \notin K
  PROVE  ~HasKind(queue, K)
<1>1. queue \in Seq(Event) /\ AtMostOneChain(queue)
  BY DEF IInv, TypeOK, AtMostOneChainEvent
<1>2. Tail(queue) \in Seq(Event) /\ ChainFree(Tail(queue))
  BY <1>1, TailShape, HeadChainTailFree
<1>3. ~HasKind(Tail(queue), K)
  BY <1>2, KindFree
<1> QED
  BY <1>1, <1>3, KindTail
(* A handler of a chain event that appends no event of Watch leaves none *)
(* on the bus.                                                              *)
LEMMA ChainNoWatch ==
  ASSUME IInv, queue /= << >>, Head(queue).kind \in ChainKinds,
         NEW evs \in Seq(Event), Consume(evs), ~HasKind(evs, Watch)
  PROVE  /\ ~HasKind(queue', {"ConfirmPipelineReset"})
         /\ ~HasKind(queue', {"EngineResetConfirmed"})
<1>1. HasKind(queue', {"ConfirmPipelineReset"})
        <=> HasKind(evs, {"ConfirmPipelineReset"})
  BY TailFreeKinds DEF ChainKinds
<1>2. HasKind(queue', {"EngineResetConfirmed"})
        <=> HasKind(evs, {"EngineResetConfirmed"})
  BY TailFreeKinds DEF ChainKinds
<1>3. /\ ~HasKind(evs, {"ConfirmPipelineReset"})
      /\ ~HasKind(evs, {"EngineResetConfirmed"})
  BY KindMono DEF Watch
<1> QED
  BY <1>1, <1>2, <1>3

-----------------------------------------------------------------------------
(* The handlers that neither touch the database, the safe head, the reset *)
(* base or readiness, nor emit or consume an event of Watch or of a       *)
(* recording kind, keep RParts: the bus keeps every recording event it    *)
(* had and gains no confirmation.                                          *)
LEMMA QuietRecord ==
  ASSUME IInv, RParts, queue /= << >>,
         Head(queue).kind \notin RecordKinds \cup Watch,
         NEW evs \in Seq(Event), ~HasKind(evs, Watch), Consume(evs),
         UNCHANGED <<db, safe, resetBase, ready>>
  PROVE  RParts'
<1>1. queue \in Seq(Event) /\ Tail(queue) \in Seq(Event)
      /\ queue[1].kind = Head(queue).kind
  BY TailShape DEF IInv, TypeOK
<1>2. ASSUME NEW K, K \subseteq Watch, HasKind(queue', K)
      PROVE  HasKind(queue, K)
  <2>1. HasKind(Tail(queue), K) \/ HasKind(evs, K)
    BY <1>1, <1>2, KindCat DEF Consume
  <2>2. ~HasKind(evs, K)
    BY <1>2, KindMono
  <2> QED
    BY <1>1, <2>1, <2>2, KindTail
<1>3. HasKind(queue, RecordKinds) => HasKind(queue', RecordKinds)
  BY <1>1, KindTail, KindCat DEF Consume
<1>4. ConfirmAtBase'
  <2>1. HasKind(queue', {"ConfirmPipelineReset"})
          => HasKind(queue, {"ConfirmPipelineReset"})
    BY <1>2 DEF Watch
  <2> QED
    BY <2>1, ConfirmIsKind DEF RParts, ConfirmAtBase
<1>5. ConfirmedResetNotReady'
  <2>1. HasKind(queue', {"EngineResetConfirmed"})
          => HasKind(queue, {"EngineResetConfirmed"})
    BY <1>2 DEF Watch
  <2> QED
    BY <2>1 DEF RParts, ConfirmedResetNotReady
<1>6. RecordedSinceReset'
  BY <1>3 DEF RParts, RecordedSinceReset
<1> QED
  BY <1>4, <1>5, <1>6 DEF RParts

(* The loop, SyncStep and the supervisor emit onto an empty bus events of *)
(* no kind of Watch; readiness is kept or cleared.                         *)
LEMMA EmptyRecord ==
  ASSUME IInv, RParts, queue = << >>, NEW evs \in Seq(Event),
         ~HasKind(evs, Watch), queue' = evs,
         UNCHANGED <<db, safe, resetBase>>, ready' => ready
  PROVE  RParts'
<1>1. /\ ~HasKind(queue', {"ConfirmPipelineReset"})
      /\ ~HasKind(queue', {"EngineResetConfirmed"})
  BY KindMono DEF Watch
<1>2. ConfirmAtBase' /\ ConfirmedResetNotReady'
  BY <1>1, ConfirmIsKind DEF ConfirmAtBase, ConfirmedResetNotReady
<1>3. RecordedSinceReset'
  <2> SUFFICES ASSUME ~ManagedMode, SafeDBEnabled, ready'
               PROVE  /\ resetBase <= safe
                      /\ (resetBase + 1) .. (safe - 1) \subseteq db
                      /\ safe \in db \/ safe = resetBase
    BY DEF RecordedSinceReset
  <2>1. ready
    BY Zenon
  <2>2. ~HasKind(queue, RecordKinds)
    BY KindEmpty
  <2> QED
    BY <2>1, <2>2 DEF RParts, RecordedSinceReset
<1> QED
  BY <1>2, <1>3 DEF RParts

(* A step that leaves the bus, the database, the safe head, the reset     *)
(* base and readiness alone keeps RParts.                                  *)
LEMMA FrozenRecord ==
  ASSUME RParts, UNCHANGED <<queue, db, safe, resetBase, ready>>
  PROVE  RParts'
BY DEF RParts, ConfirmAtBase, ConfirmedResetNotReady, RecordedSinceReset,
       HasConfirm, HasKind

-----------------------------------------------------------------------------
(* Every step of the driver keeps RParts.                                  *)
LEMMA RStep == IInv /\ RParts /\ [Next]_vars => RParts'
<1> SUFFICES ASSUME IInv, RParts, [Next]_vars PROVE RParts'
  OBVIOUS
<1>t. TypeOK
  BY DEF IInv
<1>e. /\ << >> \in Seq(Event) /\ ~HasKind(<< >>, Watch)
  BY KindEmpty
<1>1. CASE OnStep
  <2>1. /\ queue /= << >> /\ Head(queue).kind = "Step" /\ Consume(<< >>)
        /\ UNCHANGED <<db, safe, resetBase, ready>>
    BY <1>1, Zenon DEF OnStep, Handling, engineVars
  <2> QED
    BY <2>1, <1>e, QuietRecord DEF RecordKinds, Watch
<1>2. CASE OnRetry
  <2>1. /\ queue /= << >>
        /\ Head(queue).kind \in {"L1TemporaryError", "EngineTemporaryError",
                                 "ProvideL1Traversal"}
        /\ Consume(<<Ev("StepReq")>>)
        /\ UNCHANGED <<db, safe, resetBase, ready>>
    BY <1>2, Zenon DEF OnRetry, Handling, engineVars
  <2>2. <<Ev("StepReq")>> \in Seq(Event) /\ ~HasKind(<<Ev("StepReq")>>, Watch)
    BY EvNoWatch DEF Kinds, Watch
  <2> QED
    BY <2>1, <2>2, QuietRecord DEF RecordKinds, Watch
<1>3. CASE OnDeriverIdle
  <2>1. /\ queue /= << >> /\ Head(queue).kind = "DeriverIdle"
        /\ Consume(<<Ev("ResetStepBackoff")>>)
        /\ UNCHANGED <<db, safe, resetBase, ready>>
    BY <1>3, Zenon DEF OnDeriverIdle, Handling, engineVars
  <2>2. /\ <<Ev("ResetStepBackoff")>> \in Seq(Event)
        /\ ~HasKind(<<Ev("ResetStepBackoff")>>, Watch)
    BY EvNoWatch DEF Kinds, Watch
  <2> QED
    BY <2>1, <2>2, QuietRecord DEF RecordKinds, Watch
<1>4. CASE OnStepReq
  <2>1. /\ queue /= << >> /\ Head(queue).kind = "StepReq" /\ Consume(<< >>)
        /\ UNCHANGED <<db, safe, resetBase, ready>>
    BY <1>4, Zenon DEF OnStepReq, Handling, engineVars
  <2> QED
    BY <2>1, <1>e, QuietRecord DEF RecordKinds, Watch
<1>5. CASE OnStepAttempt
  <2>1. /\ queue /= << >> /\ Head(queue).kind = "StepAttempt"
        /\ Consume(<<Ev("Step")>>)
        /\ UNCHANGED <<db, safe, resetBase, ready>>
    BY <1>5, Zenon DEF OnStepAttempt, Handling, engineVars
  <2>2. <<Ev("Step")>> \in Seq(Event) /\ ~HasKind(<<Ev("Step")>>, Watch)
    BY EvNoWatch DEF Kinds, Watch
  <2> QED
    BY <2>1, <2>2, QuietRecord DEF RecordKinds, Watch
<1>6. CASE OnResetStepBackoff
  <2>1. /\ queue /= << >> /\ Head(queue).kind = "ResetStepBackoff"
        /\ Consume(<< >>)
        /\ UNCHANGED <<db, safe, resetBase, ready>>
    BY <1>6, Zenon DEF OnResetStepBackoff, Handling, engineVars
  <2> QED
    BY <2>1, <1>e, QuietRecord DEF RecordKinds, Watch
<1>7. CASE OnTryBackupUnsafeReorg
  <2>1. /\ queue /= << >> /\ Head(queue).kind = "TryBackupUnsafeReorg"
        /\ Consume(<< >>)
        /\ UNCHANGED <<db, safe, resetBase, ready>>
    BY <1>7, Zenon DEF OnTryBackupUnsafeReorg, Handling, engineVars
  <2> QED
    BY <2>1, <1>e, QuietRecord DEF RecordKinds, Watch
<1>8. CASE OnFinalizeL1
  <2>1. /\ queue /= << >> /\ Head(queue).kind = "FinalizeL1"
        /\ Consume(<< >>)
        /\ UNCHANGED <<db, safe, resetBase, ready>>
    BY <1>8, Zenon DEF OnFinalizeL1, Handling, engineVars
  <2> QED
    BY <2>1, <1>e, QuietRecord DEF RecordKinds, Watch
<1>9. CASE OnReceivedUnsafePayload
  <2>1. /\ queue /= << >> /\ Head(queue).kind = "ReceivedUnsafePayload"
        /\ Consume(<< >>)
        /\ UNCHANGED <<db, safe, resetBase, ready>>
    BY <1>9, Zenon DEF OnReceivedUnsafePayload, Handling, engineVars
  <2> QED
    BY <2>1, <1>e, QuietRecord DEF RecordKinds, Watch
<1>10. CASE OnTryUpdateEngine
  <2>1. /\ queue /= << >> /\ Head(queue).kind = "TryUpdateEngine"
        /\ \E k \in {"EngineTemporaryError", "Reset"} :
             Consume(<< >>) \/ Consume(<<Ev(k)>>)
        /\ UNCHANGED <<db, safe, resetBase, ready>>
    BY <1>10, Zenon DEF OnTryUpdateEngine, Handling
  <2>2. PICK k \in {"EngineTemporaryError", "Reset"} :
          Consume(<< >>) \/ Consume(<<Ev(k)>>)
    BY <2>1
  <2>3. <<Ev(k)>> \in Seq(Event) /\ ~HasKind(<<Ev(k)>>, Watch)
    BY EvNoWatch DEF Kinds, Watch
  <2> QED
    BY <2>1, <2>2, <2>3, <1>e, QuietRecord DEF RecordKinds, Watch
<1>11. CASE OnSafeDerived
  <2>1. /\ queue /= << >> /\ Head(queue).kind = "SafeDerived"
        /\ UNCHANGED <<safe, resetBase, ready>>
        /\ \/ ~SafeDBEnabled /\ Consume(<< >>) /\ UNCHANGED db
           \/ Consume(<< >>) /\ db' = db \cup {Head(queue).ref}
           \/ Consume(<<Ev("Reset")>>) /\ UNCHANGED db
    BY <1>11, Zenon DEF OnSafeDerived, Handling, engineVars
  <2>2. Head(queue).ref = safe
    BY <1>t, <2>1 DEF IInv, QueuedRefsAreSafe, RefsAre, TypeOK
  <2>3. /\ <<Ev("Reset")>> \in Seq(Event) /\ ~HasKind(<<Ev("Reset")>>, Watch)
        /\ HasKind(<<Ev("Reset")>>, RecordKinds)
    <3>1. Ev("Reset") \in Event /\ Ev("Reset").kind = "Reset"
      BY EvFacts DEF Kinds
    <3> QED
      BY <3>1, KindOne DEF Watch, RecordKinds
  <2>4. /\ ~HasKind(queue', {"ConfirmPipelineReset"})
        /\ ~HasKind(queue', {"EngineResetConfirmed"})
    <3>1. Head(queue).kind \in ChainKinds
      BY <2>1 DEF ChainKinds
    <3>2. PICK evs \in {<< >>, <<Ev("Reset")>>} : Consume(evs)
      BY <2>1
    <3>3. evs \in Seq(Event) /\ ~HasKind(evs, Watch)
      BY <1>e, <2>3
    <3> QED
      BY <2>1, <3>1, <3>2, <3>3, ChainNoWatch
  <2>5. ConfirmAtBase' /\ ConfirmedResetNotReady'
    BY <2>4, ConfirmIsKind DEF ConfirmAtBase, ConfirmedResetNotReady
  <2>6. RecordedSinceReset'
    <3> SUFFICES ASSUME ~ManagedMode, SafeDBEnabled, ready'
                 PROVE  /\ resetBase <= safe
                        /\ (resetBase + 1) .. (safe - 1) \subseteq db'
                        /\ \/ safe \in db' \/ safe = resetBase
                           \/ HasKind(queue', RecordKinds)
      BY <2>1 DEF RecordedSinceReset
    <3>1. /\ resetBase <= safe /\ (resetBase + 1) .. (safe - 1) \subseteq db
      BY <2>1 DEF RParts, RecordedSinceReset
    <3>2. CASE Consume(<< >>) /\ db' = db \cup {Head(queue).ref}
      BY <2>2, <3>1, <3>2
    <3>3. CASE Consume(<<Ev("Reset")>>) /\ UNCHANGED db
      <4>1. HasKind(queue', RecordKinds)
        <5>1. queue \in Seq(Event) /\ Tail(queue) \in Seq(Event)
          BY <2>1, TailShape DEF IInv, TypeOK
        <5> QED
          BY <2>3, <3>3, <5>1, KindCat DEF Consume
      <4> QED
        BY <3>1, <3>3, <4>1
    <3> QED
      BY <2>1, <3>2, <3>3
  <2> QED
    BY <2>5, <2>6 DEF RParts
<1>12. CASE OnReset
  <2> DEFINE p == <<Ev("StepReq"), Ev("ResetEngineRequest")>>
  <2>1. /\ queue /= << >> /\ Head(queue).kind = "Reset"
        /\ Consume(IF ManagedMode THEN << >> ELSE p)
        /\ UNCHANGED <<db, safe, resetBase, ready>>
    BY <1>12, Zenon DEF OnReset, Handling, engineVars
  <2>2. /\ p \in Seq(Event) /\ ~HasKind(p, Watch)
        /\ HasKind(p, RecordKinds)
    <3>1. /\ Ev("StepReq") \in Event /\ Ev("StepReq").kind = "StepReq"
          /\ Ev("ResetEngineRequest") \in Event
          /\ Ev("ResetEngineRequest").kind = "ResetEngineRequest"
      BY EvFacts DEF Kinds
    <3> QED
      BY <3>1, KindPair DEF Watch, RecordKinds
  <2>3. PICK evs \in Seq(Event) :
          /\ Consume(evs) /\ ~HasKind(evs, Watch)
          /\ ~ManagedMode => HasKind(evs, RecordKinds)
    BY <1>e, <2>1, <2>2
  <2>4. /\ ~HasKind(queue', {"ConfirmPipelineReset"})
        /\ ~HasKind(queue', {"EngineResetConfirmed"})
        /\ ~ManagedMode => HasKind(queue', RecordKinds)
    <3>1. Head(queue).kind \in ChainKinds
      BY <2>1 DEF ChainKinds
    <3>2. \A K \in {{"ConfirmPipelineReset"}, {"EngineResetConfirmed"},
                    RecordKinds} :
            HasKind(queue', K) <=> HasKind(evs, K)
      BY <2>1, <2>3, <3>1, TailFreeKinds DEF ChainKinds, RecordKinds
    <3> QED
      BY <2>3, <3>2, KindMono DEF Watch
  <2>5. ConfirmAtBase' /\ ConfirmedResetNotReady'
    BY <2>4, ConfirmIsKind DEF ConfirmAtBase, ConfirmedResetNotReady
  <2>6. RecordedSinceReset'
    BY <2>1, <2>4 DEF RParts, RecordedSinceReset
  <2> QED
    BY <2>5, <2>6 DEF RParts
<1>13. CASE OnEngineConfirmedReset
  <2>1. /\ queue /= << >> /\ Head(queue).kind = "EngineResetConfirmed"
        /\ UNCHANGED <<safe, ready>>
        /\ \/ Consume(<< >>) /\ UNCHANGED resetBase
           \/ Consume(<<Ev("ConfirmPipelineReset")>>)
              /\ resetBase' = Head(queue).ref
    BY <1>13, Zenon DEF OnEngineConfirmedReset, Handling, engineVars
  <2>2. Head(queue).ref = safe
    BY <1>t, <2>1 DEF IInv, QueuedRefsAreSafe, RefsAre, TypeOK
  <2>3. ~ready /\ ~ready'
    <3>1. HasKind(queue, {"EngineResetConfirmed"})
      BY <1>t, <2>1 DEF HasKind, TypeOK
    <3> QED
      BY <2>1, <3>1 DEF RParts, ConfirmedResetNotReady
  <2>4. ConfirmAtBase'
    <3>1. Head(queue).kind \in ChainKinds
      BY <2>1 DEF ChainKinds
    <3>2. CASE Consume(<< >>) /\ UNCHANGED resetBase
      <4>1. ~HasKind(queue', {"ConfirmPipelineReset"})
        BY <1>e, <2>1, <3>1, <3>2, TailFreeKinds, KindEmpty DEF ChainKinds
      <4> QED
        BY <4>1, ConfirmIsKind DEF ConfirmAtBase
    <3>3. CASE Consume(<<Ev("ConfirmPipelineReset")>>)
               /\ resetBase' = Head(queue).ref
      BY <2>1, <2>2, <3>3 DEF ConfirmAtBase
    <3> QED
      BY <2>1, <3>2, <3>3
  <2> QED
    BY <2>3, <2>4, Zenon
    DEF RParts, ConfirmedResetNotReady, RecordedSinceReset
<1>14. CASE OnConfirmPipelineReset
  <2>1. /\ queue /= << >> /\ Head(queue).kind = "ConfirmPipelineReset"
        /\ Consume(<< >>) /\ UNCHANGED <<db, safe, resetBase>>
    BY <1>14, Zenon DEF OnConfirmPipelineReset, Handling, engineVars
  <2>2. resetBase = safe
    <3>1. HasConfirm(queue)
      BY <1>t, <2>1 DEF HasConfirm, TypeOK
    <3> QED
      BY <3>1 DEF RParts, ConfirmAtBase
  <2>3. /\ ~HasKind(queue', {"ConfirmPipelineReset"})
        /\ ~HasKind(queue', {"EngineResetConfirmed"})
    <3>1. Head(queue).kind \in ChainKinds
      BY <2>1 DEF ChainKinds
    <3> QED
      BY <1>e, <2>1, <3>1, ChainNoWatch
  <2>4. RecordedSinceReset'
    BY <1>t, <2>1, <2>2 DEF RecordedSinceReset, TypeOK, Blocks
  <2> QED
    BY <2>3, <2>4, ConfirmIsKind
    DEF RParts, ConfirmAtBase, ConfirmedResetNotReady
<1>15. CASE OnResetEngineRequest
  <2>1. /\ queue /= << >> /\ Head(queue).kind = "ResetEngineRequest"
        /\ ready' = FALSE
    BY <1>15, Zenon DEF OnResetEngineRequest, Handling
  <2>2. PICK x \in IF safe > finalized THEN finalized .. safe - 1 ELSE {safe} :
               Consume(<<EvRef("EngineResetConfirmed", x)>>)
    BY <1>15, Zenon DEF OnResetEngineRequest
  <2>3. x \in Blocks
    <3>1. finalized \in Blocks /\ safe \in Blocks
      BY <1>t DEF TypeOK
    <3>2. CASE safe > finalized
      <4>1. x \in finalized .. safe - 1
        BY <2>2, <3>2
      <4> QED
        BY <3>1, <4>1 DEF Blocks
    <3>3. CASE ~(safe > finalized)
      <4>1. x = safe
        BY <2>2, <3>3
      <4> QED
        BY <3>1, <4>1
    <3> QED
      BY <3>2, <3>3
  <2>4. /\ EvRef("EngineResetConfirmed", x) \in Event
        /\ EvRef("EngineResetConfirmed", x).kind = "EngineResetConfirmed"
    BY <2>3, EvRefFacts DEF Kinds
  <2>5. ~HasKind(queue', {"ConfirmPipelineReset"})
    <3>1. ~HasKind(<<EvRef("EngineResetConfirmed", x)>>,
                   {"ConfirmPipelineReset"})
      BY <2>4, KindOne
    <3>2. Head(queue).kind \in ChainKinds
      BY <2>1 DEF ChainKinds
    <3>3. <<EvRef("EngineResetConfirmed", x)>> \in Seq(Event)
      BY <2>4
    <3>4. HasKind(queue', {"ConfirmPipelineReset"})
            <=> HasKind(<<EvRef("EngineResetConfirmed", x)>>,
                        {"ConfirmPipelineReset"})
      BY <2>1, <2>2, <3>2, <3>3, TailFreeKinds DEF ChainKinds
    <3> QED
      BY <3>1, <3>4
  <2> QED
    BY <2>1, <2>5, ConfirmIsKind, Zenon
    DEF RParts, ConfirmAtBase, ConfirmedResetNotReady, RecordedSinceReset
<1>16. CASE OnPendingSafeRequest
  <2>1. /\ queue /= << >> /\ Head(queue).kind = "PendingSafeRequest"
        /\ UNCHANGED <<db, ready, resetBase>>
        /\ \/ /\ safe < MaxL2 /\ safe' = safe + 1
              /\ Consume(<<EvRef("SafeDerived", safe + 1), Ev("StepReq")>>)
           \/ /\ safe' = safe
              /\ \E k \in {"Reset", "DeriverIdle", "ProvideL1Traversal",
                            "L1TemporaryError", "EngineTemporaryError"} :
                   Consume(<<Ev(k)>>)
    BY <1>16, Zenon DEF OnPendingSafeRequest, Handling
  <2>2. Head(queue).kind \in ChainKinds
    BY <2>1 DEF ChainKinds
  <2>3. CASE /\ safe < MaxL2 /\ safe' = safe + 1
             /\ Consume(<<EvRef("SafeDerived", safe + 1), Ev("StepReq")>>)
    <3> DEFINE p == <<EvRef("SafeDerived", safe + 1), Ev("StepReq")>>
    <3>0. safe + 1 \in Blocks
      BY <1>t, <2>3 DEF TypeOK, Blocks
    <3>1. /\ EvRef("SafeDerived", safe + 1) \in Event
          /\ EvRef("SafeDerived", safe + 1).kind = "SafeDerived"
          /\ Ev("StepReq") \in Event /\ Ev("StepReq").kind = "StepReq"
      BY <3>0, EvFacts, EvRefFacts DEF Kinds
    <3>2. p \in Seq(Event)
      BY <3>1
    <3>3. /\ ~HasKind(p, {"ConfirmPipelineReset"})
          /\ ~HasKind(p, {"EngineResetConfirmed"})
          /\ HasKind(p, RecordKinds)
      BY <3>1, KindPair DEF RecordKinds
    <3>4. /\ ~HasKind(queue', {"ConfirmPipelineReset"})
          /\ ~HasKind(queue', {"EngineResetConfirmed"})
          /\ HasKind(queue', RecordKinds)
      <4>1. \A K \in {{"ConfirmPipelineReset"}, {"EngineResetConfirmed"},
                      RecordKinds} :
              HasKind(queue', K) <=> HasKind(p, K)
        BY <2>1, <2>2, <2>3, <3>2, TailFreeKinds DEF ChainKinds, RecordKinds
      <4> QED
        BY <3>3, <4>1
    <3>5. ~HasKind(queue, RecordKinds)
      BY <2>1, <2>2, ChainHeadOnly DEF ChainKinds, RecordKinds
    <3>6. RecordedSinceReset'
      <4> SUFFICES ASSUME ~ManagedMode, SafeDBEnabled, ready'
                   PROVE  /\ resetBase' <= safe'
                          /\ (resetBase' + 1) .. (safe' - 1) \subseteq db'
        BY <3>4, Zenon DEF RecordedSinceReset
      <4>1. /\ resetBase <= safe /\ (resetBase + 1) .. (safe - 1) \subseteq db
            /\ safe \in db \/ safe = resetBase
        BY <2>1, <3>5, Zenon DEF RParts, RecordedSinceReset
      <4> QED
        BY <1>t, <2>1, <2>3, <4>1 DEF TypeOK, Blocks
    <3> QED
      BY <3>4, <3>6, ConfirmIsKind
      DEF RParts, ConfirmAtBase, ConfirmedResetNotReady
  <2>4. CASE /\ safe' = safe
             /\ \E k \in {"Reset", "DeriverIdle", "ProvideL1Traversal",
                           "L1TemporaryError", "EngineTemporaryError"} :
                  Consume(<<Ev(k)>>)
    <3>1. PICK k \in {"Reset", "DeriverIdle", "ProvideL1Traversal",
                      "L1TemporaryError", "EngineTemporaryError"} :
                 Consume(<<Ev(k)>>)
      BY <2>4
    <3>2. <<Ev(k)>> \in Seq(Event) /\ ~HasKind(<<Ev(k)>>, Watch)
      BY EvNoWatch DEF Kinds, Watch
    <3> QED
      BY <2>1, <2>4, <3>1, <3>2, QuietRecord DEF RecordKinds, Watch
  <2> QED
    BY <2>1, <2>3, <2>4
<1>17. CASE LoopSchedStep
  <2>1. /\ queue = << >> /\ queue' = LoopPre \o <<Ev("StepAttempt")>>
        /\ UNCHANGED <<db, safe, resetBase, ready>>
    BY <1>17, Zenon DEF LoopSchedStep, Quiescent, engineVars
  <2>2. /\ LoopPre \o <<Ev("StepAttempt")>> \in Seq(Event)
        /\ ChainFree(LoopPre \o <<Ev("StepAttempt")>>)
    <3>1. <<Ev("StepAttempt")>> \in Seq(Event)
          /\ ChainFree(<<Ev("StepAttempt")>>)
      BY FreeEv DEF Kinds, ChainKinds
    <3> QED
      BY <3>1, LoopPreFree, CatKeeps, ConcatProperties
  <2> QED
    BY <2>1, <2>2, FreeNoWatch, EmptyRecord
<1>18. CASE LoopAltSyncTick
  <2>1. /\ queue = << >> /\ queue' = LoopPre
        /\ UNCHANGED <<db, safe, resetBase>>
        /\ ready' => ready
    BY <1>18, Zenon DEF LoopAltSyncTick, Quiescent
  <2> QED
    BY <2>1, LoopPreFree, FreeNoWatch, EmptyRecord
<1>19. CASE LoopStateReq
  <2>1. /\ queue = << >> /\ queue' = LoopPre
        /\ UNCHANGED <<db, safe, resetBase, ready>>
    BY <1>19, Zenon DEF LoopStateReq, Quiescent, engineVars
  <2> QED
    BY <2>1, LoopPreFree, FreeNoWatch, EmptyRecord
<1>20. CASE LoopForceReset
  <2>1. /\ queue = << >> /\ queue' = LoopPre
        /\ UNCHANGED <<db, safe, resetBase>>
        /\ ready' => ready
    BY <1>20, Zenon DEF LoopForceReset, Quiescent, engineVars
  <2> QED
    BY <2>1, LoopPreFree, FreeNoWatch, EmptyRecord
<1>21. CASE LoopUnsafePayload
  <2>1. /\ queue = << >> /\ UNCHANGED <<db, safe, resetBase, ready>>
        /\ \/ queue' = LoopPre
           \/ \E n \in 1 .. MaxL2 :
                queue' = LoopPre \o <<EvRef("ReceivedUnsafePayload", n),
                                      Ev("StepReq")>>
    BY <1>21, Zenon DEF LoopUnsafePayload, Quiescent
  <2>2. ASSUME NEW n \in 1 .. MaxL2
        PROVE  LET p == LoopPre \o <<EvRef("ReceivedUnsafePayload", n),
                                      Ev("StepReq")>>
               IN  p \in Seq(Event) /\ ChainFree(p)
    <3>1. /\ EvRef("ReceivedUnsafePayload", n) \in Event
          /\ EvRef("ReceivedUnsafePayload", n).kind = "ReceivedUnsafePayload"
          /\ Ev("StepReq") \in Event /\ Ev("StepReq").kind = "StepReq"
      BY EvFacts, EvRefFacts DEF Kinds, Blocks
    <3>2. /\ <<EvRef("ReceivedUnsafePayload", n), Ev("StepReq")>> \in Seq(Event)
          /\ ChainFree(<<EvRef("ReceivedUnsafePayload", n), Ev("StepReq")>>)
      BY <3>1 DEF ChainFree, ChainKinds
    <3> QED
      BY <3>2, LoopPreFree, CatKeeps, ConcatProperties
  <2> QED
    BY <2>1, <2>2, LoopPreFree, FreeNoWatch, EmptyRecord
<1>22. CASE SyncStepResume
  <2>1. /\ queue = << >> /\ UNCHANGED <<db, safe, resetBase, ready>>
        /\ step \in 1 .. 3
    BY <1>22, Zenon DEF SyncStepResume, engineVars
  <2>2. \E k \in {"TryBackupUnsafeReorg", "TryUpdateEngine",
                  "ResetStepBackoff", "PendingSafeRequest"} :
          queue' = <<Ev(k)>>
    <3>1. step = 1 \/ step = 2 \/ step = 3
      BY <2>1
    <3> QED
      BY <1>22, <3>1, Zenon DEF SyncStepResume
  <2>3. PICK k \in {"TryBackupUnsafeReorg", "TryUpdateEngine",
                    "ResetStepBackoff", "PendingSafeRequest"} :
          queue' = <<Ev(k)>>
    BY <2>2
  <2>4. <<Ev(k)>> \in Seq(Event) /\ ~HasKind(<<Ev(k)>>, Watch)
    BY EvNoWatch DEF Kinds, Watch
  <2> QED
    BY <2>1, <2>3, <2>4, EmptyRecord
<1>23. CASE SupervisorReset
  <2>1. /\ queue = << >> /\ UNCHANGED <<db, safe, resetBase, ready>>
        /\ queue' = Append(queue, Ev("ResetEngineRequest"))
    BY <1>23, Zenon DEF SupervisorReset, Quiescent, engineVars
  <2>2. /\ <<Ev("ResetEngineRequest")>> \in Seq(Event)
        /\ ~HasKind(<<Ev("ResetEngineRequest")>>, Watch)
    BY EvNoWatch DEF Kinds, Watch
  <2>3. queue' = <<Ev("ResetEngineRequest")>>
    BY <2>1
  <2> QED
    BY <2>1, <2>2, <2>3, EmptyRecord
<1>24. CASE StartSyncTick \/ OnL1Head \/ UNCHANGED vars
  <2>1. UNCHANGED <<queue, db, safe, resetBase, ready>>
    BY <1>24, Zenon DEF StartSyncTick, OnL1Head, vars, engineVars
  <2> QED
    BY <2>1, FrozenRecord
<1> QED
  BY <1>1, <1>2, <1>3, <1>4, <1>5, <1>6, <1>7, <1>8, <1>9, <1>10, <1>11,
     <1>12, <1>13, <1>14, <1>15, <1>16, <1>17, <1>18, <1>19, <1>20, <1>21,
     <1>22, <1>23, <1>24
  DEF Next, Handle, Loop

-----------------------------------------------------------------------------
(* RParts holds initially: the bus holds one StepReq and the pipeline is  *)
(* not ready.                                                              *)
LEMMA InitRParts == Init => RParts
<1> SUFFICES ASSUME Init PROVE RParts
  OBVIOUS
<1>1. ~ready /\ resetBase = safe
  BY DEF Init
<1> QED
  BY <1>1 DEF RParts, ConfirmAtBase, ConfirmedResetNotReady,
     RecordedSinceReset

(* The strengthening of DBComplete holds in every reachable state, for    *)
(* every bound: with no supervisor and the safe-head database enabled, a  *)
(* ready pipeline has recorded every block from the last confirmed reset  *)
(* up to the safe head, except the safe head itself while its             *)
(* SafeDerived, or the Reset that onSafeDerivedBlock (state.go 374-383)    *)
(* emits when SafeHeadUpdated fails, or the ResetEngineRequest that       *)
(* onResetEvent (410-420) emits for it, is still on the bus.  This is     *)
(* RecordInv, which cl_db_safety checks.                                   *)
THEOREM RecordInvariant == Spec => []RecordInv
<1>1. Init => IInv /\ RParts
  BY InitIInv, InitRParts
<1>2. IInv /\ RParts /\ [Next]_vars => IInv' /\ RParts'
  BY IInvStep, RStep
<1>3. IInv /\ RParts => RecordInv
  BY DEF RecordInv, RParts
<1> QED
  BY <1>1, <1>2, <1>3, PTL DEF Spec

(* At every quiescent point with the pipeline ready, no supervisor and    *)
(* the safe-head database enabled, every block derived since the last     *)
(* confirmed reset is recorded: a failed SafeHeadUpdated                   *)
(* (onSafeDerivedBlock) leads to a reset that clears ready before the bus *)
(* empties.  This is DBComplete, which cl_db_safety checks.               *)
THEOREM DBCompleteness == Spec => []DBComplete
<1>1. RecordInv => DBComplete
  <2> SUFFICES ASSUME RecordInv, ~ManagedMode, SafeDBEnabled, Quiescent, ready
               PROVE  (resetBase + 1) .. safe \subseteq db
    BY DEF DBComplete
  <2>1. ~HasKind(queue, RecordKinds)
    BY KindEmpty DEF Quiescent
  <2>2. /\ resetBase <= safe /\ (resetBase + 1) .. (safe - 1) \subseteq db
        /\ safe \in db \/ safe = resetBase
    BY <2>1 DEF RecordInv, RecordedSinceReset
  <2>3. safe \in Blocks /\ resetBase \in Blocks
    BY DEF RecordInv, IInv, TypeOK
  <2> QED
    BY <2>2, <2>3 DEF Blocks
<1> QED
  BY <1>1, RecordInvariant, PTL
=============================================================================
