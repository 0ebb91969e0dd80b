--------------------------- MODULE SafeHeadProtocol ---------------------------
(***************************************************************************)
(* What the driver promises about the safe-head database, with the event  *)
(* bus, the loop and the engine abstracted away.  The derivation pipeline *)
(* is ready or not; while ready the safe head advances one block at a     *)
(* time; entries for the safe head are recorded; an engine reset makes    *)
(* the pipeline not ready and moves the safe head back; the database is   *)
(* truncated to the safe head; and the pipeline becomes ready again only  *)
(* when no entry lies above the safe head.  SyncDeriver implements it     *)
(* (SyncDeriver!Abs, checked as the property AbsSpec).                     *)
(***************************************************************************)
EXTENDS Naturals

VARIABLES safe, db, ready

absVars == <<safe, db, ready>>

AbsInit ==
  /\ safe \in Nat /\ db \subseteq Nat /\ ready = FALSE

\* The pipeline derives the next safe block.
Advance ==
  /\ ready /\ safe' = safe + 1
  /\ UNCHANGED <<db, ready>>

\* The safe-head listener records the current safe head.
Record ==
  /\ db' = db \cup {safe}
  /\ UNCHANGED <<safe, ready>>

\* A reset: the pipeline stops and the engine's safe head may move back.
Rollback ==
  /\ ready' = FALSE /\ safe' \in 0 .. safe
  /\ UNCHANGED db

\* The database drops the entries above the safe head; it may record the
\* safe head itself (the genesis entry).
Truncate ==
  /\ \E E \in SUBSET {safe} : db' = {n \in db : n <= safe} \cup E
  /\ UNCHANGED <<safe, ready>>

\* The pipeline is confirmed ready: only with the database at or below the
\* safe head.
Confirm ==
  /\ \A n \in db : n <= safe
  /\ ready' = TRUE
  /\ UNCHANGED <<safe, db>>

AbsNext == Advance \/ Record \/ Rollback \/ Truncate \/ Confirm

AbsSpec == AbsInit /\ [][AbsNext]_absVars
=============================================================================
