-------------------------- MODULE ForkChoiceProtocol --------------------------
(***************************************************************************)
(* What the rollup node promises about its three L2 heads, with the event *)
(* bus, the loop, the sync modes and the database abstracted away.  The   *)
(* unsafe head is extended by inserted payloads, derivation moves the     *)
(* safe head one block forward (and the unsafe head with it when it is    *)
(* behind), an engine reset walks the safe and unsafe heads back but      *)
(* never below the finalized head, and finalization moves the finalized   *)
(* head forward up to the safe head.  SyncDeriver implements it           *)
(* (SyncDeriver!Heads, checked as the property HeadsSpec).                *)
(***************************************************************************)
EXTENDS Naturals

VARIABLES unsafe, safe, finalized

headVars == <<unsafe, safe, finalized>>

HInit ==
  /\ finalized \in Nat /\ safe \in Nat /\ unsafe \in Nat
  /\ finalized <= safe /\ safe <= unsafe

\* A payload above the unsafe head is inserted; one at or below it is
\* ignored, never inserted over the head.
Extend ==
  /\ unsafe' \in Nat /\ unsafe' >= unsafe
  /\ UNCHANGED <<safe, finalized>>

\* Derivation makes the next block safe; the unsafe head is at least the
\* new safe head.
Derive ==
  /\ safe' = safe + 1
  /\ unsafe' = IF unsafe < safe' THEN safe' ELSE unsafe
  /\ UNCHANGED finalized

\* An engine reset walks the safe head back, not below the finalized head,
\* and the unsafe head back, not below the new safe head.
Reset ==
  /\ safe' \in finalized .. safe
  /\ unsafe' \in safe' .. unsafe
  /\ UNCHANGED finalized

\* Blocks derived from finalized L1 data become final.
Finalize ==
  /\ finalized' \in finalized .. safe
  /\ UNCHANGED <<unsafe, safe>>

HNext == Extend \/ Derive \/ Reset \/ Finalize

HSpec == HInit /\ [][HNext]_headVars
=============================================================================
