--------------------------- MODULE ResourceLifecycle ---------------------------
(***************************************************************************)
(* What a node promises about the resources it holds: it acquires them    *)
(* only while it is being constructed, releases them only while it is    *)
(* closing, marks itself closed only when no close has failed, and its    *)
(* close returns only when every resource still held has been reported as *)
(* a close error.  NodeLifecycle implements it (node.go New, Start, Stop), *)
(* under CL sync and a single Stop.                                        *)
(***************************************************************************)
CONSTANT Resources

VARIABLES
  phase,     \* "opening", "open", "closing", "done"
  held,      \* resources acquired and not released
  reported,  \* resources whose close failed in the current close
  marked     \* the node is marked closed

lifeVars == <<phase, held, reported, marked>>

LifeInit ==
  /\ phase = "opening" /\ held = {} /\ reported = {} /\ marked = FALSE

\* Construction acquires resources; its last step opens the node.
Acquire(S) ==
  /\ phase = "opening"
  /\ held' = held \cup S
  /\ phase' \in {"opening", "open"}
  /\ UNCHANGED <<reported, marked>>

\* A construction step fails after acquiring S; the node starts closing.
Abort(S) ==
  /\ phase = "opening"
  /\ held' = held \cup S /\ phase' = "closing"
  /\ UNCHANGED <<reported, marked>>

\* The owner closes an open node.
BeginClose ==
  /\ phase = "open" /\ phase' = "closing"
  /\ UNCHANGED <<held, reported, marked>>

\* The close of r: it succeeds and releases r, or fails, is reported, and
\* may or may not have released r.
Close(r) ==
  /\ phase = "closing"
  /\ \/ held' = held \ {r} /\ UNCHANGED reported
     \/ reported' = reported \cup {r} /\ held' \in {held, held \ {r}}
  /\ UNCHANGED <<phase, marked>>

\* The node is marked closed only while no close has failed.
Mark ==
  /\ phase = "closing" /\ reported = {} /\ marked' = TRUE
  /\ UNCHANGED <<phase, held, reported>>

\* The close returns: whatever is still held has been reported.
Finish ==
  /\ phase = "closing" /\ held \subseteq reported
  /\ phase' = "done"
  /\ UNCHANGED <<held, reported, marked>>

LifeNext ==
  \/ \E S \in SUBSET Resources : Acquire(S) \/ Abort(S)
  \/ BeginClose
  \/ \E r \in Resources : Close(r)
  \/ Mark \/ Finish

LifeSpec == LifeInit /\ [][LifeNext]_lifeVars

(* Resources are acquired only during construction: once the node is     *)
(* open, closing or done, no step adds to what it holds.                  *)
AcquireOnlyOpening == [][phase = "opening" \/ held' \subseteq held]_lifeVars
=============================================================================
