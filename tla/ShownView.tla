------------------------------ MODULE ShownView ------------------------------
(***************************************************************************)
(* SnapshotView as it shows on the connection that all threads share.      *)
(* commit_snapshot moves the pointer inside its transaction, and from then *)
(* on readers are shown the new snapshot; its COMMIT has yet to succeed,   *)
(* and when it does not they are shown the old one again.                  *)
(* IngestionCoordinator.tla implements this specification;                 *)
(* ReadSurfaces.tla reads what it shows.                                   *)
(***************************************************************************)
EXTENDS SnapshotView

CONSTANT CommitFaults \* whether a COMMIT may fail

VARIABLES
  uncommitted,  \* a commit_snapshot has moved the pointer in its transaction
  before        \* the pointer in the file, while uncommitted

shownVars == <<views, current, uncommitted, before>>

ShownInit ==
  /\ Init
  /\ uncommitted = FALSE
  /\ before = NoSnapshot

(* commit_snapshot updates current_snapshot inside its transaction.          *)
MovePointer ==
  /\ ~uncommitted
  /\ uncommitted' = TRUE
  /\ Next
  /\ before' = current

CommitSucceeds ==
  /\ uncommitted
  /\ uncommitted' = FALSE
  /\ before' = NoSnapshot
  /\ UNCHANGED <<views, current>>

(* COMMIT raises, or the process ends, and SQLite undoes the transaction.    *)
CommitFails ==
  /\ CommitFaults
  /\ uncommitted
  /\ uncommitted' = FALSE
  /\ views' = [n \in DOMAIN views \ {current} |-> views[n]]
  /\ current' = before
  /\ before' = NoSnapshot

ShownNext == MovePointer \/ CommitSucceeds \/ CommitFails

ShownSpec == ShownInit /\ [][ShownNext]_shownVars
=============================================================================
