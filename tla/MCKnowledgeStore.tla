--------------------------- MODULE MCKnowledgeStore ---------------------------
(* The store under calls of two threads: one runs jobs, the other starts     *)
(* and aborts snapshots of its own and reads.                                *)
EXTENDS KnowledgeStore, TLC

CONSTANTS worker, other

Roles ==
  (worker :> {"begin_snapshot", "write_profile", "record_skip",
              "populate_in_scope", "commit_snapshot"})
  @@ (other :> {"begin_snapshot", "abort_snapshot", "list_profiles",
                "list_in_scope"})
=============================================================================
