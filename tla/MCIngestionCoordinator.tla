------------------------ MODULE MCIngestionCoordinator ------------------------
(* Threads refreshing a group of projects.                                  *)
EXTENDS IngestionCoordinator, TLC

RefreshCalls ==
  [c \in Clients |->
     {"begin_snapshot", "write_profile", "record_skip", "abort_snapshot",
      "commit_snapshot", "populate_in_scope", "get_current_snapshot_id",
      "is_in_scope"}]

Symmetry == Permutations(Workers) \cup Permutations(Projects)
=============================================================================
