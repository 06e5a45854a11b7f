--------------------------- MODULE MCServerLifecycle ---------------------------
(* The process with its scheduler, initial refresh, one worker of the        *)
(* refresh tools and the main thread.                                        *)
EXTENDS ServerLifecycle

ThreadCalls ==
  [c \in Clients |->
     IF c = Main
       THEN {"abort_snapshot"}
       ELSE {"begin_snapshot", "write_profile", "record_skip",
             "abort_snapshot", "commit_snapshot", "populate_in_scope",
             "get_current_snapshot_id", "is_in_scope"}]
=============================================================================
