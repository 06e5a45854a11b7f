CONSTANTS
  w1 = w1
  p1 = p1
  p2 = p2
  Clients = {w1}
  Workers = {w1}
  Projects = {p1, p2}
  MaxSnapshot = 3
  Called <- RefreshCalls
  Refreshes = {"full", "single_project"}
  GitLabFaults = {"gitlab"}
  StoreFaults = FALSE
SPECIFICATION FairCoordinatorSpec

INVARIANTS ProfilesInScope NoOrphanedSnapshot
PROPERTIES SingleRefreshIsIncremental SlotIsFreed
