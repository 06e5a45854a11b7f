CONSTANTS
  w1 = w1
  p1 = p1
  Clients = {w1}
  Workers = {w1}
  Projects = {p1}
  MaxSnapshot = 2
  Called <- RefreshCalls
  Refreshes = {"full"}
  GitLabFaults = {"other"}
  StoreFaults = FALSE
SPECIFICATION FairCoordinatorSpec
PROPERTIES SlotIsFreed
