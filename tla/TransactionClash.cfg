CONSTANTS
  w1 = w1
  w2 = w2
  p1 = p1
  Clients = {w1, w2}
  Workers = {w1, w2}
  Projects = {p1}
  MaxSnapshot = 2
  Called <- RefreshCalls
  Refreshes = {"full"}
  GitLabFaults = {}
  StoreFaults = FALSE
SPECIFICATION CoordinatorSpec
INVARIANTS RunningJobUndisturbed
