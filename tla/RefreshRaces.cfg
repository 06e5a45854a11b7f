CONSTANTS
  w1 = w1
  w2 = w2
  p1 = p1
  p2 = p2
  Clients = {w1, w2}
  Workers = {w1, w2}
  Projects = {p1, p2}
  MaxSnapshot = 3
  Called <- RefreshCalls
  Refreshes = {"full", "single_project"}
  GitLabFaults = {"gitlab", "other"}
  StoreFaults = FALSE
SPECIFICATION CoordinatorSpec
SYMMETRY Symmetry
INVARIANTS CoordinatorTypeOK SingleFlight ReportedOutcomeHolds EveryProjectAccountedFor
PROPERTIES PublishedRowsImmutable OnlyRunningJobPublishes ImplementsSnapshotView ImplementsShownView
